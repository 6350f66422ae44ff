---------------------------- MODULE EmbeddedFlash ----------------------------
(***************************************************************************)
(* The flash of the device as the store sees it                            *)
(* (embedded_flash/syscall.rs, StorageIndex of persistent_store's          *)
(* storage.rs).                                                            *)
(*                                                                         *)
(* The kernel offers the application one or more areas of flash, its       *)
(* storage locations [ptr, len]; SyscallStorage presents num_pages pages   *)
(* of them as one storage.  A kernel is [word_size, page_size, locations], *)
(* the memory a function from addresses to bytes.                          *)
(***************************************************************************)
EXTENDS Integers, Sequences

LOCAL INSTANCE SequencesExt
LOCAL INSTANCE FiniteSetsExt

Unaligned == [error |-> "NotAligned"]
OutOfBounds == [error |-> "OutOfBounds"]
CustomError == [error |-> "CustomError"]

is_power_of_two(x) == \E k \in 0 .. 16 : x = 2^k

\* x & (size - 1) == 0, for a power of two
is_aligned(x, size) == x % size = 0

\* Takes as many of the pages that are left as the location has.
TakeLocation(s, location) ==
    LET len == Min({s.left * s.page_size, location.len})
    IN  IF s.error # "none" THEN s
        ELSE IF ~is_aligned(location.ptr, s.page_size) \/ ~is_aligned(location.len, s.page_size)
        THEN [s EXCEPT !.error = "CustomError"]
        ELSE [s EXCEPT !.left = @ - len \div s.page_size,
                       !.storage_locations = Append(@, [ptr |-> location.ptr, len |-> len])]

\* SyscallStorage::new
new_storage(kernel, num_pages) ==
    IF \/ ~is_power_of_two(kernel.word_size) \/ ~is_power_of_two(kernel.page_size)
       \/ ~is_aligned(kernel.page_size, kernel.word_size)
    THEN CustomError
    ELSE LET s == FoldLeft(TakeLocation,
                           [error |-> "none", word_size |-> kernel.word_size,
                            page_size |-> kernel.page_size, num_pages |-> num_pages,
                            left |-> num_pages, storage_locations |-> <<>>],
                           kernel.locations)
         IN  IF s.error = "none" /\ s.left > 0 THEN OutOfBounds ELSE s
-----------------------------------------------------------------------------
\* The bytes of the slices before slice i.
Before(slices, i) == FoldLeft(LAMBDA n, s : n + s.len, 0, SubSeq(slices, 1, i - 1))

\* Mutant: looks for the first byte after a slice in this slice.
find_slice_Past(slices, start, length) ==
    LET hits == {i \in DOMAIN slices : start <= Before(slices, i) + slices[i].len}
        i == Min(hits)
        offset == start - Before(slices, i)
    IN  IF hits = {} \/ offset + length > slices[i].len THEN OutOfBounds
        ELSE [error |-> "none", address |-> slices[i].ptr + offset]

\* The address of the slice of the given length, start bytes after the first
\* byte of the storage.
find_slice(slices, start, length) ==
    LET hits == {i \in DOMAIN slices : start < Before(slices, i) + slices[i].len}
        i == Min(hits)
        offset == start - Before(slices, i)
    IN  IF hits = {} \/ offset + length > slices[i].len THEN OutOfBounds
        ELSE [error |-> "none", address |-> slices[i].ptr + offset]

\* StorageIndex
is_valid(index, length, s) ==
    index.page < s.num_pages /\ length <= s.page_size /\ index.byte <= s.page_size - length

range(index, length, s) ==
    IF is_valid(index, length, s)
    THEN [error |-> "none", start |-> index.page * s.page_size + index.byte]
    ELSE OutOfBounds

\* read_slice: the address of the slice.
locate_slice(s, index, length) ==
    LET r == range(index, length, s)
    IN  IF r.error = "none" THEN find_slice(s.storage_locations, r.start, length) ELSE r

\* The kernel writes bytes to an address, or fails.
KernelWrites(memory, address, bytes, succeeds) ==
    IF succeeds
    THEN [error |-> "none",
          memory |-> [a \in DOMAIN memory |-> IF a \in address .. address + Len(bytes) - 1
                                              THEN bytes[a - address + 1] ELSE memory[a]]]
    ELSE CustomError

flash_write_slice(s, memory, index, value, succeeds) ==
    LET slice == locate_slice(s, index, Len(value))
    IN  IF ~is_aligned(index.byte, s.word_size) \/ ~is_aligned(Len(value), s.word_size)
        THEN Unaligned
        ELSE IF slice.error # "none" THEN slice
        ELSE KernelWrites(memory, slice.address, value, succeeds)

flash_erase_page(s, memory, page, succeeds) ==
    LET slice == locate_slice(s, [page |-> page, byte |-> 0], s.page_size)
    IN  IF slice.error # "none" THEN slice
        ELSE KernelWrites(memory, slice.address, [i \in 1 .. s.page_size |-> 255], succeeds)
=============================================================================
