# A verification of OpenSK

OpenSK is the firmware of a security key: an application for the Tock operating
system that speaks CTAP1 (U2F) and CTAP2 (FIDO2) over USB HID and keeps its
secrets in flash. This directory holds TLA+ modules that model the parts of it
that keep state and its pure algorithms, TLC configurations that check them on small instances, and
TLAPS proofs of what matters most for every value of the parameters.

All paths below are relative to the root of the repository.

## The system and its parts

```
 hosts ──packets──▶ USB driver ──▶ main loop ──▶ CTAPHID ──▶ CTAP1 / CTAP2 ──▶ PIN protocol
                                      │ (button, leds)             │                │
                                      └── user presence ◀──────────┤                │
                                                                   ▼                ▼
                                                        PersistentStore (keys and values)
                                                                   ▼
                                                       persistent_store (the log in flash)
                                                                   ▼
                                                             flash storage
```

Everything runs in one thread. What makes it hard is that power may go at any
instant (the device is unplugged), that several hosts share the device and send
what they like when they like, and that a command waits for the user in a loop
of its own, in which packets arrive.

| Part | State | Operations | Interactions | What makes it correct |
| --- | --- | --- | --- | --- |
| Persistent store (`libraries/persistent_store/src/{store,format}.rs`) | pages of flash words; nothing in memory | `transaction`, `insert`, `remove`, `remove_handle`, `clear`, `prepare`, `new` (recovery) | calls the `Storage` trait; called by `PersistentStore` | operations are atomic under power loss; recovery always succeeds; deleted values are wiped; flash limits are kept |
| Flash storage contract (`storage.rs`, `buffer.rs`) | words, counters of writes and erasures | `write_slice`, `erase_page`, interruption | called by the store | a write only clears bits; word writes and page erasures are limited |
| Reference model of the store (`model.rs`, `driver.rs`) | a map, a capacity | `apply`, what is accepted after an interruption | compared with the store by the fuzzer | it is the promise |
| CTAPHID packets (`src/ctap/hid/{receive,send}.rs`) | the message being assembled, channel, sequence number, time of the last packet | `parse_packet`, `MessageSplitter` | called by CTAPHID | a message is delivered exactly as its host sent it; silence times out |
| CTAPHID transactions (`src/ctap/hid/mod.rs`) | allocated channels, wink permission | `process_hid_packet` and a branch per command | calls CTAP1, CTAP2; called by the main loop | every packet gets the right answer, what was accepted is delivered, no `unwrap` panics |
| PIN protocol (`src/ctap/pin_protocol_v1.rs`) | key agreement key, token, its permissions and relying party, mismatches | a handler per subcommand, `has_permission…`, `reset` | several updates of the store per command | guesses are limited over power losses; tokens die with their PIN |
| Persistent entries (`src/ctap/storage.rs`, `storage/key.rs`) | PIN hash, retries, minimum length, credentials, counter, keys, attestation | a getter and setter each, `init`, `reset` | the store | entries fit together between two updates |
| CTAP2 commands (`src/ctap/mod.rs`) | the stateful command, its permission and the credentials it has still to use | a handler per command | store, PIN protocol, user presence | a command is authorised by what is true when it acts |
| CTAP1 (`src/ctap/ctap1.rs`), timed permissions (`timed_permission.rs`) | user presence state | register, authenticate | main loop, CTAP2 | one touch serves one request |
| Main loop and user presence (`src/main.rs`) | pending reply, leds, buttons | loop, `check_user_presence`, `send_keepalive_update_timeout` | everything | a touch, CANCEL or timeout ends a wait |
| USB driver (`third_party/libtock-drivers/src/usb_ctap_hid.rs`, `patches/tock/02-usb.patch`) | callbacks, alarm; in the kernel, the queued, the offered and the delayed packet | `recv_with_timeout`, `send_or_recv_with_timeout` | kernel and controller | what is reported as sent was taken; no call waits forever |
| Embedded flash (`src/embedded_flash/syscall.rs`) | the areas that the kernel offers | `new`, `read_slice`, `write_slice`, `erase_page` | the store calls it; system calls | the areas are one array of pages |
| Formats (`command.rs`, `response.rs`, `data_formats.rs`, `apdu.rs`, `libraries/cbor`) | none | conversions | CTAPHID, CTAP, stored credentials | a value has one encoding; a message means what its fields mean |
| Cryptography (`libraries/crypto`) | a hash under way | arithmetic, signatures, key agreement, hashes | CTAP, PIN protocol | what the standards define |
| Boards, other kernel patches, scripts | | | | not modelled, see the end |

`PROJECT.json` lists every part with its status, every definition with the lines
it models, and, under `hazards`, what is hard to test in this code.

## Modules

| Module | Models | Uses |
| --- | --- | --- |
| `Format` | sizes and positions of the store (`format.rs`) | |
| `StoreOperations` | the calls of a client of the store (`store.rs`, `model.rs`) | `Format` |
| `StoreModel` | the promise of the store (`model.rs`, `driver.rs`) | `StoreOperations` |
| `Store` | the store and its flash, word by word (`store.rs`, `format.rs`, `storage.rs`, `buffer.rs`) | `StoreOperations`; implements `StoreModel`, `StoreLog` and `LogSpace` |
| `StoreLog` | the log of the store, entry by entry (`store.rs`) | `StoreOperations`; implements `StoreModel` |
| `LogSpace`, `LogRounds` | the space that the log takes, and the number of compactions in a row (`store.rs`, sizes of `format.rs`) | `Format` |
| `MessageAssembler` | messages and packets (`receive.rs`, `send.rs`) | |
| `CtapHid` | channels and commands (`hid/mod.rs`) | `MessageAssembler` |
| `PinProtocol` | the PIN protocol, the entries it keeps, reset (`pin_protocol_v1.rs`, `storage.rs`, `mod.rs`) | |
| `Authenticator` | credentials, counter, master keys and attestation, the CTAP2 commands, register and authenticate of CTAP1 (`mod.rs`, `storage.rs`, `ctap1.rs`) | |
| `UsbHid` | the USB driver in kernel and application (`02-usb.patch`, `usb_ctap_hid.rs`, `timer.rs`) | |
| `Device` | the main loop, the wait for a touch, timed permissions (`main.rs`, `timed_permission.rs`) | `UsbHid` |
| `Words` | the bits of the words of the store (`format.rs`, `bitfield.rs`) | |
| `EmbeddedFlash` | pages and bounds of the flash of the device (`syscall.rs`, `storage.rs`) | |
| `Int256`, `Curve`, `Ecdsa` | integers, the curve, signatures and key agreement (`libraries/crypto/src/ec/`, `ecdsa.rs`, `ecdh.rs`) | each the one before |
| `Hashing` | hashes, codes, block chaining, hmac-secret, key handles (`sha256.rs`, `hmac.rs`, `cbc.rs`, `pin_protocol_v1.rs`, `mod.rs`) | |
| `Cbor` | reader, writer, destructuring of maps (`libraries/cbor`) | |
| `Apdu`, `Formats` | messages of CTAP1 and CTAP2 (`apdu.rs`, `ctap1.rs`, `command.rs`, `response.rs`, `data_formats.rs`) | `Cbor`, `Ecdsa` |
| `CtapHidProofs`, `PinProtocolProofs`, `AuthenticatorProofs`, `DeviceProofs`, `Int256Proofs`, `StoreLogProofs`, `LogSpaceProofs` | theorems | the module of their name, `NatLemmas` |
| `NatLemmas` | least and greatest numbers, remainders, induction and recursion | |
| `MCStore`, `MCStoreFull`, `MCCtapHid`, `MCPinProtocol`, `MCAuthenticator`, `MCDevice` | instances for TLC | |
| `MCAlgorithms` | the pure algorithms, their inputs and their references | `Words`, `EmbeddedFlash`, `Hashing`, `Apdu`, `Formats` and what they use |

### Store

The code is sequential and deterministic, so each Rust function that writes
(`compact_copy`, `insert_init`, `transaction_apply`, `recover_operation` …) is an
operator of the same name from a *run* to a run: the flash as the function sees
it, the storage operations issued so far, and the result. `Call` computes the
run of an operation; `StorageStep` performs its storage operations one at a time;
`PowerLoss` interrupts one of them anywhere and leaves any mixture of old, new
and half-written words; `Boot` runs recovery, which may be interrupted again.

A data word is abstracted to its number of cleared bits, which is what the
checksums of the format count; init, compact, header and internal words are
records of their fields. A word with a checksum whose write was interrupted is
`Partial`: it fails its checksum, which is the documented purpose of checksums
that count zeros. An erasure that is interrupted leaves the content words of its
page all kept, all gone or all damaged, and its two info words independently in
any state. That a half-written word fails its checksum is not assumed blindly:
`Words` models the words bit by bit and `PartialWordsDetected` checks it.

`remove_found` is a client that looks up a handle and passes it to
`remove_handle`; a handle that compaction has made stale is refused by
`check_handle`, and the client, which runs in one thread, never holds one over
another call.

The abstract state that the refinement `Atomic` looks at is not the flash but
what recovery would make of it (`restored`), so each step of the storage has to
look atomic from the point of view of the next boot.

### StoreLog and LogSpace

`Store` is as large as TLC can enumerate and too detailed to be proved about. Two
modules say what it does on one level each; TLC checks that `Store` implements
them (`LogKept`, `SpaceKept`), and what matters is proved about them for every size.

`StoreLog` has the entries of the log at their positions, and no words, pages or
capacity. `WritePart` and `WriteEntry` append an entry, `ApplyStep` deletes one
entry after the other what the operation replaces, `RecoverStep` does what
recovery does next. `PowerLoss` may come before, after or in the middle of any of
these; there is no bound on their number. Deleting an entry removes it from the
log: that its words are wiped and skipped is the business of `Store`. A compaction
is one step, because `recover_compaction` and `recover_erase` always complete it.
`Content` says what a log stands for without recovering it: the last entry about
a key decides, and the updates of an incomplete transaction do not count. In
`LogKept` the log is read from the flash as `recover_operation` finds it, that is,
after the recovery of compactions (`LogAfter`); the number of entries written is
read from the storage operations that are left (`entries_written`).

`LogSpace` has the positions of head and tail, the positions of the words of user
entries, and how often each page was erased. `Write` and `Delete` change these
words within the capacity, `Compact` moves those of the head page after the tail,
writes an erase entry and erases the page; it is taken when an operation would not
fit. Which words belong together is abstracted to the number by which an entry can
exceed its page. `LogRounds` counts compactions with nothing in between.

### MessageAssembler and CtapHid

A packet is a record of its fields. `parse_packet` maps an assembler and a packet
to the next assembler and a result; `process_hid_packet` is the whole handler, a
disjunct per command and an error reply per rejection. A timestamp is a reading of
the clock in milliseconds; the clock wraps from its largest reading to its smallest
(`Tick`), and `timed_out` subtracts two readings as numbers, as `receive.rs:93` does
(`Timestamp` subtracts without wrapping, `timer.rs:303-311`). After a wrap the
difference is negative and nothing times out. A host that stopped in the middle of a
message before the wrap then blocks the others until the readings exceed that of its
last packet by the timeout again (the period is about 36 hours of 32-bit ticks of
32768 Hz), and for good if this reading was within the timeout of the largest one.
The channel counter wraps with its width, as the code, which has a TODO instead of a
bound (`hid/mod.rs:235`), does after 2^32 INIT commands: the broadcast and the reserved
channel are then handed out, and no property says that channels are unique.
Hosts are not modelled: any packet of `Packets` may arrive at any time, so lost,
repeated and reordered packets need no action of their own. The responses of
CTAP1 and CTAP2 are any of `Responses`, including one that is too long (CBOR
checks the length; for MSG the code relies on CTAP1 responses being short, and so
does the model). When the wink permission expires is the business of `Device`; here
it may expire at any tick.

The history variables record what one channel, `Watched`, saw, without looking at the
assembler or at the clock; any channel can be the watched one. `stream` has the packets
since its last first packet, `due` the time left for the next one (0 once one was
answered, missing, late or out of order), `others` the time since another channel
sent a packet, `unanswered` the other channels whose last packet had no answer and
`stale` those of them that sent it before the clock last wrapped. `stale` is the
exception that `BusyOnlyWhileActive` and `ResyncAnswered` make; TLC finds both
violated without it.

### PinProtocol

Each command runs in steps, one per update of the persistent store, because the
store makes one update atomic and no more. `PowerLoss` may come between any two
steps; `StoreFails` makes an update fail, which the code passes on with `?`.
Cryptography is ideal: a platform can produce a good HMAC or encrypted hash only
if it has the current key agreement key (`key_known`) or the current token
(`token_pin`, which remembers the PIN it was handed out for). `wrong`,
`wrong_since_boot` and `served` are history. With `WithCtap21 = FALSE` the
actions of `with_ctap2_1` are not enabled.

### Authenticator

The credentials in the store, one per key, the signature counter, the master keys
and the stateful command of `CtapState`. A command is accepted when none is
running (`step = "idle"`). One that needs the user is split where the code calls
`check_user_presence`: the first action computes what the code computes before
the wait and keeps it in `pending`; `Touch` does the rest, `NoTouch` is a timeout
or a cancellation, and meanwhile time passes and the power may be lost. A reset is
two more steps, the clearing of the store and `init`, each of which may fail.
Updates of the store are atomic or fail, which is what `Store` is shown to do.

Identifiers are random in the code and therefore fresh; here they are numbered in
`issued`, which also records what the properties need: whether a credential is
resident, the master keys and the number of resets (`era`) at its creation, and
the last counter it signed. A key handle is sealed with the master keys, which are
numbered too (`generated`). An allow or exclude list is a set of identifiers; the
code takes the first that fits, so the model takes any. The PIN is set or not, and
a PIN auth parameter absent, empty, bad or good: `PinProtocol` says when it is
good. `uptime`, `quiet` and `wrapped` are history.

Vendor configuration writes certificate and private key in two updates, between
which it may fail or lose power; a material is a model value that stands for a
matching pair, and the materials are symmetric (`MaterialSymmetry`). The setters
refuse to overwrite, as the code does; `AttestationPaired` says, among other things,
that they are never called where something is defined. Lockdown needs certificate and
key only if `need_certificate`, that is, with CTAP1 or `USE_BATCH_ATTESTATION`.

### UsbHid and Device

`UsbHid` is a record of the driver's state and an operator per function of the
kernel driver and of the application's driver. A packet for the host is only told
apart by whether the call that queued it still waits (`current`) or has returned
(`abandoned`): the kernel may have handed it to the controller, which offers it
until the host takes it.

`Device` runs the application on it. Its program counter stands between the
system calls of the code; a yield executes one scheduled callback. The actions of
the host (`PacketIn`, `PacketOut`), the user (a touch) and the alarm may come
between any two of them. A request is one packet, known by what it does here:
`u2f` needs a touch given beforehand, `get` waits for one and then allows `next`,
`cancel` ends a wait, `wink` grants winking. The host sends any packet at any time, a
WINK while the device winks included, which renews the permission
(`hid/mod.rs:275`). A permission holds the difference between its timeout and
the clock, which wraps as the clock values of the code do, with the clock values
at which the code reads the clock: `now` of a command is from before its wait. One
turn of the loop is assumed shorter than half the period of the clock (which is
minutes to hours in the code, a turn at most the 30 seconds of a wait).

`result`, `used`, `ages`, `pressed` and `cancels` are history, in real time. Of the
ages, `cleanup` is the time since the U2F state was last cleaned up; the end of the
loop does so, but not while the device winks (`main.rs:168-182`).

### The algorithms

`Int256`, `Curve`, `Ecdsa`, `Hashing`, `Words`, `EmbeddedFlash`, `Cbor`, `Apdu`
and `Formats` are operators named after the functions of the code.
`MCAlgorithms` picks one and an input and takes one step; each property is about
this step, and compares the output of the algorithm with a reference that is
written without it.

Sizes are parameters. The integers have 4 digits of 4 bits (8 of 32 in the code),
the curve has the equation of secp256r1 over a field of 65287 elements and prime
order, field size and order begin with a digit of ones as the code relies on. The
limbs of a Montgomery element are abstracted to the value that they stand for: that
the limb arithmetic of `montgomery.rs` (carries, degree reduction) computes sums and
products in the field, and that the literals of `precomputed.rs` are the multiples of the
base point, is assumed by `ScalarMultiplication` and `SignaturesVerify` and not checked.
Its chain of squarings (`inv`) is modelled at its real size. The
compression function of SHA-256 and the cipher are toys that depend on every byte:
what is checked is which blocks they are applied to. CBOR is modelled byte by byte
with the sizes of the code; a CTAP2 message is a CBOR value, a structure a list of
fields with keys and types, in the order in which the code looks at them.

## Runs

| Run | Instance | Shows |
| --- | --- | --- |
| `store_crash` | 3 pages of 9 words, 1 erasure per page, 2 keys, one power loss | `LogKept`, `SpaceKept` (the flash does what `StoreLog` and `LogSpace` say), `RecoverySucceeds`, `DeletedValuesWiped`, `FlashRespected` (its limits, what the fuzzer's `check_storage` checks, and that the lifetime used stays below the total) when the power goes at any instant of any operation, compactions included, up to the end of the life of the flash. `LogKept` implies that operations are atomic, by the theorem `LogImplementsModel` |
| `store_twice` | the same pages, never erased, two power losses | `Atomic`, `OnlyClearsBits` when recovery is interrupted in turn |
| `store_results` | 3 pages of 8 words, no power loss, 14 calls at the limits of their arguments and of the capacity | `Atomic`: each call returns what the model returns |
| `store_full` | 12 pages of 8 words, a client that fills the store | a *violation*: `AlwaysCompactable` (see Findings) |
| `hid` | 3 channels, packets of 1 and 2 bytes, messages of up to 3 packets, timeout 2, a clock of 4 readings | `DeliveredAsSent`, `RepliesFit`, `BusyOnlyWhileActive`, `ResyncAnswered`, `AcceptedIsDelivered`, while clock and channel counter wrap |
| `pin` | the limits of the code (8 retries, 3 mismatches), 3 PINs, 2 relying parties | `GuessesPaid`, `GuessesPerBoot`, `TokenMatchesPin`, `OneRpPerToken`, `FullRetriesWithoutPin`, `BlockedUntilReset` |
| `credentials` | 2 keys, 4 credentials created (two users of a relying party, a replacement with another policy, a second relying party), no reset | `OneCredentialPerUser`, `NewestFirst`, `AssertionsLive`, `ProtectedNeedsUv` |
| `authenticator` | 2 credentials, resident or key handles, CTAP1 and CTAP2, 2 attestation materials, one reset, a counter that wraps at 4 | `CounterIncreases`, `HandlesOpen`, `AttestationPaired`, `ResetOnlyAfterBoot` |
| `device` | 2 channels, a clock of 8 values, waits of 2 iterations, replies of 2 packets | `PresenceJustified`, `PermissionsFresh`, `SentIsTaken`, `KernelPanicsOnlyOnStale`, and, under fairness, `Responsive` |
| `device_panic` | the same | a *violation*: `KernelAssertionsHold` (see Findings) |
| `device_wink` | U2F requests and WINK, a clock of 6 values | a *violation*: `NeverRandomPresence` (see Findings) |
| `algorithms` | small integers, words and blocks (above); inputs at and around every boundary | `ModularArithmetic`, `ScalarMultiplication`, `SignaturesVerify`, `PartialWordsDetected`, `CborCanonical`, `MessagesDecoded`, `FlashAddressed`, `SymmetricCryptography` |

Bounds, and why they are enough:

* `NumPages = 3` is the least that the code supports, and the tightest: with one
  page kept free for compaction, two are left. Pages of 8 words are the least
  supported; 9 words make entries that span pages and that do not. Values have at
  most two words (the first may be half-written while the footer is not), and
  there are two keys: one that an operation touches and one that it must not.
* `MaxPageErases = 1` gives every page a second life, so that the window wraps
  around and the end of the lifetime (`NoLifetime`) is reached.
* `MaxPowerLosses = 1` with compactions and `2` without: what recovery does after
  a power loss depends on the flash only, which a second loss shows to be enough;
  the two together exceed what can be enumerated.
* The client's calls (`CrashOperations` …) are one of each shape: an insertion
  that replaces, a transaction with a removal and an insertion, a removal, a clear.
* In `hid` there are the reserved, the broadcast and one more channel
  (`BROADCAST = 2`), so that INIT on the broadcast channel hands out each of them in
  turn and the counter wraps. A message of three packets has a middle; one length is
  longer than any message. `HALF_PERIOD = 2`: a clock of four readings has timeouts
  (of two ticks) before the wrap, at it and after it, and comes round again.
* In `pin` no bound is needed but the sets: the counters bound themselves. The
  PINs are one that satisfies the default policy only, one that satisfies a raised
  one and one that fills the padding.
* `MAX_SUPPORTED_RESIDENTIAL_KEYS = 2`: the store is full with the two credentials
  that GetNextAssertion needs, and `MaxIssued = 4` leaves two more to replace them
  with, or to be refused. The `authenticator` run needs fewer credentials and
  spends its states on resets (`MaxEra = 1`: before and after), on increments that
  differ (1 and 2) and on a counter that wraps (`CounterModulus = 4`; properties of
  the counter are about the time before it wraps). Timeouts of one or two ticks
  tell before, at and after.

* In the `authenticator` run no credential is issued before the attestation is
  programmed (`MaxUnattested = 0`), so that configurations and credentials do not
  multiply; `credentials`, which configures nothing, covers the rest.
* In `device` two channels tell a CANCEL of the request from another one, two
  iterations a first wait from a last one, two packets a reply that is cut off.
  `HALF_PERIOD = 4` is larger than every duration, as in the code, and small
  enough that permissions wrap, of which renewed winks make use; `OLD = 3` is past every duration, and ages beyond
  it make no difference.
* In `algorithms` the inputs are chosen: operands at the ends and around the
  modulus, the first candidates of a signature that are out of range or leave `s`
  at zero, every interruption of a word, every short sequence of bytes of each
  CBOR kind and encodings with one byte changed, left out or added, every message
  with a field missing, of another type or added, every split of a message into
  pieces around a block.

Deadlock is checked in every run but `algorithms`, whose behaviours end after one
step.

Fairness: `device` assumes weak fairness of the application (the processor runs
it whenever it is not waiting, and the kernel executes scheduled callbacks when it
yields) and of the alarm (the hardware clock runs). Host and user owe nothing.
`Responsive` then says that no wait, for a touch, for a packet or for a transfer,
lasts forever. The other specifications state no fairness: their properties are
safety properties. That the loops of `reserve` and `clear`, which are inside one step
of `Store`, end is the bound `CompactionsSuffice` on compactions in a row.

## Proofs

The proof modules prove for every value of the constants what `hid`, `pin`,
`credentials`, `authenticator` and `device` check on one instance: every safety
property of these runs is a theorem. `StoreLogProofs` and `LogSpaceProofs` do the same
for the two descriptions of the store that `store_crash` checks the flash against. `Int256Proofs` proves of the integers what the
run `algorithms` compares with ordinary arithmetic for some of them. The assumptions are `FormatAssumption`
(what `is_storage_supported` demands), `OperationsAssumption`, `PacketAssumption`,
`HidAssumption`, `PinAssumption`, `AuthenticatorAssumption`, `PacketsAssumption`,
`DeviceAssumption` and `Int256Assumption`, which the runs evaluate; what they ask of the sizes holds
of the code's (below).

Each proof about a state machine has the same shape: an inductive invariant, a lemma per action that
preserves it, a theorem `Spec => []Inv`, and the properties as consequences. TLC
checked each invariant on a small instance before it was proved.

**The log.** `StoreLogProofs` proves that `StoreLog` implements `StoreModel`
(`LogImplementsModel`), for every number of keys, updates and power losses and every
length of values. The mapping takes `Content(log)` for the content, and recovery for
being switched off: recovery must not change what the log stands for. `LogInv`
(theorem `LogInvariant`) names the shapes a log can have: user entries of distinct
keys and perhaps an entry that is being written (`Open`), a clear entry at the end
(`ClearAt`), a marker with its updates (`MarkerAt`), a transaction of which only
remove entries are left (`Removes`), an insertion next to what it replaces
(`InsertAt`). After a power loss the log has one of these (`Recoverable`). That is not
enough while an operation runs, where a step has to produce what *this* operation
means: `Wrote` relates the updates after a marker to those of the call, and once all
entries are written (`Written`) the content is what the operation makes of it
(`UnderWay`). The operation takes effect at one step: when its last entry is complete,
or, for a removal, when the entry is deleted. The lemmas show of each other step that it
keeps `Content`: the order in which `transaction_apply` and `clear_delete` work
matters here (what is replaced first, the marker or clear entry next, remove entries
last), and so does recovery taking a marker for incomplete until the last of its
updates is there, and deleting these before the marker. A compaction keeps the order
of the entries it moves only if they are of distinct keys, which is why it comes
before anything is written. `FindsTheContent` and `LogIsUnderstood` follow from
`LogInv`.

`recover_insert` looks at the last entry only, if it ends at the tail. That suffices
because an insertion is completed, by the operation or by the recovery after it,
before another entry is written (`InsertAt`). `OperationsAssumption` says what
the arguments of a call are; `transaction_valid`, which refuses repeated keys, is checked by
the code and needed by the proof.

**The space of the log.** `lib.rs:205-290` argues that `virt_size` and
`total_capacity` reserve enough words. It starts from a log of at most `virt_size`
words, which need not hold: when the power is lost between two compactions of one
operation, the next operation continues with a log that the first compactions have
made longer. `SpaceInv` (theorem `SpaceInvariant`) says how long: for some `k` up to
`N - 2` there is a mark, the tail at the time the log was last at most `virt_size` long,
since which `k` pages were compacted; the log is at most `virt_size + k` words long,
and the live words before the mark with what follows it are at most
`total_capacity + k`. Together with the live words being within the capacity and the
head being at most a prefix after the start of its page, this is inductive. Hence, for
every number and size of pages: nothing is written over a word of the log or of the
head page (`LogNeverOverwrites`), a compaction keeps every live word
(`CompactionKeepsEntries`), and `N - 1` compactions in a row always suffice, so the
loops of `reserve` and `clear` end (`CompactionsSuffice`, with `RoundsInv`).
`LifetimeInv` counts the erasures of a page by the position of the head
(`LifetimeIsCounted`): no page is erased more often than it can be and `lifetime` does
not underflow.

`CompactInfoParsed` is the other side of the finding of `store_full`: `parse_compact`
accepts what `compact` writes if `NumPages - 2 <= max_prefix_len`. The 20 pages that
OpenSK configures, of 1024 words each, satisfy it; 12 pages of 8 words do not.

**CTAPHID.** `HidInv` (theorem `HidInvariant`) adds to the type invariant an
account of the assembler: while it is busy, the bytes it holds, its sequence
number and the bytes still to come belong together
(`Len(payload) = INIT_DATA + seq * CONT_DATA`), so the sequence number cannot pass
`MAX_SEQ + 1` and a completed message has at most `MAX_MESSAGE` bytes. That is the
argument which the `unwrap` on a PING reply rests on (`EveryReplyFits`). It also
says that a channel other than the watched one that holds the assembler has had no
answer, and either the reading of its last packet is as far from the clock as the time
since, or it sent that packet before the clock last wrapped (`SilentHostsDoNotBlock`).

`AcceptedInv` (theorem `AcceptedInvariant`) is the converse for the watched channel:
while its stream is not broken and not complete, the assembler is its own, and the
difference of the readings plus the time left for the next packet is at most the timeout.
A wrap only makes the difference smaller, so a message that spans it is not lost
(`AcceptedMessagesDelivered`): the wrap can keep a message alive for too long, never end
one too early.

`StreamInv` relates the assembler to the packets that the watched channel carried:
while it assembles for this channel, the packets since the last initialisation
packet are numbered as a sender numbers them, and its payload is their content,
position by position (`Holds`). A message that is complete is then what `split`
makes of its content, up to the padding of the last packet, which is
`DeliveredAsSent` (`MessagesDeliveredAsSent`). What `split` computes is a recursive
function of the content; it is unfolded at one position at a time, so no induction
over bytes is needed. `HostsResynchronise` needs that a nonce fits in the first
packet (8 of 57 bytes in the code) and its answer in a message.

**PIN protocol.** The properties are not inductive because they do not say what a
command that is half-way may rely on. `PinInv` (theorem `PinInvariant`) adds it:
a comparison has paid its retry (`VerificationInv`), the mismatch counter misses
only the wrong PIN that spent the last retry (`MismatchInv`), SetPin runs without
a PIN and with full retries (`SetPinInv`), nobody holds a token while a reset is
possible or running (`ResetInv`), which is why clearing the store before
`PinProtocolV1::reset` is safe, and the parties served are the one the token is
bound to (`BindingInv`). From it follow the type invariant, the safety properties,
`FullRetriesWithoutPin` (a PIN about to be set finds all its retries) and the
action property `BlockedUntilReset`. The type invariants of the modules are left to
the proofs; the other properties are checked by a run as well.

**Authenticator.** `AuthInv` (theorem `AuthInvariant`) says what holds while a
command waits for the user and between two updates of the store:

* `StoredInv`: resident credentials were issued since the last reset, and the order
  of their creation orders is the order in which they were issued. `NewestFirst` is
  about time, the code compares creation orders, which it computes from the
  credentials that are left: `c.creation_order <= c.id` is why a new one is the
  largest even after a replacement.
* `HandleInv`: a key handle was sealed since the last reset if and only if it was
  sealed with the master keys of now. The converse makes it inductive: `init` after
  a reset generates keys that no handle of before was sealed with.
* `CounterInv` and `SessionInv`: no credential has signed more than the counter of
  now, and those that GetNextAssertion has still to use have not signed its counter,
  which is older. Both are about the time before the counter wraps.
* `PendingInv` and `SessionInv`: the credentials of a command that waits are live
  and allowed by their policy, and nothing that could change them is accepted
  meanwhile; the copies for GetNextAssertion are those in the store.
* `AttestationInv`: between the two updates the first is of the material that is
  being programmed. `BootInv`: the permission to reset ends `RESET_TIMEOUT` after
  the boot.

It needs that the timeout of the stateful command is not shorter than that of a
touch (30 seconds both in the code) and that the counter starts below its modulus.

**Device.** `DeviceInv` (theorem `DeviceInvariant`) holds until the model halts at a
failed assertion. `UsbInv` says what kernel and controller hold at each place of a
call of the driver: which packet can be queued or offered, which callbacks can be
scheduled, and that a callback `transmitted` is of the packet of this call, since a
cancelled one leaves no callback; this gives `SentIsTaken` and
`KernelPanicsOnlyOnStale`. `CheckInv` says what the wait for a touch has seen of
touches and CANCEL, which gives `PresenceJustified`. `ClockInv` relates each
permission, a clock value that wraps, to the time that passed and to the time since the
U2F state was cleaned up (`Counted`). It is the part that is hard to see:
`check_expiration` cleans up an expired permission, but not while the device winks, and
a host may renew the wink for as long as it likes. What is kept is no older than the
last clean-up, so comparisons are right while that is less than half a period ago.
After half a period an expired touch is taken for one of the future: `device_wink`
shows it, and `PermissionsFresh` makes this one exception, for U2F requests that are
served. A touch that is still fresh is never lost, and the permission of
GetNextAssertion, which is cleaned up in every turn of the loop, is right even then.

`DeviceAssumption` asks for durations below `HALF_PERIOD`. In the code a wink lasts 5
seconds and the other permissions at most 30, and clock values are `isize`s of 32 bits,
half of which are 18 hours of ticks of 32768 Hz; that the kernel counts ticks over the
whole range is outside of the model.

**Integers.** `Int256Proofs` is about any number of digits (two or more) of any width
(two bits or more). The value of digits is the sum of each times its weight, and the
loop that every operation shares is exact: what it leaves are digits, and with the
carry or borrow they have the value of the sums it was given (`PropagateIs`). So the
digits are the remainder and the carry the quotient by `Radix`, and addition,
subtraction, comparison, `modd`, `modsub_vartime` and `modadd_vartime` are what their
names say (`AddIs`, `SubIs`, `LessThanIs`, `ModdIs`, `ModSubIs`, `ModAddIs`). Arguments
of the last two are reduced, as `GFP256` and `ExponentP256` keep them.

`modmul_top` is the hard one: the code says only that it "requires" a most
significant digit of ones, and its two assertions are compiled for tests alone.
`ModMulTopIs` proves for these moduli (`Moduli`) that they never fail and that the
result is the product modulo `m`. The product is complete after its last row
(`ProductIs`). For a step of the reduction, `Radix - m` is at most the weight `w` of
the most significant digit, so taking `top` times `m` from `v + top * Radix` leaves
`v + top * (Radix - m)`, at most `v + (Base - 1) * w`, which is not negative and less than
twice the radix, and less than the radix after one more `m` (`Estimate`). Hence the
new top digit is 0 or 1 and the correction does not borrow (`ReduceStepIs`); each step
takes a multiple of `m` away and leaves one digit less. `MulAddFits` says that the
model's unbounded sums are sound: carry, digit and product of two digits never exceed
a double digit, of which they can reach the last value. `modpow` and the shifts are
only model-checked.

**Lemmas.** The library's induction principles take an operator as parameter, which
the provers cannot instantiate. `NatLemmas` states instead that a nonempty set of
numbers has a least element (from the well-foundedness of `<`), which serves for
recursive functions: the least place where one differs from what it should be is
not the first, and not a later one. `InductionUpTo` is induction for a set instead of
a predicate, and `RecursionUpTo` says that a function defined by recursion up to a bound
exists, without which nothing could be said about it. The maximum and minimum of `FiniteSetsExt` and
remainders are treated there as well.

**Only model-checked.** `Responsive`: liveness under fairness, and `ENABLED`, are
beyond the prover. The properties of `Store`, and those of the algorithms except for
`Int256`: `Store`, `Cbor`, `Ecdsa` and `Formats` are written with recursive operators,
which the prover does not support, and `Hashing` and `Words` use `Bitwise` or folds
over data. For most properties of `Store` there is a theorem one level up, which
`LogKept` and `SpaceKept` tie to the flash on small instances:

| Checked of `Store` | Proved for every size |
| --- | --- |
| `Atomic` | `LogImplementsModel`, `FindsTheContent` |
| `RecoverySucceeds` | `LogIsUnderstood`; `CompactInfoParsed` for the sizes that it needs |
| `FlashRespected` | `LifetimeIsCounted` for erasures |
| `OnlyClearsBits` | `LogNeverOverwrites` for words of different entries |
| `DeletedValuesWiped` | none: it is about words only |

What `StoreLog` leaves out stays with TLC: the results `NoCapacity` and `NoLifetime` are
those of the model, and a full store is a matter of `Store` and `LogSpace`.

## Findings

* **A full store of many small pages cannot be compacted** (`store_full`).
  `compact` stores the tail relative to the head; `parse_compact` refuses it above
  `virt_size + max_prefix_len` (`format.rs:363`), which is less than it may be when
  there are many pages. Compaction and recovery then fail with `InvalidStorage`.
  The 20 pages of 1024 words that OpenSK configures are not affected.
* **An expired touch can come back after half a period of the clock**
  (`device_wink`). The comment of the main loop says of its clean-up calls that
  "wrapping clock values never randomly wink or grant user presence for U2F"
  (`main.rs:122-123`), but they do not touch the U2F state. `is_up_needed` at the end of
  the loop cleans it up, unless the device winks, and WINK after WINK (one every 5
  seconds, for 18 hours) keeps it from doing so; the touch that nobody used then counts
  as fresh for the length of a touch and serves one U2F request.
* **A packet that was given up can fail an assertion of the kernel driver**
  (`device_panic`). While a keepalive is offered, the host sends CANCEL on the
  same channel. The driver forgets the keepalive, the controller still offers it;
  the wait ends, the reply is queued, the host takes the keepalive, and
  `packet_transmitted` finds a queued packet, which it takes for impossible
  (`02-usb.patch:995`). The comment of `usb_ctap_hid.rs:136` says that such a
  packet is not sent to the host. `KernelPanicsOnlyOnStale` shows that this is the
  only way.

Observations that no run is about:

* The comments of `set_attestation_private_key` and
  `set_attestation_certificate` (`storage.rs:420`, `:440`) say "If it is already defined,
  it is overwritten."; the code returns `CTAP2_ERR_VENDOR_INTERNAL_ERROR` instead
  (`:425-430`, `:445-450`). The comments are wrong about the code. The model has the
  error, and `AttestationPaired` shows that no command can reach it, so no behaviour of
  the device decides between the two and no run can be about it.
* A PIN hash of the wrong length does not renew the key agreement key
  (`pin_protocol_v1.rs:213-215`), unlike the comment of `verify_pin_hash_enc` says: "in
  case of failure, the key agreement key is randomly reset" (`:199`). It costs a retry
  and is not compared, so no guess is gained.
* After a wrap of the clock a host that stopped in the middle of a message is not timed
  out (`receive.rs:93`; see `CtapHid`).
* `assert!(keepalive_expired.get())` (`main.rs:356`) fails if the alarm goes off
  after a touch has ended the wait and before it is stopped: `Device` halts there
  (`panic = "alarm"`). The driver's own waits print a message in that case.
* A CBOR string whose length needs more than 32 bits is read with the length cut
  to `usize`; `CborCanonical` leaves such lengths out.
* `verify_vartime` does not treat a zero multiple of the base point as neutral,
  which matters only for a hash that is zero modulo the order;
  `SignaturesVerify` leaves it out.
* `SyscallStorage` refuses to write nothing at the end of the last page, which
  `BufferStorage` accepts; the store never does it, and `FlashAddressed` leaves it
  out.

## Not modelled

* A failing `read_slice` and a `StorageError` without a power loss: the code
  unwraps the first and treats the second as not expected.
* The limb arithmetic of `montgomery.rs` and the literals of `precomputed.rs`, which are
  assumed to be right (see the algorithms), the rounds of SHA-256 and AES, and the random
  generator: their constants have no smaller instance, and the full size is out of
  a model checker's reach. In the protocols cryptography is ideal.
* The kernel but its USB driver for CTAP, the boards, the host scripts; the LEDs.
* The AAGUID (an entry that is written once) and the list of relying parties that
  may read the minimum PIN length (no command reads it yet).
* In `Authenticator`: user names and their truncation; hmac-secret is an error that
  may happen (`Hashing` says what it computes). The user presence that CTAP1
  commands need is in `Device`; `Authenticator` lets it be there or not.
* Errors of `subscribe`, `allow` and `command` in the USB driver.
* An interrupted write in `Words` clears bits of one word after the other; `Store`
  lets the words of a slice be written in any order.
* A minimum PIN length of 64 or more, after which no PIN can be set until a reset:
  the model allows it, no document says what is right.

## Plan

1. `Store` itself: `EntriesFrom` and `compact_until` as recursive functions, then a
   proof of `LogKept` and `SpaceKept`, which would carry the theorems about `StoreLog`
   and `LogSpace` down to the words; `OnlyClearsBits` and `DeletedValuesWiped`, which
   are about single words.
2. The algorithms: `modpow` and the shifts of `Int256`; the checksum argument of
   `Words`; the pages of `EmbeddedFlash`.
3. A composition of `Authenticator` with `PinProtocol` through the user
   verification that it grants.
4. More of the storage: the relying parties of the minimum PIN length, once a
   command reads them.
