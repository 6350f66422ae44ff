-------------------------- MODULE MessageAssembler --------------------------
(***************************************************************************)
(* Messages and packets of CTAPHID: splitting a message into packets       *)
(* (ctap/hid/send.rs, MessageSplitter) and assembling the packets that     *)
(* arrive into messages (ctap/hid/receive.rs, MessageAssembler).           *)
(*                                                                         *)
(* A packet is a record of the fields that process_single_packet finds in  *)
(* its 64 bytes: a packet that starts a message has a command and a        *)
(* length, a continuation has a sequence number.  The assembler is a       *)
(* record; parse_packet maps it and a packet to the next assembler and to  *)
(* what is returned.  Times are readings of the clock in milliseconds.     *)
(* The clock has finitely many readings and wraps from the largest to the  *)
(* smallest; the code subtracts readings as numbers, so a reading taken    *)
(* before a wrap seems to lie in the future after it.                      *)
(***************************************************************************)
EXTENDS Integers, Sequences

CONSTANTS
  INIT_DATA,         \* bytes of payload in a first packet (57)
  CONT_DATA,         \* bytes of payload in a continuation (59)
  MAX_SEQ,           \* largest sequence number (127, below TYPE_INIT_BIT)
  MAX_LEN,           \* largest length of a first packet (65535)
  MAX_MESSAGE,       \* longest message that can be split (7609)
  TIMEOUT_DURATION,  \* how long a transaction may pause (100 ms)
  HALF_PERIOD,       \* the clock reads -HALF_PERIOD .. HALF_PERIOD - 1
  BROADCAST,         \* the largest channel identifier (2^32 - 1)
  Commands,          \* the commands
  Bytes              \* the bytes of payloads; 0 is one of them

ASSUME PacketAssumption ==
  /\ INIT_DATA \in Nat \ {0} /\ CONT_DATA \in Nat \ {0}
  /\ MAX_SEQ \in Nat /\ MAX_LEN \in Nat
  /\ MAX_MESSAGE = INIT_DATA + CONT_DATA * (MAX_SEQ + 1)
  /\ TIMEOUT_DURATION \in Nat \ {0}
  /\ HALF_PERIOD \in Nat \ {0}
  /\ BROADCAST \in Nat \ {0}
  /\ "INIT" \in Commands
  /\ 0 \in Bytes

Timestamps == -HALF_PERIOD .. HALF_PERIOD - 1

Channels == 0 .. BROADCAST

InitPackets ==
  [init : {TRUE}, cid : Channels, cmd : Commands, len : 0 .. MAX_LEN,
   data : [1 .. INIT_DATA -> Bytes]]

ContPackets ==
  [init : {FALSE}, cid : Channels, seq : 0 .. MAX_SEQ,
   data : [1 .. CONT_DATA -> Bytes]]


Messages == [cid : Channels, cmd : Commands, payload : Seq(Bytes)]

-----------------------------------------------------------------------------
\* MessageSplitter.

\* Only messages of at most MAX_MESSAGE bytes can be split.
splittable(message) == Len(message.payload) <= MAX_MESSAGE

\* Size bytes of the payload from index i, filled up with zeros.
consume_data(payload, i, size) ==
  [j \in 1 .. size |-> IF i + j <= Len(payload) THEN payload[i + j] ELSE 0]

\* How many continuations follow the first packet.
continuations(len) ==
  IF len <= INIT_DATA THEN 0 ELSE (len - INIT_DATA + CONT_DATA - 1) \div CONT_DATA

\* The packets of a message.
split(message) ==
  LET len == Len(message.payload)
  IN  [k \in 1 .. 1 + continuations(len) |->
         IF k = 1
         THEN [init |-> TRUE, cid |-> message.cid, cmd |-> message.cmd,
               len |-> len, data |-> consume_data(message.payload, 0, INIT_DATA)]
         ELSE [init |-> FALSE, cid |-> message.cid, seq |-> k - 2,
               data |-> consume_data(message.payload,
                                     INIT_DATA + (k - 2) * CONT_DATA, CONT_DATA)]]

-----------------------------------------------------------------------------
\* MessageAssembler.

Assembler ==
  [idle : BOOLEAN, cid : Channels, last_timestamp : Timestamps,
   cmd : Commands \cup {"none"}, seq : 0 .. MAX_SEQ + 1,
   remaining : 0 .. MAX_LEN, payload : Seq(Bytes)]

\* new and reset
Reset ==
  [idle |-> TRUE, cid |-> 0, last_timestamp |-> 0, cmd |-> "none", seq |-> 0,
   remaining |-> 0, payload |-> <<>>]

\* The results of parse_packet.
More == [kind |-> "more"]
Complete(cid, cmd, payload) ==
  [kind |-> "message", message |-> [cid |-> cid, cmd |-> cmd, payload |-> payload]]
Err(error) == [kind |-> "error", error |-> error]

Parsed(assembler, result) == [assembler |-> assembler, result |-> result]

append_payload(a, data) ==
  IF Len(data) < a.remaining
  THEN Parsed([a EXCEPT !.payload = @ \o data, !.idle = FALSE,
                        !.remaining = @ - Len(data)],
              More)
  ELSE Parsed([a EXCEPT !.payload = <<>>, !.idle = TRUE],
              Complete(a.cid, a.cmd, a.payload \o SubSeq(data, 1, a.remaining)))

accept_init_packet(a, packet, timestamp) ==
  append_payload([a EXCEPT !.cid = packet.cid, !.last_timestamp = timestamp,
                           !.cmd = packet.cmd, !.seq = 0,
                           !.remaining = packet.len],
                 packet.data)

\* Mutant: accepts the continuations of a message in any order.
accept_continuation_AnySeq(a, packet, timestamp) ==
  append_payload([a EXCEPT !.last_timestamp = timestamp, !.seq = @ + 1], packet.data)

accept_continuation(a, packet, timestamp) ==
  IF packet.seq # a.seq THEN Parsed(Reset, Err("UnexpectedSeq"))
  ELSE append_payload([a EXCEPT !.last_timestamp = timestamp, !.seq = @ + 1],
                      packet.data)

\* Mutant: an INIT command does not abort a transaction.
expect_packet_NoResync(a, packet, timestamp) ==
  CASE a.idle /\ packet.init -> accept_init_packet(a, packet, timestamp)
    [] a.idle /\ ~packet.init -> Parsed(a, Err("UnexpectedContinuation"))
    [] ~a.idle /\ packet.cid # a.cid -> Parsed(a, Err("UnexpectedChannel"))
    [] ~a.idle /\ packet.cid = a.cid /\ packet.init ->
         Parsed(Reset, Err("UnexpectedInit"))
    [] ~a.idle /\ packet.cid = a.cid /\ ~packet.init ->
         accept_continuation(a, packet, timestamp)

\* Mutant: a packet of another channel resets the assembler.
expect_packet_Intruder(a, packet, timestamp) ==
  CASE a.idle /\ packet.init -> accept_init_packet(a, packet, timestamp)
    [] a.idle /\ ~packet.init -> Parsed(a, Err("UnexpectedContinuation"))
    [] ~a.idle /\ packet.cid # a.cid -> Parsed(Reset, Err("UnexpectedChannel"))
    [] ~a.idle /\ packet.cid = a.cid /\ packet.init ->
         IF packet.cmd = "INIT" THEN accept_init_packet(Reset, packet, timestamp)
         ELSE Parsed(Reset, Err("UnexpectedInit"))
    [] ~a.idle /\ packet.cid = a.cid /\ ~packet.init ->
         accept_continuation(a, packet, timestamp)

\* A packet for an assembler that has not timed out.
expect_packet(a, packet, timestamp) ==
  CASE a.idle /\ packet.init -> accept_init_packet(a, packet, timestamp)
    [] a.idle /\ ~packet.init -> Parsed(a, Err("UnexpectedContinuation"))
    [] ~a.idle /\ packet.cid # a.cid -> Parsed(a, Err("UnexpectedChannel"))
    [] ~a.idle /\ packet.cid = a.cid /\ packet.init ->
         IF packet.cmd = "INIT" THEN accept_init_packet(Reset, packet, timestamp)
         ELSE Parsed(Reset, Err("UnexpectedInit"))
    [] ~a.idle /\ packet.cid = a.cid /\ ~packet.init ->
         accept_continuation(a, packet, timestamp)

\* Mutant: a transaction never times out.
timed_out_Never(a, timestamp) == FALSE

\* The difference of two readings; it is negative if the clock has wrapped
\* since last_timestamp, and then nothing times out.
timed_out(a, timestamp) ==
  ~a.idle /\ timestamp - a.last_timestamp >= TIMEOUT_DURATION

parse_packet(a, packet, timestamp) ==
  CASE ~timed_out(a, timestamp) -> expect_packet(a, packet, timestamp)
    [] timed_out(a, timestamp) /\ packet.cid = a.cid -> Parsed(Reset, Err("Timeout"))
    [] timed_out(a, timestamp) /\ packet.cid # a.cid ->
         expect_packet(Reset, packet, timestamp)

=============================================================================
