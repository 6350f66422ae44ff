----------------------------- MODULE MCCtapHid ------------------------------
(***************************************************************************)
(* An instance of CtapHid for TLC: three channels (the reserved one, one   *)
(* to allocate and the broadcast one), packets of one and two bytes of     *)
(* payload, and messages of at most three packets.                         *)
(***************************************************************************)
EXTENDS CtapHid

\* The bytes of a packet tell its place in the message.
First(cid, cmd, len) ==
  [init |-> TRUE, cid |-> cid, cmd |-> cmd, len |-> len,
   data |-> [i \in 1 .. INIT_DATA |-> 9]]
Continuation(cid, seq) ==
  [init |-> FALSE, cid |-> cid, seq |-> seq,
   data |-> [i \in 1 .. CONT_DATA |-> 10 * (seq + 1) + i]]

MCCommands == {"INIT", "PING", "MSG", "CBOR", "CANCEL", "WINK", "LOCK"}
MCBytes == 0 .. 99

\* The watched channel sends every command, and PING in two and in three
\* packets and with a length that is too long; the others send PING in three
\* packets, and INIT in one and in two.
MCPackets ==
  { First(Watched, cmd, NonceLen) : cmd \in MCCommands \ {"PING"} }
  \cup { First(Watched, "WINK", 0) }
  \cup { First(Watched, "PING", len) :
           len \in {INIT_DATA + CONT_DATA, MAX_MESSAGE, MAX_LEN} }
  \cup { Continuation(Watched, seq) : seq \in 0 .. MAX_SEQ }
  \cup { First(cid, "PING", MAX_MESSAGE) : cid \in Channels \ {Watched} }
  \cup { First(BROADCAST, "INIT", len) : len \in {NonceLen, INIT_DATA + CONT_DATA} }
  \cup { Continuation(BROADCAST, 0) }

\* The response of a command: one byte, or more than fits.
MCResponses == {<<0>>, [i \in 1 .. MAX_MESSAGE + 1 |-> 0]}

=============================================================================
