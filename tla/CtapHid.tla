------------------------------ MODULE CtapHid -------------------------------
(***************************************************************************)
(* CTAPHID (ctap/hid/mod.rs): the channels that hosts share, and the       *)
(* commands that arrive on them as messages.                               *)
(*                                                                         *)
(* Hosts may send any packet of Packets at any time.  The commands MSG and *)
(* CBOR are passed to CTAP1 and CTAP2; here their response is any element  *)
(* of Responses.  reply is the message that answers the last packet.  The  *)
(* wink permission is granted or waiting; how it expires is modelled in    *)
(* Device, and here it may expire whenever time passes.                    *)
(*                                                                         *)
(* What a host may rely on is stated from the point of view of one         *)
(* channel, Watched, by history variables that do not look at the          *)
(* assembler: the packets that arrived on it since the last first packet,  *)
(* the time left for the next one, the time since another channel sent a   *)
(* packet, and the other channels that wait for an answer.                 *)
(***************************************************************************)
EXTENDS MessageAssembler

CONSTANTS
  Packets,    \* the packets that hosts send
  Responses,  \* the responses of CTAP1 and CTAP2
  NonceLen,   \* length of the nonce of an INIT command (8)
  WithCtap1,  \* the feature with_ctap1
  Watched,    \* the channel the properties look at
  NoMessage   \* no message

ASSUME HidAssumption ==
  /\ Packets \subseteq InitPackets \cup ContPackets
  /\ \A r \in Responses : r \in Seq(Nat)
  /\ NonceLen \in Nat \ {0}
  /\ NonceLen <= INIT_DATA /\ NonceLen + 1 <= MAX_MESSAGE
  /\ WithCtap1 \in BOOLEAN
  /\ Watched \in Channels
  /\ Bytes \subseteq Nat
  /\ NoMessage \notin [cid : Channels, cmd : Commands \cup {"ERROR"}, payload : Seq(Nat)]

VARIABLES
  clock,            \* the reading of the clock
  assembler,        \* the message assembler
  allocated_cids,   \* channels 1 .. allocated_cids are allocated
  wink_permission,  \* "granted" or "waiting"
  message,          \* the message that the last packet completed, or NoMessage
  reply,            \* the message that answers the last packet, or NoMessage
  stream,           \* history: the packets of Watched since its last first packet
  due,              \* history: time left for the next one; 0 if the stream is broken
  others,           \* history: time since a packet of a channel other than Watched
  unanswered,       \* history: the other channels whose last packet had no answer
  stale             \* history: those that sent it before the clock last wrapped

histories == <<stream, due, others, unanswered, stale>>

vars == <<clock, assembler, allocated_cids, wink_permission, message, reply,
          histories>>

CHANNEL_RESERVED == 0
ERR_INVALID_CMD == 1
ERR_INVALID_LEN == 3
ERR_INVALID_SEQ == 4
ERR_MSG_TIMEOUT == 5
ERR_CHANNEL_BUSY == 6
ERR_INVALID_CHANNEL == 11
VENDOR_RESPONSE_TOO_LONG == 240

Message(cid, cmd, payload) == [cid |-> cid, cmd |-> cmd, payload |-> payload]

error_message(cid, code) == Message(cid, "ERROR", <<code>>)

is_allocated_channel(cid) == cid # CHANNEL_RESERVED /\ cid <= allocated_cids

has_valid_channel(m) ==
  IF m.cid = BROADCAST THEN m.cmd = "INIT" ELSE is_allocated_channel(m.cid)

-----------------------------------------------------------------------------
\* The commands, for a message m on a valid channel.  All of them but WINK
\* stop a wink.

\* The response of CTAP1 has at most MAX_MESSAGE bytes.
CommandMsg(m) ==
  /\ m.cmd = "MSG"
  /\ \/ ~WithCtap1 /\ reply' = error_message(m.cid, ERR_INVALID_CMD)
     \/ WithCtap1 /\ \E response \in Responses :
          /\ Len(response) <= MAX_MESSAGE
          /\ reply' = Message(m.cid, "MSG", response)
  /\ wink_permission' = "waiting"
  /\ UNCHANGED allocated_cids

\* Mutant: sends the response whatever its length.
CommandCbor_Long(m) ==
  /\ m.cmd = "CBOR"
  /\ \E response \in Responses : reply' = Message(m.cid, "CBOR", response)
  /\ wink_permission' = "waiting"
  /\ UNCHANGED allocated_cids

CommandCbor(m) ==
  /\ m.cmd = "CBOR"
  /\ \E response \in Responses :
       reply' = Message(m.cid, "CBOR", IF Len(response) <= MAX_MESSAGE THEN response
                                       ELSE <<VENDOR_RESPONSE_TOO_LONG>>)
  /\ wink_permission' = "waiting"
  /\ UNCHANGED allocated_cids

\* Answers with the nonce and a channel: the next one on the broadcast channel.
\* The counter has the width of a channel and wraps.
CommandInit(m) ==
  /\ m.cmd = "INIT"
  /\ wink_permission' = "waiting"
  /\ \/ /\ Len(m.payload) # NonceLen
        /\ reply' = error_message(m.cid, ERR_INVALID_LEN)
        /\ UNCHANGED allocated_cids
     \/ /\ Len(m.payload) = NonceLen
        /\ m.cid = BROADCAST
        /\ allocated_cids' = (allocated_cids + 1) % (BROADCAST + 1)
        /\ reply' = Message(m.cid, "INIT", m.payload \o <<allocated_cids'>>)
     \/ /\ Len(m.payload) = NonceLen
        /\ m.cid # BROADCAST
        /\ reply' = Message(m.cid, "INIT", m.payload \o <<m.cid>>)
        /\ UNCHANGED allocated_cids

CommandPing(m) ==
  /\ m.cmd = "PING"
  /\ reply' = m
  /\ wink_permission' = "waiting"
  /\ UNCHANGED allocated_cids

CommandCancel(m) ==
  /\ m.cmd = "CANCEL"
  /\ reply' = NoMessage
  /\ wink_permission' = "waiting"
  /\ UNCHANGED allocated_cids

CommandWink(m) ==
  /\ m.cmd = "WINK"
  /\ \/ /\ m.payload # <<>>
        /\ reply' = error_message(m.cid, ERR_INVALID_LEN)
        /\ wink_permission' = "waiting"
     \/ /\ m.payload = <<>>
        /\ reply' = Message(m.cid, "WINK", <<>>)
        /\ wink_permission' = "granted"
  /\ UNCHANGED allocated_cids

CommandOther(m) ==
  /\ m.cmd \notin {"MSG", "CBOR", "INIT", "PING", "CANCEL", "WINK"}
  /\ reply' = error_message(m.cid, ERR_INVALID_CMD)
  /\ wink_permission' = "waiting"
  /\ UNCHANGED allocated_cids

ProcessMessage(m) ==
  \/ /\ ~has_valid_channel(m)
     /\ reply' = error_message(m.cid, ERR_INVALID_CHANNEL)
     /\ UNCHANGED <<allocated_cids, wink_permission>>
  \/ /\ has_valid_channel(m)
     /\ \/ CommandMsg(m)
        \/ CommandCbor(m)
        \/ CommandInit(m)
        \/ CommandPing(m)
        \/ CommandCancel(m)
        \/ CommandWink(m)
        \/ CommandOther(m)

\* The answer to a packet that parse_packet rejects.
ErrorReply(cid, error) ==
  CASE error = "UnexpectedContinuation" -> NoMessage
    [] error # "UnexpectedContinuation" /\ ~is_allocated_channel(cid) ->
         error_message(cid, ERR_INVALID_CHANNEL)
    [] error = "UnexpectedChannel" /\ is_allocated_channel(cid) ->
         error_message(cid, ERR_CHANNEL_BUSY)
    [] error \in {"UnexpectedInit", "UnexpectedSeq"} /\ is_allocated_channel(cid) ->
         error_message(cid, ERR_INVALID_SEQ)
    [] error = "Timeout" /\ is_allocated_channel(cid) ->
         error_message(cid, ERR_MSG_TIMEOUT)

-----------------------------------------------------------------------------

\* What the channel Watched saw.  Its stream is the packets since its last first
\* packet, none once there are more than a message can have.  The stream is not
\* broken if the first packet had no answer, which means that it was accepted,
\* and the others came in order and each in time.
ObserveWatched(packet) ==
  /\ IF packet.init
     THEN /\ stream' = <<packet>>
          /\ due' = IF reply' = NoMessage THEN TIMEOUT_DURATION ELSE 0
     ELSE /\ stream' = IF Len(stream) \in 1 .. MAX_SEQ + 1
                       THEN Append(stream, packet) ELSE <<>>
          /\ due' = IF due > 0 /\ packet.seq = Len(stream) - 1
                    THEN TIMEOUT_DURATION ELSE 0
  /\ UNCHANGED <<others, unanswered, stale>>

\* What another channel saw.
ObserveOther(packet) ==
  /\ others' = 0
  /\ unanswered' = IF reply' = NoMessage THEN unanswered \cup {packet.cid}
                   ELSE unanswered \ {packet.cid}
  /\ stale' = stale \ {packet.cid}
  /\ UNCHANGED <<stream, due>>

Init ==
  /\ clock = 0
  /\ assembler = Reset
  /\ allocated_cids = 0
  /\ wink_permission = "waiting"
  /\ message = NoMessage
  /\ reply = NoMessage
  /\ stream = <<>>
  /\ due = 0
  /\ others = TIMEOUT_DURATION
  /\ unanswered = {}
  /\ stale = {}

process_hid_packet(packet) ==
  LET parsed == parse_packet(assembler, packet, clock)
      result == parsed.result
  IN  /\ assembler' = parsed.assembler
      /\ \/ /\ result.kind = "message"
            /\ message' = result.message
            /\ ProcessMessage(result.message)
         \/ /\ result.kind = "more"
            /\ message' = NoMessage
            /\ reply' = NoMessage
            /\ UNCHANGED <<allocated_cids, wink_permission>>
         \/ /\ result.kind = "error"
            /\ message' = NoMessage
            /\ reply' = ErrorReply(packet.cid, result.error)
            /\ UNCHANGED <<allocated_cids, wink_permission>>
      /\ IF packet.cid = Watched THEN ObserveWatched(packet) ELSE ObserveOther(packet)
      /\ UNCHANGED clock

\* Time passes.  The main loop ends a wink that has expired.
Tick ==
  /\ clock' = IF clock = HALF_PERIOD - 1 THEN -HALF_PERIOD ELSE clock + 1
  /\ wink_permission' \in {wink_permission, "waiting"}
  /\ message' = NoMessage
  /\ reply' = NoMessage
  /\ due' = IF due > 0 THEN due - 1 ELSE 0
  /\ others' = IF others < TIMEOUT_DURATION THEN others + 1 ELSE others
  /\ stale' = IF clock = HALF_PERIOD - 1 THEN unanswered ELSE stale
  /\ UNCHANGED <<assembler, allocated_cids, stream, unanswered>>

Next ==
  \/ \E packet \in Packets : process_hid_packet(packet)
  \/ Tick

Spec == Init /\ [][Next]_vars

-----------------------------------------------------------------------------
\* Properties.

\* Every variable has its type; the sequence number that the assembler of
\* receive.rs expects, and the bytes it still waits for, fit their fields.
TypeOK ==
  /\ clock \in Timestamps
  /\ assembler \in Assembler
  /\ allocated_cids \in 0 .. BROADCAST
  /\ wink_permission \in {"granted", "waiting"}
  /\ message \in Messages \cup {NoMessage}
  /\ due \in 0 .. TIMEOUT_DURATION
  /\ others \in 0 .. TIMEOUT_DURATION

\* The number of bytes of the payload that the k-th packet of a message
\* carries.
Carried(len, k) ==
  LET rest == IF k = 1 THEN len ELSE len - INIT_DATA - (k - 2) * CONT_DATA
      size == IF k = 1 THEN INIT_DATA ELSE CONT_DATA
  IN  IF rest < size THEN rest ELSE size

\* Two packets that differ at most in the bytes after the first n.
SameUpTo(p, q, n) ==
  [p EXCEPT !.data = SubSeq(@, 1, n)] = [q EXCEPT !.data = SubSeq(@, 1, n)]

\* A message is only assembled from all the packets, in order and without
\* anything in between, that its host's channel carried for it: the channel
\* carried exactly what MessageSplitter makes of the message.  Neither packets
\* of other channels nor timeouts, resets, repeated or missing packets can make
\* the assembler deliver anything else.
DeliveredAsSent ==
  message # NoMessage /\ message.cid = Watched =>
    LET sent == split(message)
    IN  /\ Len(stream) = Len(sent)
        /\ \A k \in DOMAIN sent :
             SameUpTo(stream[k], sent[k], Carried(Len(message.payload), k))

\* Every reply can be split into packets: the unwrap calls of mod.rs do not
\* panic, the one on a PING of the largest size included.
RepliesFit == reply # NoMessage => splittable(reply)

\* A channel is told that the device is busy only if another channel sent a
\* packet less than TIMEOUT_DURATION ago: a host that stops in the middle of a
\* message does not block the others.  The exception is a host that stopped, with
\* a packet that had no answer, before the clock last wrapped: receive.rs
\* subtracts the timestamps as numbers and does not time it out.
BusyOnlyWhileActive ==
  reply = error_message(Watched, ERR_CHANNEL_BUSY) =>
    others < TIMEOUT_DURATION \/ stale # {}

\* A host can resynchronise its channel: when the other channels are silent, and
\* none of them stopped in the middle of a message before the clock last wrapped,
\* INIT on an allocated channel aborts the transaction under way and is answered,
\* by a timeout error if that transaction had timed out.
ResyncAnswered ==
  [][/\ stream' # stream /\ Len(stream') = 1
     /\ stream'[1].cmd = "INIT" /\ stream'[1].len = NonceLen
     /\ is_allocated_channel(Watched) /\ Watched # BROADCAST
     /\ others >= TIMEOUT_DURATION /\ stale = {}
     => reply' \in {Message(Watched, "INIT", SubSeq(stream'[1].data, 1, NonceLen)
                                              \o <<Watched>>),
                     error_message(Watched, ERR_MSG_TIMEOUT)}]_vars

\* A message that was accepted is delivered: if the first packet of a message had
\* no answer, and its continuations came in order with less than TIMEOUT_DURATION
\* between them, then the last of them completes the message, whatever the other
\* channels sent in between and even if the clock wrapped in between.
AcceptedIsDelivered ==
  [][/\ stream' # stream /\ due' > 0
     /\ Len(stream') = 1 + continuations(stream'[1].len)
     => message' # NoMessage /\ message'.cid = Watched]_vars

=============================================================================
