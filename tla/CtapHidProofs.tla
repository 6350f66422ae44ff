--------------------------- MODULE CtapHidProofs ----------------------------
(***************************************************************************)
(* Proofs about CtapHid, for packets and messages of every size and every  *)
(* number of channels.                                                     *)
(***************************************************************************)
EXTENDS CtapHid, TLAPS

-----------------------------------------------------------------------------
\* The assembler.

\* The bytes gathered so far tell how many continuations were accepted: that
\* is what bounds a message by the sequence numbers and not by its length.
AssemblerInv(a) ==
  /\ a \in Assembler
  /\ a.idle => a.payload = <<>>
  /\ ~a.idle => /\ Len(a.payload) = INIT_DATA + CONT_DATA * a.seq
                /\ a.cmd \in Commands

\* What parse_packet may return.
ResultInv(result) ==
  /\ result.kind \in {"message", "more", "error"}
  /\ result.kind = "message" => /\ result.message \in Messages
                                /\ Len(result.message.payload) <= MAX_MESSAGE
  /\ result.kind = "error" =>
       result.error \in {"UnexpectedContinuation", "UnexpectedChannel",
                         "UnexpectedInit", "UnexpectedSeq", "Timeout"}

\* The data of a packet is a sequence.
LEMMA DataIsSequence ==
  ASSUME NEW n \in Nat, NEW data \in [1 .. n -> Bytes]
  PROVE  data \in Seq(Bytes) /\ Len(data) = n
OBVIOUS

\* A longer message needs more continuations.
LEMMA MoreContinuations ==
  ASSUME NEW s \in 0 .. MAX_SEQ
  PROVE  /\ CONT_DATA * (s + 1) = CONT_DATA * s + CONT_DATA
         /\ CONT_DATA * (s + 1) <= CONT_DATA * (MAX_SEQ + 1)
         /\ CONT_DATA * (s + 1) \in Nat /\ CONT_DATA * s \in Nat
BY PacketAssumption

\* An idle assembler is reset.
LEMMA ResetInv == AssemblerInv(Reset)
BY PacketAssumption DEF AssemblerInv, Assembler, Reset, Channels, Timestamps

\* append_payload keeps the invariant and bounds what it completes, if the
\* payload so far leaves room for the data.
LEMMA AppendInv ==
  ASSUME NEW a \in Assembler, NEW data \in Seq(Bytes),
         Len(a.payload) + Len(data) = INIT_DATA + CONT_DATA * a.seq,
         Len(a.payload) + Len(data) <= MAX_MESSAGE,
         a.cmd \in Commands
  PROVE  /\ AssemblerInv(append_payload(a, data).assembler)
         /\ ResultInv(append_payload(a, data).result)
<1> DEFINE b == append_payload(a, data).assembler
           r == append_payload(a, data).result
<1>1. CASE Len(data) < a.remaining
  <2>1. /\ b = [a EXCEPT !.payload = a.payload \o data, !.idle = FALSE,
                        !.remaining = a.remaining - Len(data)]
        /\ r = More
    BY <1>1 DEF append_payload, Parsed
  <2>2. b \in Assembler
    <3> HIDE DEF b
    <3>1. a.payload \o data \in Seq(Bytes)
      BY DEF Assembler
    <3>2. a.remaining - Len(data) \in 0 .. MAX_LEN
      BY <1>1, PacketAssumption DEF Assembler
    <3>. QED  BY <2>1, <3>1, <3>2 DEF Assembler
  <2>3. Len(b.payload) = INIT_DATA + CONT_DATA * b.seq /\ b.cmd \in Commands
    BY <2>1 DEF Assembler
  <2>. QED  BY <2>1, <2>2, <2>3 DEF AssemblerInv, ResultInv, More, Assembler
<1>2. CASE ~(Len(data) < a.remaining)
  <2> DEFINE head == SubSeq(data, 1, a.remaining)
  <2>1. /\ b = [a EXCEPT !.payload = <<>>, !.idle = TRUE]
        /\ r = Complete(a.cid, a.cmd, a.payload \o head)
    BY <1>2 DEF append_payload, Parsed
  <2>2. head \in Seq(Bytes) /\ Len(head) <= Len(data)
    BY <1>2, PacketAssumption DEF Assembler
  <2>3. a.payload \o head \in Seq(Bytes) /\ Len(a.payload \o head) <= MAX_MESSAGE
    BY <2>2, PacketAssumption DEF Assembler
  <2>4. /\ r.kind = "message"
        /\ r.message = [cid |-> a.cid, cmd |-> a.cmd, payload |-> a.payload \o head]
    BY <2>1 DEF Complete
  <2>5. r.message \in Messages /\ r.message.payload = a.payload \o head
    <3> HIDE DEF r, head
    <3>. QED  BY <2>3, <2>4 DEF Messages, Assembler
  <2>6. AssemblerInv(b)
    <3> HIDE DEF b
    <3>1. b \in Assembler
      <4> DEFINE none == <<>>
      <4>1. none \in Seq(Bytes)
        OBVIOUS
      <4>2. b = [a EXCEPT !.payload = none, !.idle = TRUE]
        BY <2>1
      <4> HIDE DEF none
      <4>. QED  BY <4>1, <4>2 DEF Assembler
    <3>2. b.idle = TRUE /\ b.payload = <<>>
      BY <2>1 DEF Assembler
    <3>. QED  BY <3>1, <3>2 DEF AssemblerInv
  <2>7. ResultInv(r)
    <3> HIDE DEF r, head
    <3>. QED  BY <2>3, <2>4, <2>5 DEF ResultInv
  <2>. QED  BY <2>6, <2>7
<1>. QED  BY <1>1, <1>2

\* The first packet of a message, for an assembler that holds no payload.
LEMMA AcceptInitInv ==
  ASSUME NEW a \in Assembler, a.payload = <<>>, NEW packet \in InitPackets,
         NEW time \in Timestamps
  PROVE  /\ AssemblerInv(accept_init_packet(a, packet, time).assembler)
         /\ ResultInv(accept_init_packet(a, packet, time).result)
<1> DEFINE b == [a EXCEPT !.cid = packet.cid, !.last_timestamp = time,
                          !.cmd = packet.cmd,
                          !.seq = 0, !.remaining = packet.len]
<1>1. packet.data \in Seq(Bytes) /\ Len(packet.data) = INIT_DATA
  <2>1. packet.data \in [1 .. INIT_DATA -> Bytes]
    BY DEF InitPackets
  <2>. QED  BY <2>1, DataIsSequence, PacketAssumption
<1>2. b \in Assembler
  <2>1. /\ packet.cid \in Channels /\ packet.len \in 0 .. MAX_LEN
        /\ packet.cmd \in Commands \cup {"none"}
    BY DEF InitPackets
  <2>2. 0 \in 0 .. MAX_SEQ + 1
    BY PacketAssumption
  <2>. QED  BY <2>1, <2>2 DEF Assembler
<1>3. b.payload = <<>> /\ b.seq = 0 /\ b.cmd \in Commands
  BY DEF Assembler, InitPackets
<1>4. INIT_DATA <= MAX_MESSAGE
  BY MoreContinuations, PacketAssumption
<1>5. accept_init_packet(a, packet, time) = append_payload(b, packet.data)
  BY DEF accept_init_packet
<1> HIDE DEF b
<1>6. Len(b.payload) + Len(packet.data) = INIT_DATA + CONT_DATA * b.seq
  BY <1>1, <1>3, PacketAssumption
<1>7. Len(b.payload) + Len(packet.data) <= MAX_MESSAGE
  BY <1>1, <1>3, <1>4, PacketAssumption
<1>. QED  BY <1>1, <1>2, <1>3, <1>5, <1>6, <1>7, AppendInv

\* A continuation of the message that is being assembled.
LEMMA AcceptContinuationInv ==
  ASSUME NEW a, AssemblerInv(a), ~a.idle,
         NEW packet \in ContPackets, NEW time \in Timestamps
  PROVE  /\ AssemblerInv(accept_continuation(a, packet, time).assembler)
         /\ ResultInv(accept_continuation(a, packet, time).result)
<1>1. CASE packet.seq # a.seq
  BY <1>1, ResetInv DEF accept_continuation, Parsed, Err, ResultInv
<1>2. CASE packet.seq = a.seq
  <2> DEFINE b == [a EXCEPT !.last_timestamp = time, !.seq = a.seq + 1]
  <2>1. packet.data \in Seq(Bytes) /\ Len(packet.data) = CONT_DATA
    <3>1. packet.data \in [1 .. CONT_DATA -> Bytes]
      BY DEF ContPackets
    <3>. QED  BY <3>1, DataIsSequence, PacketAssumption
  <2>2. a \in Assembler /\ a.seq \in 0 .. MAX_SEQ
    BY <1>2 DEF ContPackets, AssemblerInv
  <2>3. b \in Assembler
    <3>1. a.seq + 1 \in 0 .. MAX_SEQ + 1
      BY <2>2, PacketAssumption
    <3>. QED  BY <2>2, <3>1 DEF Assembler
  <2>4. b.seq = a.seq + 1 /\ b.cmd \in Commands /\ b.payload = a.payload
    BY <2>2 DEF Assembler, AssemblerInv
  <2>5. accept_continuation(a, packet, time) = append_payload(b, packet.data)
    BY <1>2 DEF accept_continuation
  <2> HIDE DEF b
  <2>6. Len(b.payload) = INIT_DATA + CONT_DATA * a.seq
    BY <2>4 DEF AssemblerInv
  <2>7. Len(b.payload) + Len(packet.data) = INIT_DATA + CONT_DATA * b.seq
    BY <2>1, <2>2, <2>4, <2>6, MoreContinuations, PacketAssumption
  <2>8. Len(b.payload) + Len(packet.data) <= MAX_MESSAGE
    <3>1. CONT_DATA * b.seq <= CONT_DATA * (MAX_SEQ + 1)
      BY <2>2, <2>4, MoreContinuations
    <3> DEFINE x == CONT_DATA * b.seq
               y == CONT_DATA * (MAX_SEQ + 1)
    <3>2. x \in Nat /\ y \in Nat /\ INIT_DATA \in Nat
      BY <2>2, <2>4, MoreContinuations, PacketAssumption
    <3>3. x <= y /\ MAX_MESSAGE = INIT_DATA + y
      BY <3>1, PacketAssumption
    <3>4. Len(b.payload) + Len(packet.data) = INIT_DATA + x
      BY <2>7
    <3> HIDE DEF x, y
    <3>5. INIT_DATA + x <= MAX_MESSAGE
      BY <3>2, <3>3
    <3>. QED  BY <3>4, <3>5
  <2>. QED  BY <2>1, <2>3, <2>4, <2>5, <2>7, <2>8, AppendInv
<1>. QED  BY <1>1, <1>2

\* parse_packet keeps the invariant, and every message it returns can be split
\* into packets again.
LEMMA ParseInv ==
  ASSUME NEW a, AssemblerInv(a), NEW packet \in InitPackets \cup ContPackets,
         NEW time \in Timestamps
  PROVE  /\ AssemblerInv(parse_packet(a, packet, time).assembler)
         /\ ResultInv(parse_packet(a, packet, time).result)
<1>1. packet.init \in BOOLEAN
  BY DEF InitPackets, ContPackets
<1>2. /\ packet.init => packet \in InitPackets
      /\ ~packet.init => packet \in ContPackets
  BY DEF InitPackets, ContPackets
<1>3. ASSUME NEW e, AssemblerInv(e)
      PROVE  /\ AssemblerInv(expect_packet(e, packet, time).assembler)
             /\ ResultInv(expect_packet(e, packet, time).result)
  <2>1. e.idle \in BOOLEAN /\ e \in Assembler /\ (e.idle => e.payload = <<>>)
    BY <1>3 DEF AssemblerInv, Assembler
  <2>2. CASE e.idle /\ packet.init
    <3>1. expect_packet(e, packet, time) = accept_init_packet(e, packet, time)
      BY <2>2 DEF expect_packet
    <3>. QED  BY <1>2, <2>1, <2>2, <3>1, AcceptInitInv
  <2>3. CASE e.idle /\ ~packet.init
    <3>1. expect_packet(e, packet, time) = Parsed(e, Err("UnexpectedContinuation"))
      BY <2>3 DEF expect_packet
    <3>. QED  BY <1>3, <3>1 DEF Parsed, Err, ResultInv
  <2>4. CASE ~e.idle /\ packet.cid # e.cid
    <3>1. expect_packet(e, packet, time) = Parsed(e, Err("UnexpectedChannel"))
      BY <2>4 DEF expect_packet
    <3>. QED  BY <1>3, <3>1 DEF Parsed, Err, ResultInv
  <2>5. CASE ~e.idle /\ packet.cid = e.cid /\ packet.init
    <3>1. CASE packet.cmd = "INIT"
      <4>1. expect_packet(e, packet, time) = accept_init_packet(Reset, packet, time)
        BY <2>5, <3>1 DEF expect_packet
      <4>2. Reset \in Assembler /\ Reset.payload = <<>>
        BY ResetInv DEF AssemblerInv, Reset
      <4>. QED  BY <1>2, <2>5, <4>1, <4>2, AcceptInitInv
    <3>2. CASE packet.cmd # "INIT"
      <4>1. expect_packet(e, packet, time) = Parsed(Reset, Err("UnexpectedInit"))
        BY <2>5, <3>2 DEF expect_packet
      <4>. QED  BY <4>1, ResetInv DEF Parsed, Err, ResultInv
    <3>. QED  BY <3>1, <3>2
  <2>6. CASE ~e.idle /\ packet.cid = e.cid /\ ~packet.init
    <3>1. expect_packet(e, packet, time) = accept_continuation(e, packet, time)
      BY <2>6 DEF expect_packet
    <3>. QED  BY <1>2, <1>3, <2>6, <3>1, AcceptContinuationInv
  <2>. QED  BY <1>1, <2>1, <2>2, <2>3, <2>4, <2>5, <2>6
<1>4. CASE ~timed_out(a, time)
  <2>1. parse_packet(a, packet, time) = expect_packet(a, packet, time)
    BY <1>4 DEF parse_packet
  <2>. QED  BY <1>3, <2>1
<1>5. CASE timed_out(a, time) /\ packet.cid = a.cid
  <2>1. parse_packet(a, packet, time) = Parsed(Reset, Err("Timeout"))
    BY <1>5 DEF parse_packet
  <2>. QED  BY <2>1, ResetInv DEF Parsed, Err, ResultInv
<1>6. CASE timed_out(a, time) /\ packet.cid # a.cid
  <2>1. parse_packet(a, packet, time) = expect_packet(Reset, packet, time)
    BY <1>6 DEF parse_packet
  <2>. QED  BY <1>3, <2>1, ResetInv
<1>. QED  BY <1>4, <1>5, <1>6

\* Nothing but a packet of its own channel changes the assembler of a
\* transaction, as long as it does not time out; a transaction of the packet's
\* channel is under way afterwards exactly if more packets are awaited.
IsBusyError(result) == result.kind = "error" /\ result.error = "UnexpectedChannel"

StepOf(a, packet, time, parsed) ==
  /\ ~parsed.assembler.idle /\ parsed.assembler.cid # packet.cid => parsed.assembler = a
  /\ ~parsed.assembler.idle /\ parsed.assembler.cid = packet.cid =>
       parsed.result.kind = "more"
  /\ parsed.result.kind = "more" => /\ ~parsed.assembler.idle
                                    /\ parsed.assembler.cid = packet.cid
                                    /\ parsed.assembler.last_timestamp = time
  /\ IsBusyError(parsed.result) => /\ ~a.idle /\ a.cid # packet.cid
                                   /\ ~(time - a.last_timestamp >= TIMEOUT_DURATION)
  /\ parsed.result.kind = "error" /\ parsed.result.error = "UnexpectedContinuation" =>
       ~packet.init
  /\ parsed.result.kind = "message" => parsed.result.message.cid = packet.cid

(* Adding a payload to the message of a channel keeps the assembler with that *)
(* channel and never reports an error.                                       *)
LEMMA AppendStep ==
  ASSUME NEW a, NEW b \in Assembler, NEW data, NEW packet, NEW time, b.cid = packet.cid,
         b.last_timestamp = time
  PROVE  /\ StepOf(a, packet, time, append_payload(b, data))
         /\ append_payload(b, data).result.kind # "error"
<1> DEFINE c == append_payload(b, data).assembler
           r == append_payload(b, data).result
<1>1. c.cid = b.cid /\ c.last_timestamp = b.last_timestamp
  BY DEF append_payload, Parsed, Assembler
<1>2. r.kind \in {"more", "message"} /\ (c.idle <=> r.kind = "message")
  BY DEF append_payload, Parsed, More, Complete, Assembler
<1>3. r.kind = "message" => r.message.cid = b.cid
  BY DEF append_payload, Parsed, More, Complete
<1> HIDE DEF c, r
<1>4. StepOf(a, packet, time, [assembler |-> c, result |-> r])
  BY <1>1, <1>2, <1>3 DEF StepOf, IsBusyError
<1>5. StepOf(a, packet, time, append_payload(b, data))
  BY <1>4 DEF StepOf, c, r
<1>. QED  BY <1>2, <1>5 DEF r

(* parse_packet moves to another channel only from idle or after a timeout,  *)
(* and reports busy only to a channel that is not the active one.            *)
LEMMA ParseStep ==
  ASSUME NEW a, AssemblerInv(a), NEW packet \in InitPackets \cup ContPackets,
         NEW time \in Timestamps
  PROVE  StepOf(a, packet, time, parse_packet(a, packet, time))
<1>1. packet.init \in BOOLEAN /\ packet.cid \in Channels
  BY DEF InitPackets, ContPackets
<1>2. /\ packet.init => packet \in InitPackets
      /\ ~packet.init => packet \in ContPackets
  BY DEF InitPackets, ContPackets
<1>3. ASSUME NEW e \in Assembler, packet \in InitPackets
      PROVE  StepOf(a, packet, time, accept_init_packet(e, packet, time))
  <2> DEFINE b == [e EXCEPT !.cid = packet.cid, !.last_timestamp = time,
                            !.cmd = packet.cmd,
                            !.seq = 0, !.remaining = packet.len]
  <2>1. /\ packet.len \in 0 .. MAX_LEN
        /\ packet.cmd \in Commands \cup {"none"}
    BY <1>3 DEF InitPackets
  <2>2. 0 \in 0 .. MAX_SEQ + 1
    BY PacketAssumption
  <2>3. b \in Assembler /\ b.cid = packet.cid /\ b.last_timestamp = time
    BY <1>1, <1>3, <2>1, <2>2 DEF Assembler
  <2>4. accept_init_packet(e, packet, time) = append_payload(b, packet.data)
    BY DEF accept_init_packet
  <2> HIDE DEF b
  <2>. QED  BY <2>3, <2>4, AppendStep
<1>4. ASSUME NEW error, error # "UnexpectedChannel",
             error = "UnexpectedContinuation" => ~packet.init
      PROVE  StepOf(a, packet, time, Parsed(Reset, Err(error)))
  BY <1>4 DEF StepOf, Parsed, Err, Reset, IsBusyError
<1>5. ASSUME ~a.idle, packet.cid = a.cid, packet \in ContPackets
      PROVE  StepOf(a, packet, time, accept_continuation(a, packet, time))
  <2>1. CASE packet.seq # a.seq
    BY <2>1, <1>4 DEF accept_continuation
  <2>2. CASE packet.seq = a.seq
    <3> DEFINE b == [a EXCEPT !.last_timestamp = time, !.seq = a.seq + 1]
    <3>1. a \in Assembler /\ a.seq + 1 \in 0 .. MAX_SEQ + 1
      BY <1>5, <2>2, PacketAssumption DEF AssemblerInv, ContPackets
    <3>2. b \in Assembler /\ b.cid = packet.cid /\ b.last_timestamp = time
      BY <1>5, <3>1 DEF Assembler
    <3>3. accept_continuation(a, packet, time) = append_payload(b, packet.data)
      BY <2>2 DEF accept_continuation
    <3> HIDE DEF b
    <3>. QED  BY <3>2, <3>3, AppendStep
  <2>. QED  BY <2>1, <2>2
<1>6. a \in Assembler /\ a.idle \in BOOLEAN /\ Reset \in Assembler /\ Reset.idle = TRUE
  BY ResetInv DEF AssemblerInv, Assembler, Reset
<1>7. CASE ~timed_out(a, time)
  <2>1. parse_packet(a, packet, time) = expect_packet(a, packet, time)
    BY <1>7 DEF parse_packet
  <2>2. CASE a.idle /\ packet.init
    <3>1. expect_packet(a, packet, time) = accept_init_packet(a, packet, time)
      BY <2>2 DEF expect_packet
    <3>. QED  BY <1>2, <1>3, <1>6, <2>1, <2>2, <3>1
  <2>3. CASE a.idle /\ ~packet.init
    <3>1. expect_packet(a, packet, time) = Parsed(a, Err("UnexpectedContinuation"))
      BY <2>3 DEF expect_packet
    <3>. QED  BY <2>1, <2>3, <3>1 DEF StepOf, Parsed, Err, IsBusyError
  <2>4. CASE ~a.idle /\ packet.cid # a.cid
    <3>1. expect_packet(a, packet, time) = Parsed(a, Err("UnexpectedChannel"))
      BY <2>4 DEF expect_packet
    <3>. QED  BY <1>7, <2>1, <2>4, <3>1 DEF StepOf, Parsed, Err, IsBusyError, timed_out
  <2>5. CASE ~a.idle /\ packet.cid = a.cid /\ packet.init
    <3>1. CASE packet.cmd = "INIT"
      <4>1. expect_packet(a, packet, time) = accept_init_packet(Reset, packet, time)
        BY <2>5, <3>1 DEF expect_packet
      <4>. QED  BY <1>2, <1>3, <1>6, <2>1, <2>5, <4>1
    <3>2. CASE packet.cmd # "INIT"
      <4>1. expect_packet(a, packet, time) = Parsed(Reset, Err("UnexpectedInit"))
        BY <2>5, <3>2 DEF expect_packet
      <4>. QED  BY <1>4, <2>1, <4>1
    <3>. QED  BY <3>1, <3>2
  <2>6. CASE ~a.idle /\ packet.cid = a.cid /\ ~packet.init
    <3>1. expect_packet(a, packet, time) = accept_continuation(a, packet, time)
      BY <2>6 DEF expect_packet
    <3>. QED  BY <1>2, <1>5, <2>1, <2>6, <3>1
  <2>. QED  BY <1>1, <1>6, <2>2, <2>3, <2>4, <2>5, <2>6
<1>8. CASE timed_out(a, time) /\ packet.cid = a.cid
  <2>1. parse_packet(a, packet, time) = Parsed(Reset, Err("Timeout"))
    BY <1>8 DEF parse_packet
  <2>. QED  BY <1>4, <2>1
<1>9. CASE timed_out(a, time) /\ packet.cid # a.cid
  <2>1. parse_packet(a, packet, time) = expect_packet(Reset, packet, time)
    BY <1>9 DEF parse_packet
  <2>2. CASE packet.init
    <3>1. expect_packet(Reset, packet, time) = accept_init_packet(Reset, packet, time)
      BY <1>6, <2>2 DEF expect_packet
    <3>. QED  BY <1>2, <1>3, <1>6, <2>1, <2>2, <3>1
  <2>3. CASE ~packet.init
    <3>1. expect_packet(Reset, packet, time) = Parsed(Reset, Err("UnexpectedContinuation"))
      BY <1>6, <2>3 DEF expect_packet
    <3>. QED  BY <1>4, <2>1, <2>3, <3>1
  <2>. QED  BY <2>2, <2>3
<1>. QED  BY <1>7, <1>8, <1>9

-----------------------------------------------------------------------------
\* The channels.

\* A transaction of another channel waits for an answer, and is at least as old
\* as the last packet that is not of Watched unless the clock wrapped since.
OthersInv ==
  ~assembler.idle /\ assembler.cid # Watched =>
    /\ assembler.cid \in unanswered
    /\ \/ assembler.cid \in stale
       \/ clock - assembler.last_timestamp >= others

HidInv ==
  /\ TypeOK
  /\ AssemblerInv(assembler)
  /\ OthersInv
  /\ RepliesFit
  /\ BusyOnlyWhileActive

\* An error message fits, and is distinct for distinct channels and codes.
LEMMA ErrorMessageFits ==
  ASSUME NEW cid, NEW code
  PROVE  /\ splittable(error_message(cid, code))
         /\ error_message(cid, code).cid = cid
         /\ error_message(cid, code).payload[1] = code
<1>1. Len(<<code>>) = 1 /\ <<code>>[1] = code
  OBVIOUS
<1>2. 1 <= MAX_MESSAGE
  BY HidAssumption, PacketAssumption
<1>. QED  BY <1>1, <1>2 DEF splittable, error_message, Message

\* The commands: a message of a valid channel that can be split is answered by
\* a reply that can be split, which never says that the device is busy.
LEMMA MessageStep ==
  ASSUME TypeOK, NEW m \in Messages, Len(m.payload) <= MAX_MESSAGE,
         ProcessMessage(m)
  PROVE  /\ allocated_cids' \in 0 .. BROADCAST
         /\ wink_permission' \in {"granted", "waiting"}
         /\ RepliesFit'
<1>1. CASE ~has_valid_channel(m) /\ reply' = error_message(m.cid, ERR_INVALID_CHANNEL)
           /\ UNCHANGED <<allocated_cids, wink_permission>>
  BY <1>1, ErrorMessageFits DEF TypeOK, RepliesFit, splittable
<1>2. CASE CommandMsg(m)
  <2>1. ASSUME NEW response \in Responses, Len(response) <= MAX_MESSAGE,
               reply' = Message(m.cid, "MSG", response)
        PROVE  splittable(reply')
    BY <2>1 DEF splittable, Message
  <2>2. RepliesFit'
    BY <1>2, <2>1, ErrorMessageFits DEF CommandMsg, RepliesFit, splittable
  <2>. QED  BY <1>2, <2>2, HidAssumption DEF CommandMsg, TypeOK
<1>3. CASE CommandCbor(m)
  <2>1. Len(<<VENDOR_RESPONSE_TOO_LONG>>) <= MAX_MESSAGE
    BY HidAssumption, PacketAssumption
  <2>2. RepliesFit'
    BY <1>3, <2>1 DEF CommandCbor, RepliesFit, splittable, Message
  <2>. QED  BY <1>3, <2>2, HidAssumption DEF CommandCbor, TypeOK
<1>4. CASE CommandInit(m)
  <2>1. ASSUME NEW c, Len(m.payload) = NonceLen,
               reply' = Message(m.cid, "INIT", m.payload \o <<c>>)
        PROVE  splittable(reply')
    <3>1. Len(m.payload \o <<c>>) = NonceLen + 1
      BY <2>1 DEF Messages
    <3>. QED  BY <2>1, <3>1, HidAssumption DEF splittable, Message
  <2>2. RepliesFit'
    BY <1>4, <2>1, ErrorMessageFits DEF CommandInit, RepliesFit, splittable
  <2>3. allocated_cids' \in 0 .. BROADCAST
    <3>1. CASE UNCHANGED allocated_cids
      BY <3>1 DEF TypeOK
    <3>2. CASE allocated_cids' = (allocated_cids + 1) % (BROADCAST + 1)
      <4>1. allocated_cids + 1 \in Nat /\ BROADCAST + 1 \in Nat \ {0}
        BY PacketAssumption DEF TypeOK
      <4>2. \A x, y \in Nat : y # 0 => x % y \in 0 .. y - 1
        BY SMT
      <4>3. (allocated_cids + 1) % (BROADCAST + 1) \in 0 .. (BROADCAST + 1) - 1
        BY <4>1, <4>2
      <4>. QED  BY <3>2, <4>3, PacketAssumption
    <3>. QED  BY <1>4, <3>1, <3>2 DEF CommandInit
  <2>. QED  BY <1>4, <2>2, <2>3, HidAssumption DEF CommandInit
<1>5. CASE CommandPing(m)
  BY <1>5, HidAssumption DEF CommandPing, TypeOK, RepliesFit, splittable
<1>6. CASE CommandCancel(m)
  BY <1>6, HidAssumption DEF CommandCancel, TypeOK, RepliesFit
<1>7. CASE CommandWink(m)
  <2>1. splittable(Message(m.cid, "WINK", <<>>))
    BY HidAssumption, PacketAssumption DEF splittable, Message
  <2>2. RepliesFit'
    BY <1>7, <2>1, ErrorMessageFits DEF CommandWink, RepliesFit, splittable
  <2>. QED  BY <1>7, <2>2, HidAssumption DEF CommandWink, TypeOK
<1>8. CASE CommandOther(m)
  BY <1>8, ErrorMessageFits, HidAssumption
     DEF CommandOther, TypeOK, RepliesFit, splittable
<1>. QED  BY <1>1, <1>2, <1>3, <1>4, <1>5, <1>6, <1>7, <1>8 DEF ProcessMessage

\* NoMessage is not an error message.
LEMMA ErrorIsMessage ==
  ASSUME NEW code \in Nat
  PROVE  NoMessage # error_message(Watched, code)
<1> DEFINE payload == <<code>>
<1>1. payload \in Seq(Nat)
  OBVIOUS
<1>2. error_message(Watched, code) = [cid |-> Watched, cmd |-> "ERROR", payload |-> payload]
  BY DEF error_message, Message
<1> HIDE DEF payload
<1>3. [cid |-> Watched, cmd |-> "ERROR", payload |-> payload]
        \in [cid : Channels, cmd : Commands \cup {"ERROR"}, payload : Seq(Nat)]
  BY <1>1, HidAssumption
<1>. QED  BY <1>2, <1>3, HidAssumption

LEMMA NotBusy == NoMessage # error_message(Watched, ERR_CHANNEL_BUSY)
BY ErrorIsMessage DEF ERR_CHANNEL_BUSY

\* No message is answered by ERR_CHANNEL_BUSY.
LEMMA MessageNotBusy ==
  ASSUME NEW m \in Messages, ProcessMessage(m)
  PROVE  reply' # error_message(Watched, ERR_CHANNEL_BUSY)
<1> DEFINE busy == error_message(Watched, ERR_CHANNEL_BUSY)
<1>1. busy.cmd = "ERROR" /\ busy.payload[1] = 6
  BY DEF error_message, Message, ERR_CHANNEL_BUSY
<1>2. NoMessage # busy
  BY NotBusy
<1>3. ASSUME NEW cid, NEW code, code # 6 PROVE error_message(cid, code) # busy
  <2>1. error_message(cid, code).payload[1] = code
    BY ErrorMessageFits
  <2>. QED  BY <1>1, <1>3, <2>1
<1>4. ASSUME NEW cid, NEW cmd, NEW payload, cmd # "ERROR"
      PROVE  Message(cid, cmd, payload) # busy
  <2>1. Message(cid, cmd, payload).cmd = cmd
    BY DEF Message
  <2>. QED  BY <1>1, <1>4, <2>1
<1>5. m.cmd = "PING" => m # busy
  BY <1>1
<1> HIDE DEF busy
<1>6. reply' # busy
  BY <1>2, <1>3, <1>4, <1>5
     DEF ProcessMessage, CommandMsg, CommandCbor, CommandInit, CommandPing,
         CommandCancel, CommandWink, CommandOther,
         ERR_INVALID_CMD, ERR_INVALID_LEN, ERR_INVALID_CHANNEL
<1>. QED  BY <1>6 DEF busy

\* The answer to a packet that was rejected.
LEMMA ErrorReplyStep ==
  ASSUME NEW cid, NEW error \in {"UnexpectedContinuation", "UnexpectedChannel",
                                 "UnexpectedInit", "UnexpectedSeq", "Timeout"}
  PROVE  /\ ErrorReply(cid, error) # NoMessage => splittable(ErrorReply(cid, error))
         /\ ErrorReply(cid, error) = error_message(Watched, ERR_CHANNEL_BUSY) =>
              error = "UnexpectedChannel" /\ cid = Watched
<1> DEFINE busy == error_message(Watched, ERR_CHANNEL_BUSY)
<1>1. NoMessage # busy
  BY NotBusy
<1>2. ASSUME NEW code PROVE error_message(cid, code) = busy => code = 6 /\ cid = Watched
  <2>1. error_message(cid, code).payload[1] = code /\ error_message(cid, code).cid = cid
    BY ErrorMessageFits
  <2>2. busy.payload[1] = 6 /\ busy.cid = Watched
    BY ErrorMessageFits DEF ERR_CHANNEL_BUSY
  <2>. QED  BY <2>1, <2>2
<1>3. is_allocated_channel(cid) \in BOOLEAN
  BY DEF is_allocated_channel
<1>4. \/ error = "UnexpectedContinuation" /\ ErrorReply(cid, error) = NoMessage
      \/ ErrorReply(cid, error) = error_message(cid, ERR_INVALID_CHANNEL)
      \/ /\ error = "UnexpectedChannel"
         /\ ErrorReply(cid, error) = error_message(cid, ERR_CHANNEL_BUSY)
      \/ ErrorReply(cid, error) = error_message(cid, ERR_INVALID_SEQ)
      \/ ErrorReply(cid, error) = error_message(cid, ERR_MSG_TIMEOUT)
  BY <1>3 DEF ErrorReply
<1> HIDE DEF busy
<1>5. ErrorReply(cid, error) = busy => error = "UnexpectedChannel" /\ cid = Watched
  BY <1>1, <1>2, <1>4 DEF ERR_INVALID_CHANNEL, ERR_INVALID_SEQ, ERR_MSG_TIMEOUT
<1>6. ErrorReply(cid, error) # NoMessage => splittable(ErrorReply(cid, error))
  BY <1>4, ErrorMessageFits
<1>. QED  BY <1>5, <1>6 DEF busy

-----------------------------------------------------------------------------
\* The invariant.

(* The initial states satisfy the inductive invariant. *)
LEMMA HidInit == Init => HidInv
<1> SUFFICES ASSUME Init PROVE HidInv
  OBVIOUS
<1>1. AssemblerInv(assembler) /\ assembler \in Assembler /\ assembler.idle = TRUE
  BY ResetInv DEF Init, AssemblerInv, Reset
<1>2. TypeOK
  BY <1>1, HidAssumption, PacketAssumption DEF Init, TypeOK, Timestamps
<1>3. OthersInv
  BY <1>1 DEF OthersInv
<1>4. RepliesFit /\ BusyOnlyWhileActive
  BY NotBusy DEF Init, RepliesFit, BusyOnlyWhileActive
<1>. QED  BY <1>1, <1>2, <1>3, <1>4 DEF HidInv

\* What a packet leaves in the histories of the times.
LEMMA ObservedTimes ==
  ASSUME TypeOK, NEW packet, process_hid_packet(packet)
  PROVE  /\ due' \in 0 .. TIMEOUT_DURATION /\ others' \in 0 .. TIMEOUT_DURATION
         /\ clock' = clock
         /\ packet.cid = Watched => UNCHANGED <<others, unanswered, stale>>
         /\ packet.cid # Watched =>
              /\ others' = 0 /\ stale' = stale \ {packet.cid}
              /\ reply' = NoMessage => unanswered' = unanswered \cup {packet.cid}
              /\ unanswered \ {packet.cid} \subseteq unanswered'
              /\ UNCHANGED <<stream, due>>
<1>1. /\ packet.cid = Watched => ObserveWatched(packet)
      /\ packet.cid # Watched => ObserveOther(packet)
      /\ clock' = clock
  BY DEF process_hid_packet
<1>2. CASE packet.cid = Watched
  BY <1>1, <1>2, PacketAssumption DEF ObserveWatched, TypeOK
<1>3. CASE packet.cid # Watched
  BY <1>1, <1>3, PacketAssumption DEF ObserveOther, TypeOK
<1>. QED  BY <1>1, <1>2, <1>3

\* Receiving a packet keeps the invariant.
LEMMA HidPacket ==
  ASSUME HidInv, NEW packet \in Packets, process_hid_packet(packet)
  PROVE  HidInv'
<1> DEFINE parsed == parse_packet(assembler, packet, clock)
           result == parsed.result
<1>0. clock \in Timestamps /\ TypeOK
  BY DEF HidInv, TypeOK
<1>1. packet \in InitPackets \cup ContPackets /\ packet.cid \in Channels
  BY HidAssumption DEF InitPackets, ContPackets
<1>2. AssemblerInv(parsed.assembler) /\ ResultInv(result)
  BY <1>0, <1>1, ParseInv DEF HidInv
<1>3. StepOf(assembler, packet, clock, parsed)
  BY <1>0, <1>1, ParseStep DEF HidInv
<1>4. assembler' = parsed.assembler
  BY DEF process_hid_packet
<1>5. \/ /\ result.kind = "message"
         /\ message' = result.message
         /\ ProcessMessage(result.message)
      \/ /\ result.kind = "more"
         /\ message' = NoMessage
         /\ reply' = NoMessage
         /\ UNCHANGED <<allocated_cids, wink_permission>>
      \/ /\ result.kind = "error"
         /\ message' = NoMessage
         /\ reply' = ErrorReply(packet.cid, result.error)
         /\ UNCHANGED <<allocated_cids, wink_permission>>
  BY DEF process_hid_packet
<1>6. /\ due' \in 0 .. TIMEOUT_DURATION /\ others' \in 0 .. TIMEOUT_DURATION
      /\ clock' = clock
      /\ packet.cid = Watched => UNCHANGED <<others, unanswered, stale>>
      /\ packet.cid # Watched =>
           /\ others' = 0 /\ stale' = stale \ {packet.cid}
           /\ reply' = NoMessage => unanswered' = unanswered \cup {packet.cid}
           /\ unanswered \ {packet.cid} \subseteq unanswered'
  BY <1>0, ObservedTimes
<1> HIDE DEF parsed, result
<1>7. AssemblerInv(assembler)'
  BY <1>2, <1>4 DEF AssemblerInv
<1>8. OthersInv'
  <2> SUFFICES ASSUME ~assembler'.idle, assembler'.cid # Watched
               PROVE  /\ assembler'.cid \in unanswered'
                      /\ \/ assembler'.cid \in stale'
                         \/ clock' - assembler'.last_timestamp >= others'
    BY DEF OthersInv
  <2>1. CASE assembler'.cid = packet.cid
    <3>1. /\ result.kind = "more" /\ packet.cid # Watched
          /\ assembler'.last_timestamp = clock
      BY <1>3, <1>4, <2>1 DEF StepOf, result
    <3>2. assembler'.cid \in unanswered' /\ others' = 0
      BY <1>5, <1>6, <2>1, <3>1
    <3>3. clock' - assembler'.last_timestamp >= others'
      BY <1>0, <1>6, <3>1, <3>2, PacketAssumption DEF Timestamps
    <3>. QED  BY <3>2, <3>3
  <2>2. CASE assembler'.cid # packet.cid
    <3>1. assembler' = assembler
      BY <1>3, <1>4, <2>2 DEF StepOf
    <3>2. /\ assembler.cid \in unanswered
          /\ \/ assembler.cid \in stale
             \/ clock - assembler.last_timestamp >= others
      BY <3>1 DEF HidInv, OthersInv
    <3>3. assembler'.cid \in unanswered' /\ (assembler.cid \in stale => assembler'.cid \in stale')
      BY <1>6, <2>2, <3>1, <3>2
    <3>4. clock - assembler.last_timestamp >= others =>
            clock' - assembler'.last_timestamp >= others'
      <4>1. /\ others \in 0 .. TIMEOUT_DURATION /\ clock \in Timestamps
            /\ assembler.last_timestamp \in Timestamps
            /\ (others' = others \/ others' = 0)
        BY <1>0, <1>6 DEF TypeOK, Assembler
      <4>. QED  BY <1>6, <3>1, <4>1, PacketAssumption DEF Timestamps
    <3>. QED  BY <3>2, <3>3, <3>4
  <2>. QED  BY <2>1, <2>2
<1>9. CASE result.kind = "message"
  <2>1. /\ result.message \in Messages
        /\ Len(result.message.payload) <= MAX_MESSAGE
        /\ message' = result.message
        /\ ProcessMessage(result.message)
    BY <1>2, <1>5, <1>9 DEF ResultInv
  <2>2. /\ allocated_cids' \in 0 .. BROADCAST
        /\ wink_permission' \in {"granted", "waiting"}
        /\ RepliesFit'
    BY <1>0, <2>1, MessageStep
  <2>3. BusyOnlyWhileActive'
    BY <2>1, MessageNotBusy DEF BusyOnlyWhileActive, error_message, Message, ERR_CHANNEL_BUSY
  <2>4. TypeOK'
    BY <1>0, <1>6, <1>7, <2>1, <2>2 DEF TypeOK, AssemblerInv
  <2>. QED  BY <1>7, <1>8, <2>2, <2>3, <2>4 DEF HidInv
<1>10. CASE result.kind = "more"
  <2>1. /\ message' = NoMessage /\ reply' = NoMessage
        /\ UNCHANGED <<allocated_cids, wink_permission>>
    BY <1>5, <1>10
  <2>2. TypeOK'
    BY <1>0, <1>6, <1>7, <2>1 DEF TypeOK, AssemblerInv
  <2>3. RepliesFit' /\ BusyOnlyWhileActive'
    BY <2>1, NotBusy DEF RepliesFit, BusyOnlyWhileActive, error_message, Message,
                         ERR_CHANNEL_BUSY
  <2>. QED  BY <1>7, <1>8, <2>2, <2>3 DEF HidInv
<1>11. CASE result.kind = "error"
  <2>1. /\ message' = NoMessage
        /\ reply' = ErrorReply(packet.cid, result.error)
        /\ UNCHANGED <<allocated_cids, wink_permission>>
    BY <1>5, <1>11
  <2>2. TypeOK'
    BY <1>0, <1>6, <1>7, <2>1 DEF TypeOK, AssemblerInv
  <2>3. result.error \in {"UnexpectedContinuation", "UnexpectedChannel",
                          "UnexpectedInit", "UnexpectedSeq", "Timeout"}
    BY <1>2, <1>11 DEF ResultInv
  <2>4. reply' # NoMessage => splittable(reply')
    BY <2>1, <2>3, ErrorReplyStep
  <2>5. ASSUME reply' = error_message(Watched, ERR_CHANNEL_BUSY)
        PROVE  others' < TIMEOUT_DURATION \/ stale' # {}
    <3>1. result.error = "UnexpectedChannel" /\ packet.cid = Watched
      BY <2>1, <2>3, <2>5, ErrorReplyStep
    <3>2. /\ ~assembler.idle /\ assembler.cid # Watched
          /\ ~(clock - assembler.last_timestamp >= TIMEOUT_DURATION)
      BY <1>3, <1>11, <3>1 DEF StepOf, IsBusyError, result
    <3>3. \/ assembler.cid \in stale
          \/ clock - assembler.last_timestamp >= others
      BY <3>2 DEF HidInv, OthersInv
    <3>4. /\ others \in 0 .. TIMEOUT_DURATION /\ clock \in Timestamps
          /\ assembler.last_timestamp \in Timestamps
      BY <1>0 DEF TypeOK, Assembler
    <3>5. assembler.cid \in stale \/ others < TIMEOUT_DURATION
      BY <3>2, <3>3, <3>4, PacketAssumption DEF Timestamps
    <3>6. others' = others /\ stale' = stale
      BY <1>6, <3>1
    <3>. QED  BY <3>5, <3>6
  <2>6. RepliesFit' /\ BusyOnlyWhileActive'
    BY <2>4, <2>5 DEF RepliesFit, BusyOnlyWhileActive, splittable, error_message,
                      Message, ERR_CHANNEL_BUSY
  <2>. QED  BY <1>7, <1>8, <2>2, <2>6 DEF HidInv
<1>. QED  BY <1>5, <1>9, <1>10, <1>11

\* So does the passing of time.  A wrap makes every transaction of another
\* channel stale.
LEMMA HidTick == HidInv /\ Tick => HidInv'
<1> SUFFICES ASSUME HidInv, Tick PROVE HidInv'
  OBVIOUS
<1>1. /\ assembler \in Assembler /\ assembler.last_timestamp \in Timestamps
      /\ others \in 0 .. TIMEOUT_DURATION /\ due \in 0 .. TIMEOUT_DURATION
      /\ clock \in Timestamps
  BY DEF HidInv, TypeOK, Assembler
<1>2. /\ assembler' = assembler /\ unanswered' = unanswered
      /\ clock' = IF clock = HALF_PERIOD - 1 THEN -HALF_PERIOD ELSE clock + 1
      /\ due' = IF due > 0 THEN due - 1 ELSE 0
      /\ others' = IF others < TIMEOUT_DURATION THEN others + 1 ELSE others
      /\ stale' = IF clock = HALF_PERIOD - 1 THEN unanswered ELSE stale
      /\ message' = NoMessage /\ reply' = NoMessage
      /\ wink_permission' \in {wink_permission, "waiting"}
      /\ UNCHANGED allocated_cids
  BY DEF Tick
<1>3. /\ clock' \in Timestamps /\ others' \in 0 .. TIMEOUT_DURATION
      /\ due' \in 0 .. TIMEOUT_DURATION
  BY <1>1, <1>2, PacketAssumption DEF Timestamps
<1>4. AssemblerInv(assembler)'
  BY <1>2 DEF HidInv, AssemblerInv
<1>5. OthersInv'
  <2> SUFFICES ASSUME ~assembler'.idle, assembler'.cid # Watched
               PROVE  /\ assembler'.cid \in unanswered'
                      /\ \/ assembler'.cid \in stale'
                         \/ clock' - assembler'.last_timestamp >= others'
    BY DEF OthersInv
  <2>1. /\ assembler.cid \in unanswered
        /\ \/ assembler.cid \in stale
           \/ clock - assembler.last_timestamp >= others
    BY <1>2 DEF HidInv, OthersInv
  <2>2. CASE clock = HALF_PERIOD - 1
    BY <1>2, <2>1, <2>2
  <2>3. CASE clock # HALF_PERIOD - 1
    <3>1. clock' = clock + 1 /\ stale' = stale
      BY <1>2, <2>3
    <3>2. clock - assembler.last_timestamp >= others =>
            clock' - assembler.last_timestamp >= others'
      BY <1>1, <1>2, <3>1, PacketAssumption DEF Timestamps
    <3>. QED  BY <1>2, <2>1, <3>1, <3>2
  <2>. QED  BY <2>2, <2>3
<1>6. TypeOK'
  BY <1>2, <1>3, <1>4, HidAssumption DEF HidInv, TypeOK, AssemblerInv
<1>7. RepliesFit' /\ BusyOnlyWhileActive'
  BY <1>2, NotBusy DEF RepliesFit, BusyOnlyWhileActive, error_message, Message,
                       ERR_CHANNEL_BUSY
<1>. QED  BY <1>4, <1>5, <1>6, <1>7 DEF HidInv

(* Every packet and every passing of time preserves the inductive invariant. *)
LEMMA HidStep == HidInv /\ [Next]_vars => HidInv'
<1> SUFFICES ASSUME HidInv, [Next]_vars PROVE HidInv'
  OBVIOUS
<1>1. ASSUME NEW packet \in Packets, process_hid_packet(packet) PROVE HidInv'
  BY <1>1, HidPacket
<1>2. CASE Tick
  BY <1>2, HidTick
<1>3. CASE UNCHANGED vars
  BY <1>3 DEF vars, histories, HidInv, TypeOK, AssemblerInv, OthersInv, RepliesFit, splittable,
              BusyOnlyWhileActive, error_message, Message
<1>. QED  BY <1>1, <1>2, <1>3 DEF Next

\* The invariant of the channels and of the assembler, for any number of
\* channels and packets of any size.
THEOREM HidInvariant == Spec => []HidInv
BY HidInit, HidStep, PTL DEF Spec

\* Type correctness; in particular the sequence number of the assembler stays
\* at most MAX_SEQ + 1 = 128, so that seq: u8 does not overflow.
THEOREM TypeCorrect == Spec => []TypeOK
<1>1. HidInv => TypeOK
  BY DEF HidInv
<1>. QED  BY <1>1, HidInvariant, PTL

\* The unwrap calls on the replies never panic: every message that could be
\* assembled can be split again, whatever length its first packet announced.
THEOREM EveryReplyFits == Spec => []RepliesFit
<1>1. HidInv => RepliesFit
  BY DEF HidInv
<1>. QED  BY <1>1, HidInvariant, PTL

\* A silent host does not block the others beyond the timeout, unless the clock
\* wrapped while it was in the middle of a message.
THEOREM SilentHostsDoNotBlock == Spec => []BusyOnlyWhileActive
<1>1. HidInv => BusyOnlyWhileActive
  BY DEF HidInv
<1>. QED  BY <1>1, HidInvariant, PTL

-----------------------------------------------------------------------------
\* What the watched channel carried, against what the assembler holds.

AnyPacket == InitPackets \cup ContPackets

\* The place in the payload of byte j of the k-th packet.
Place(k, j) == IF k = 1 THEN j ELSE INIT_DATA + (k - 2) * CONT_DATA + j

\* The packets have the headers of a message with len bytes on Watched.
Framed(packets, cmd, len) ==
  /\ packets \in Seq(AnyPacket) /\ Len(packets) >= 1
  /\ packets[1] \in InitPackets
  /\ packets[1].cid = Watched /\ packets[1].cmd = cmd /\ packets[1].len = len
  /\ \A k \in 2 .. Len(packets) :
       /\ packets[k] \in ContPackets
       /\ packets[k].cid = Watched /\ packets[k].seq = k - 2

\* The payload has the bytes of the packets, as far as it goes.
Holds(packets, payload) ==
  \A k \in DOMAIN packets : \A j \in DOMAIN packets[k].data :
    Place(k, j) <= Len(payload) => payload[Place(k, j)] = packets[k].data[j]

\* An assembler in the middle of a message of Watched has seen exactly these
\* packets.
Tracks(a, packets) ==
  ~a.idle /\ a.cid = Watched =>
    /\ Len(packets) = a.seq + 1
    /\ a.remaining > 0
    /\ Framed(packets, a.cmd, Len(a.payload) + a.remaining)
    /\ Holds(packets, a.payload)

\* The packets are those of the message, up to what follows its last byte.
Delivered(m, packets) ==
  /\ Len(packets) = Len(split(m))
  /\ \A k \in DOMAIN split(m) :
       SameUpTo(packets[k], split(m)[k], Carried(Len(m.payload), k))

StreamInv ==
  /\ stream \in Seq(AnyPacket)
  /\ Tracks(assembler, stream)

\* Sequences that agree up to n have the same beginning.
LEMMA SameBeginning ==
  ASSUME NEW S, NEW s \in Seq(S), NEW T, NEW t \in Seq(T), NEW n \in Nat,
         n <= Len(s), n <= Len(t), \A j \in 1 .. n : s[j] = t[j]
  PROVE  SubSeq(s, 1, n) = SubSeq(t, 1, n)
<1>1. SubSeq(s, 1, n) \in Seq(S) /\ Len(SubSeq(s, 1, n)) = n
  OBVIOUS
<1>2. SubSeq(t, 1, n) \in Seq(T) /\ Len(SubSeq(t, 1, n)) = n
  OBVIOUS
<1>3. \A j \in 1 .. n : SubSeq(s, 1, n)[j] = s[j] /\ SubSeq(t, 1, n)[j] = t[j]
  OBVIOUS
<1>. QED  BY <1>1, <1>2, <1>3

\* How many packets a message needs that ends in the last of them.
LEMMA ContinuationsOf ==
  ASSUME NEW s \in Nat, NEW len \in Nat,
         s = 0 => len <= INIT_DATA,
         s > 0 => /\ len > INIT_DATA + CONT_DATA * (s - 1)
                  /\ len <= INIT_DATA + CONT_DATA * s
  PROVE  continuations(len) = s
<1>1. CASE s = 0
  BY <1>1 DEF continuations
<1>2. CASE s > 0
  <2> DEFINE r == len - INIT_DATA - CONT_DATA * (s - 1) - 1
  <2>1. CONT_DATA * (s - 1) \in Nat /\ CONT_DATA * s = CONT_DATA * (s - 1) + CONT_DATA
    BY <1>2, PacketAssumption
  <2>2. r \in 0 .. CONT_DATA - 1
    BY <1>2, <2>1, PacketAssumption
  <2>3. len - INIT_DATA + CONT_DATA - 1 = CONT_DATA * s + r
    BY <2>1, PacketAssumption
  <2>4. ~(len <= INIT_DATA)
    BY <1>2, <2>1, PacketAssumption
  <2> HIDE DEF r
  <2>5. (CONT_DATA * s + r) \div CONT_DATA = s
    BY <2>2, PacketAssumption
  <2>. QED  BY <2>3, <2>4, <2>5 DEF continuations
<1>. QED  BY <1>1, <1>2

\* Packets with the same header and the same beginning are the same up to it.
LEMMA SameInit ==
  ASSUME NEW cid, NEW cmd, NEW len, NEW d \in Seq(Bytes), NEW e \in Seq(Bytes),
         NEW n \in Nat, n <= Len(d), SubSeq(d, 1, n) = SubSeq(e, 1, n)
  PROVE  SameUpTo([init |-> TRUE, cid |-> cid, cmd |-> cmd, len |-> len, data |-> d],
                  [init |-> TRUE, cid |-> cid, cmd |-> cmd, len |-> len, data |-> e], n)
<1> DEFINE Same == [init : {TRUE}, cid : {cid}, cmd : {cmd}, len : {len}, data : Seq(Bytes)]
           p(x) == [init |-> TRUE, cid |-> cid, cmd |-> cmd, len |-> len, data |-> x]
           b == SubSeq(d, 1, n)
<1>1. /\ p(d) \in Same /\ p(e) \in Same /\ b \in Seq(Bytes)
      /\ p(d).data = d /\ p(e).data = e
  OBVIOUS
<1>2. \A q, r \in Same : [q EXCEPT !.data = b] = [r EXCEPT !.data = b]
  BY <1>1
<1> HIDE DEF p, Same
<1>3. SameUpTo(p(d), p(e), n)
  BY <1>1, <1>2 DEF SameUpTo
<1>. QED  BY <1>3 DEF p

\* So are continuations.
LEMMA SameCont ==
  ASSUME NEW cid, NEW seq, NEW d \in Seq(Bytes), NEW e \in Seq(Bytes),
         NEW n \in Nat, n <= Len(d), SubSeq(d, 1, n) = SubSeq(e, 1, n)
  PROVE  SameUpTo([init |-> FALSE, cid |-> cid, seq |-> seq, data |-> d],
                  [init |-> FALSE, cid |-> cid, seq |-> seq, data |-> e], n)
<1> DEFINE Same == [init : {FALSE}, cid : {cid}, seq : {seq}, data : Seq(Bytes)]
           p(x) == [init |-> FALSE, cid |-> cid, seq |-> seq, data |-> x]
           b == SubSeq(d, 1, n)
<1>1. /\ p(d) \in Same /\ p(e) \in Same /\ b \in Seq(Bytes)
      /\ p(d).data = d /\ p(e).data = e
  OBVIOUS
<1>2. \A q, r \in Same : [q EXCEPT !.data = b] = [r EXCEPT !.data = b]
  BY <1>1
<1> HIDE DEF p, Same
<1>3. SameUpTo(p(d), p(e), n)
  BY <1>1, <1>2 DEF SameUpTo
<1>. QED  BY <1>3 DEF p

\* Framed packets that hold the payload of a message and are as many as it
\* needs are the packets of the message.
LEMMA FramedIsSplit ==
  ASSUME NEW m \in Messages, m.cid = Watched, NEW packets,
         Framed(packets, m.cmd, Len(m.payload)), Holds(packets, m.payload),
         NEW s \in Nat, Len(packets) = s + 1,
         s = 0 => Len(m.payload) <= INIT_DATA,
         s > 0 => /\ Len(m.payload) > INIT_DATA + CONT_DATA * (s - 1)
                  /\ Len(m.payload) <= INIT_DATA + CONT_DATA * s
  PROVE  Delivered(m, packets)
<1> DEFINE len == Len(m.payload)
<1>1. len \in Nat /\ m.payload \in Seq(Bytes)
  BY DEF Messages
<1>2. continuations(len) = s
  BY <1>1, ContinuationsOf
<1>3. split(m) = [k \in 1 .. 1 + s |->
         IF k = 1
         THEN [init |-> TRUE, cid |-> m.cid, cmd |-> m.cmd,
               len |-> len, data |-> consume_data(m.payload, 0, INIT_DATA)]
         ELSE [init |-> FALSE, cid |-> m.cid, seq |-> k - 2,
               data |-> consume_data(m.payload, INIT_DATA + (k - 2) * CONT_DATA, CONT_DATA)]]
  BY <1>2 DEF split
<1>4. Len(split(m)) = s + 1 /\ DOMAIN split(m) = 1 .. s + 1
  BY <1>3
<1>5. ASSUME NEW i \in Nat, NEW size \in Nat
      PROVE  /\ consume_data(m.payload, i, size) \in Seq(Bytes)
             /\ Len(consume_data(m.payload, i, size)) = size
             /\ \A j \in 1 .. size :
                  i + j <= len => consume_data(m.payload, i, size)[j] = m.payload[i + j]
  <2>1. consume_data(m.payload, i, size) \in [1 .. size -> Bytes]
    BY <1>1, PacketAssumption DEF consume_data
  <2>2. \A j \in 1 .. size :
          i + j <= len => consume_data(m.payload, i, size)[j] = m.payload[i + j]
    BY DEF consume_data
  <2>. QED  BY <2>1, <2>2, DataIsSequence
<1>6. SameUpTo(packets[1], split(m)[1], Carried(len, 1))
  <2> DEFINE data == consume_data(m.payload, 0, INIT_DATA)
             n == Carried(len, 1)
             first == packets[1].data
  <2>1. n \in Nat /\ n <= INIT_DATA /\ n <= len
    BY <1>1, PacketAssumption DEF Carried
  <2>2. data \in Seq(Bytes) /\ Len(data) = INIT_DATA
        /\ \A j \in 1 .. INIT_DATA : 0 + j <= len => data[j] = m.payload[0 + j]
    BY <1>5, PacketAssumption
  <2>3. packets[1] \in InitPackets /\ first \in [1 .. INIT_DATA -> Bytes]
    BY DEF Framed, InitPackets
  <2>4. first \in Seq(Bytes) /\ Len(first) = INIT_DATA
    BY <2>3, DataIsSequence, PacketAssumption
  <2>5. \A j \in 1 .. INIT_DATA : j <= len => m.payload[j] = first[j]
    <3>1. 1 \in DOMAIN packets /\ \A j : Place(1, j) = j
      BY DEF Framed, Place
    <3>. QED  BY <2>3, <3>1 DEF Holds
  <2>6. split(m)[1] = [init |-> TRUE, cid |-> m.cid, cmd |-> m.cmd, len |-> len,
                       data |-> data]
    BY <1>3
  <2>7. packets[1] = [init |-> TRUE, cid |-> m.cid, cmd |-> m.cmd, len |-> len,
                      data |-> first]
    BY <2>3 DEF Framed, InitPackets
  <2> HIDE DEF data, n, first
  <2>8. SubSeq(first, 1, n) = SubSeq(data, 1, n)
    <3>1. \A j \in 1 .. n : first[j] = data[j]
      BY <2>1, <2>2, <2>5, PacketAssumption
    <3>. QED  BY <2>1, <2>2, <2>4, <3>1, SameBeginning
  <2>9. SameUpTo(packets[1], split(m)[1], n)
    BY <2>1, <2>2, <2>4, <2>6, <2>7, <2>8, SameInit
  <2>. QED  BY <2>9 DEF n
<1>7. ASSUME NEW k \in 2 .. s + 1
      PROVE  SameUpTo(packets[k], split(m)[k], Carried(len, k))
  <2> DEFINE i == INIT_DATA + (k - 2) * CONT_DATA
             data == consume_data(m.payload, i, CONT_DATA)
             n == Carried(len, k)
             part == packets[k].data
  <2>1. i \in Nat /\ i <= len
    <3>1. (k - 2) * CONT_DATA \in Nat /\ CONT_DATA * (s - 1) \in Nat
      BY PacketAssumption
    <3>2. (k - 2) * CONT_DATA <= CONT_DATA * (s - 1)
      BY PacketAssumption
    <3>. QED  BY <1>1, <3>1, <3>2, PacketAssumption
  <2>2. n = IF len - i < CONT_DATA THEN len - i ELSE CONT_DATA
    <3> DEFINE x == (k - 2) * CONT_DATA
    <3>1. x \in Nat
      BY PacketAssumption
    <3>2. n = IF len - INIT_DATA - x < CONT_DATA THEN len - INIT_DATA - x ELSE CONT_DATA
      BY DEF Carried
    <3>3. i = INIT_DATA + x
      OBVIOUS
    <3> HIDE DEF x, i, n
    <3>. QED  BY <1>1, <3>1, <3>2, <3>3, PacketAssumption
  <2>3. data \in Seq(Bytes) /\ Len(data) = CONT_DATA
        /\ \A j \in 1 .. CONT_DATA : i + j <= len => data[j] = m.payload[i + j]
    BY <1>5, <2>1, PacketAssumption
  <2>4. packets[k] \in ContPackets /\ part \in [1 .. CONT_DATA -> Bytes]
    BY DEF Framed, ContPackets
  <2>5. part \in Seq(Bytes) /\ Len(part) = CONT_DATA
    BY <2>4, DataIsSequence, PacketAssumption
  <2>6. \A j \in 1 .. CONT_DATA : i + j <= len => m.payload[i + j] = part[j]
    <3>1. k \in DOMAIN packets
      BY DEF Framed
    <3>2. \A j \in DOMAIN part : Place(k, j) = i + j
      BY DEF Place
    <3>. QED  BY <2>4, <3>1, <3>2 DEF Holds
  <2>7. split(m)[k] = [init |-> FALSE, cid |-> m.cid, seq |-> k - 2, data |-> data]
    BY <1>3
  <2>8. packets[k] = [init |-> FALSE, cid |-> m.cid, seq |-> k - 2, data |-> part]
    BY <2>4 DEF Framed, ContPackets
  <2> HIDE DEF i, data, n, part
  <2>9. n \in Nat /\ n <= CONT_DATA /\ i + n <= len
    BY <1>1, <2>1, <2>2, PacketAssumption
  <2>10. SubSeq(part, 1, n) = SubSeq(data, 1, n)
    <3>1. \A j \in 1 .. n : part[j] = data[j]
      <4> TAKE j \in 1 .. n
      <4>1. j \in 1 .. CONT_DATA /\ i + j <= len
        BY <1>1, <2>1, <2>9, PacketAssumption
      <4>. QED  BY <2>3, <2>6, <4>1
    <3>. QED  BY <2>3, <2>5, <2>9, <3>1, SameBeginning
  <2>11. SameUpTo(packets[k], split(m)[k], n)
    BY <2>3, <2>5, <2>7, <2>8, <2>9, <2>10, SameCont
  <2>. QED  BY <2>11 DEF n
<1>. QED  BY <1>4, <1>6, <1>7 DEF Delivered

\* The numbers that an assembler keeps.
LEMMA AssemblerFields ==
  ASSUME NEW b \in Assembler, NEW data \in Seq(Bytes)
  PROVE  /\ b.payload \in Seq(Bytes) /\ b.remaining \in Nat /\ b.seq \in Nat
         /\ Len(b.payload) \in Nat /\ Len(data) \in Nat
<1>1. /\ b.payload \in Seq(Bytes) /\ b.remaining \in 0 .. MAX_LEN
      /\ b.seq \in 0 .. MAX_SEQ + 1
  BY DEF Assembler
<1>. QED  BY <1>1, PacketAssumption

\* The elements of a concatenation.
LEMMA Concatenated ==
  ASSUME NEW s \in Seq(Bytes), NEW t \in Seq(Bytes)
  PROVE  /\ Len(s \o t) = Len(s) + Len(t)
         /\ \A i \in 1 .. Len(s) : (s \o t)[i] = s[i]
         /\ \A j \in 1 .. Len(t) : (s \o t)[Len(s) + j] = t[j]
<1>1. Len(s \o t) = Len(s) + Len(t)
  OBVIOUS
<1>2. \A i \in 1 .. Len(s) : (s \o t)[i] = s[i]
  OBVIOUS
<1>3. ASSUME NEW j \in 1 .. Len(t) PROVE (s \o t)[Len(s) + j] = t[j]
  <2>1. Len(s) + j \in 1 .. Len(s) + Len(t) /\ Len(s) + j > Len(s)
    OBVIOUS
  <2>2. Len(s) + j - Len(s) = j
    OBVIOUS
  <2>. QED  BY <2>1, <2>2
<1>. QED  BY <1>1, <1>2, <1>3

\* An earlier continuation ends before the next one begins.
LEMMA EarlierPlace ==
  ASSUME NEW t \in Nat, NEW s \in Nat, t < s, NEW c \in Nat
  PROVE  t * c \in Nat /\ c * s \in Nat /\ t * c + c <= c * s
<1>1. (t + 1) * c = t * c + c /\ t * c \in Nat /\ c * s \in Nat
  OBVIOUS
<1>2. (t + 1) * c <= s * c
  OBVIOUS
<1>3. s * c = c * s
  OBVIOUS
<1>. QED  BY <1>1, <1>2, <1>3

\* Adding data to the message under way: the packets, the last one included,
\* are tracked, and a message that this completes was carried by them.
LEMMA AppendTracks ==
  ASSUME NEW b \in Assembler, b.cid = Watched, b.cmd \in Commands,
         NEW data \in Seq(Bytes), NEW packets,
         Framed(packets, b.cmd, Len(b.payload) + b.remaining),
         Len(packets) = b.seq + 1,
         Len(b.payload) + Len(data) = INIT_DATA + CONT_DATA * b.seq,
         b.seq > 0 => /\ b.remaining > 0
                      /\ Len(b.payload) = INIT_DATA + CONT_DATA * (b.seq - 1),
         \A n \in 0 .. Len(data) : Holds(packets, b.payload \o SubSeq(data, 1, n))
  PROVE  /\ Tracks(append_payload(b, data).assembler, packets)
         /\ append_payload(b, data).result.kind = "message" =>
              Delivered(append_payload(b, data).result.message, packets)
<1> DEFINE c == append_payload(b, data).assembler
           r == append_payload(b, data).result
<1>1. /\ b.payload \in Seq(Bytes) /\ b.remaining \in Nat /\ b.seq \in Nat
      /\ Len(b.payload) \in Nat /\ Len(data) \in Nat
  BY AssemblerFields
<1>2. CASE Len(data) < b.remaining
  <2>1. /\ c = [b EXCEPT !.payload = b.payload \o data, !.idle = FALSE,
                        !.remaining = b.remaining - Len(data)]
        /\ r = More
    BY <1>2 DEF append_payload, Parsed
  <2>2. /\ c.seq = b.seq /\ c.cmd = b.cmd /\ c.payload = b.payload \o data
        /\ c.remaining = b.remaining - Len(data)
    BY <2>1 DEF Assembler
  <2>3. SubSeq(data, 1, Len(data)) = data /\ Len(data) \in 0 .. Len(data)
    BY <1>1
  <2>4. Holds(packets, b.payload \o data)
    BY <2>3
  <2>5. Len(b.payload \o data) = Len(b.payload) + Len(data)
    BY <1>1
  <2>6. c.remaining > 0 /\ Len(c.payload) + c.remaining = Len(b.payload) + b.remaining
    BY <1>1, <1>2, <2>2, <2>5
  <2>7. r.kind # "message"
    BY <2>1 DEF More
  <2> HIDE DEF c, r
  <2>8. Tracks(c, packets)
    BY <2>2, <2>4, <2>6 DEF Tracks
  <2>. QED  BY <2>7, <2>8 DEF c, r
<1>3. CASE ~(Len(data) < b.remaining)
  <2> DEFINE head == SubSeq(data, 1, b.remaining)
             m == [cid |-> b.cid, cmd |-> b.cmd, payload |-> b.payload \o head]
  <2>1. /\ c = [b EXCEPT !.payload = <<>>, !.idle = TRUE]
        /\ r = Complete(b.cid, b.cmd, b.payload \o head)
    BY <1>3 DEF append_payload, Parsed
  <2>2. c.idle = TRUE
    BY <2>1 DEF Assembler
  <2>3. r.message = m
    BY <2>1 DEF Complete
  <2>4. head \in Seq(Bytes) /\ Len(head) = b.remaining
    BY <1>1, <1>3
  <2>5. /\ b.payload \o head \in Seq(Bytes)
        /\ Len(b.payload \o head) = Len(b.payload) + b.remaining
    BY <1>1, <2>4
  <2>6. Holds(packets, b.payload \o head)
    BY <1>1, <1>3
  <2> HIDE DEF head
  <2>7. /\ m \in Messages /\ m.cid = Watched /\ m.cmd = b.cmd
        /\ m.payload = b.payload \o head
    BY <2>5 DEF Messages, Assembler
  <2> HIDE DEF m
  <2>8. b.seq = 0 => Len(m.payload) <= INIT_DATA
    BY <1>1, <1>3, <2>5, <2>7, PacketAssumption
  <2>9. b.seq > 0 => /\ Len(m.payload) > INIT_DATA + CONT_DATA * (b.seq - 1)
                     /\ Len(m.payload) <= INIT_DATA + CONT_DATA * b.seq
    <3> SUFFICES ASSUME b.seq > 0
                 PROVE  /\ Len(m.payload) > INIT_DATA + CONT_DATA * (b.seq - 1)
                        /\ Len(m.payload) <= INIT_DATA + CONT_DATA * b.seq
      OBVIOUS
    <3> DEFINE x == INIT_DATA + CONT_DATA * (b.seq - 1)
               y == INIT_DATA + CONT_DATA * b.seq
    <3>1. Len(b.payload) = x /\ Len(b.payload) + Len(data) = y /\ b.remaining > 0
      OBVIOUS
    <3>2. Len(m.payload) = Len(b.payload) + b.remaining
      BY <2>5, <2>7
    <3> HIDE DEF x, y
    <3>3. Len(m.payload) > x /\ Len(m.payload) <= y
      BY <1>1, <1>3, <3>1, <3>2
    <3>. QED  BY <3>3 DEF x, y
  <2>10. Delivered(m, packets)
    BY <1>1, <2>5, <2>6, <2>7, <2>8, <2>9, FramedIsSplit
  <2>. QED  BY <2>2, <2>3, <2>10 DEF Tracks
<1>. QED  BY <1>2, <1>3

\* The result of a packet of Watched: nothing else is tracked or delivered.
TracksOf(parsed, packets) ==
  /\ Tracks(parsed.assembler, packets)
  /\ parsed.result.kind = "message" => Delivered(parsed.result.message, packets)

\* The first packet of a message.
LEMMA InitTracks ==
  ASSUME NEW a \in Assembler, a.payload = <<>>, NEW packet \in InitPackets,
         packet.cid = Watched, NEW time \in Timestamps
  PROVE  TracksOf(accept_init_packet(a, packet, time), <<packet>>)
<1> DEFINE b == [a EXCEPT !.cid = packet.cid, !.last_timestamp = time,
                          !.cmd = packet.cmd,
                          !.seq = 0, !.remaining = packet.len]
           packets == <<packet>>
<1>1. packet.data \in Seq(Bytes) /\ Len(packet.data) = INIT_DATA
      /\ DOMAIN packet.data = 1 .. INIT_DATA
  <2>1. packet.data \in [1 .. INIT_DATA -> Bytes]
    BY DEF InitPackets
  <2>. QED  BY <2>1, DataIsSequence, PacketAssumption
<1>2. b \in Assembler
  <2>1. /\ packet.cid \in Channels /\ packet.len \in 0 .. MAX_LEN
        /\ packet.cmd \in Commands \cup {"none"}
    BY DEF InitPackets
  <2>2. 0 \in 0 .. MAX_SEQ + 1
    BY PacketAssumption
  <2>. QED  BY <2>1, <2>2 DEF Assembler
<1>3. /\ b.payload = <<>> /\ b.seq = 0 /\ b.cmd \in Commands /\ b.cmd = packet.cmd
      /\ b.cid = Watched /\ b.remaining = packet.len /\ packet.len \in Nat
  BY PacketAssumption DEF Assembler, InitPackets
<1>4. accept_init_packet(a, packet, time) = append_payload(b, packet.data)
  BY DEF accept_init_packet
<1>5. /\ packets \in Seq(AnyPacket) /\ Len(packets) = 1 /\ packets[1] = packet
      /\ DOMAIN packets = {1}
  BY DEF AnyPacket
<1> HIDE DEF b, packets
<1>6. Framed(packets, b.cmd, Len(b.payload) + b.remaining)
  BY <1>3, <1>5 DEF Framed
<1>7. ASSUME NEW n \in 0 .. Len(packet.data)
      PROVE  Holds(packets, b.payload \o SubSeq(packet.data, 1, n))
  <2>1. /\ b.payload \o SubSeq(packet.data, 1, n) = SubSeq(packet.data, 1, n)
        /\ Len(SubSeq(packet.data, 1, n)) = n
        /\ \A j \in 1 .. n : SubSeq(packet.data, 1, n)[j] = packet.data[j]
    BY <1>1, <1>3
  <2>2. \A j : Place(1, j) = j
    BY DEF Place
  <2> DEFINE part == SubSeq(packet.data, 1, n)
  <2>3. ASSUME NEW k \in DOMAIN packets, NEW j \in DOMAIN packets[k].data,
               Place(k, j) <= Len(part)
        PROVE  part[Place(k, j)] = packets[k].data[j]
    <3>1. k = 1 /\ packets[k] = packet /\ j \in 1 .. INIT_DATA
      BY <1>1, <1>5
    <3>2. Place(k, j) = j /\ j \in 1 .. n
      BY <2>1, <2>2, <2>3, <3>1, PacketAssumption
    <3>. QED  BY <2>1, <3>1, <3>2
  <2> HIDE DEF part
  <2>4. Holds(packets, part)
    BY <2>3 DEF Holds
  <2>. QED  BY <2>1, <2>4 DEF part
<1>8. Len(b.payload) + Len(packet.data) = INIT_DATA + CONT_DATA * b.seq
  BY <1>1, <1>3, PacketAssumption
<1>9. TracksOf(append_payload(b, packet.data), packets)
  <2>1. \A n \in 0 .. Len(packet.data) : Holds(packets, b.payload \o SubSeq(packet.data, 1, n))
    BY <1>7
  <2>2. ~(b.seq > 0) /\ Len(packets) = b.seq + 1
    BY <1>3, <1>5
  <2>. QED  BY <1>1, <1>2, <1>3, <1>6, <1>8, <2>1, <2>2, AppendTracks DEF TracksOf
<1>. QED  BY <1>4, <1>9 DEF packets

\* A continuation of the message under way.
LEMMA ContinuationTracks ==
  ASSUME NEW a, AssemblerInv(a), ~a.idle, a.cid = Watched, NEW packet \in ContPackets,
         packet.cid = Watched, NEW packets, Tracks(a, packets), NEW time \in Timestamps
  PROVE  TracksOf(accept_continuation(a, packet, time), Append(packets, packet))
<1>1. CASE packet.seq # a.seq
  BY <1>1 DEF accept_continuation, Parsed, Err, Reset, TracksOf, Tracks
<1>2. CASE packet.seq = a.seq
  <2> DEFINE b == [a EXCEPT !.last_timestamp = time, !.seq = a.seq + 1]
             now == Append(packets, packet)
  <2>1. packet.data \in Seq(Bytes) /\ Len(packet.data) = CONT_DATA
        /\ DOMAIN packet.data = 1 .. CONT_DATA
    <3>1. packet.data \in [1 .. CONT_DATA -> Bytes]
      BY DEF ContPackets
    <3>. QED  BY <3>1, DataIsSequence, PacketAssumption
  <2>2. a \in Assembler /\ a.seq \in 0 .. MAX_SEQ /\ a.seq \in Nat
    BY <1>2, PacketAssumption DEF ContPackets, AssemblerInv
  <2>3. b \in Assembler
    <3>1. a.seq + 1 \in 0 .. MAX_SEQ + 1
      BY <2>2, PacketAssumption
    <3>. QED  BY <2>2, <3>1 DEF Assembler
  <2>4. /\ b.seq = a.seq + 1 /\ b.cmd \in Commands /\ b.cmd = a.cmd
        /\ b.payload = a.payload /\ b.cid = Watched /\ b.remaining = a.remaining
    BY <2>2 DEF Assembler, AssemblerInv
  <2>5. accept_continuation(a, packet, time) = append_payload(b, packet.data)
    BY <1>2 DEF accept_continuation
  <2>6. /\ Len(packets) = a.seq + 1 /\ a.remaining > 0 /\ Holds(packets, a.payload)
        /\ Framed(packets, a.cmd, Len(a.payload) + a.remaining)
        /\ Len(a.payload) = INIT_DATA + CONT_DATA * a.seq
        /\ a.payload \in Seq(Bytes) /\ Len(a.payload) \in Nat
    BY <2>2 DEF Tracks, AssemblerInv, Assembler
  <2>7. /\ now \in Seq(AnyPacket) /\ Len(now) = a.seq + 2 /\ now[a.seq + 2] = packet
        /\ \A k \in 1 .. a.seq + 1 : now[k] = packets[k]
        /\ DOMAIN packets = 1 .. a.seq + 1
    BY <2>2, <2>6 DEF Framed, AnyPacket
  <2> HIDE DEF b, now
  <2>8. Framed(now, b.cmd, Len(b.payload) + b.remaining)
    <3>1. now[1] = packets[1]
      BY <2>2, <2>7
    <3>2. ASSUME NEW k \in 2 .. Len(now)
          PROVE  now[k] \in ContPackets /\ now[k].cid = Watched /\ now[k].seq = k - 2
      <4>1. CASE k = a.seq + 2
        BY <1>2, <2>2, <2>7, <4>1
      <4>2. CASE k # a.seq + 2
        <5>1. k \in 2 .. a.seq + 1 /\ k \in 1 .. a.seq + 1
          BY <2>2, <2>7, <4>2
        <5>. QED  BY <2>6, <2>7, <5>1 DEF Framed
      <4>. QED  BY <4>1, <4>2
    <3>. QED  BY <2>2, <2>4, <2>6, <2>7, <3>1, <3>2 DEF Framed
  <2>9. ASSUME NEW n \in 0 .. Len(packet.data)
        PROVE  Holds(now, b.payload \o SubSeq(packet.data, 1, n))
    <3> DEFINE part == SubSeq(packet.data, 1, n)
               all == a.payload \o part
    <3>1. /\ part \in Seq(Bytes) /\ Len(part) = n
          /\ \A j \in 1 .. n : part[j] = packet.data[j]
      BY <2>1
    <3>2. /\ Len(all) = Len(a.payload) + n
          /\ \A i \in 1 .. Len(a.payload) : all[i] = a.payload[i]
          /\ \A j \in 1 .. n : all[Len(a.payload) + j] = packet.data[j]
      <4> HIDE DEF part
      <4>. QED  BY <2>6, <3>1, Concatenated
    <3> HIDE DEF part, all
    <3> SUFFICES ASSUME NEW k \in DOMAIN now, NEW j \in DOMAIN now[k].data,
                        Place(k, j) <= Len(all)
                 PROVE  all[Place(k, j)] = now[k].data[j]
      BY <2>4 DEF Holds, all, part
    <3>3. CASE k = a.seq + 2
      <4>1. now[k] = packet /\ j \in 1 .. CONT_DATA
        BY <2>1, <2>7, <3>3
      <4>2. Place(k, j) = Len(a.payload) + j
        <5>1. k # 1 /\ k - 2 = a.seq
          BY <2>2, <3>3
        <5>2. (k - 2) * CONT_DATA = CONT_DATA * a.seq
          BY <2>2, <5>1, PacketAssumption
        <5>. QED  BY <2>6, <5>1, <5>2 DEF Place
      <4>3. j \in 1 .. n
        BY <2>6, <3>2, <4>1, <4>2, PacketAssumption
      <4>. QED  BY <3>2, <4>1, <4>2, <4>3
    <3>4. CASE k # a.seq + 2
      <4>1. k \in 1 .. a.seq + 1 /\ now[k] = packets[k]
        BY <2>2, <2>7, <3>4
      <4>2. Place(k, j) \in 1 .. Len(a.payload)
        <5>1. CASE k = 1
          <6>1. j \in 1 .. INIT_DATA
            BY <2>6, <4>1, <5>1 DEF Framed, InitPackets
          <6>2. Place(k, j) = j /\ CONT_DATA * a.seq \in Nat
            BY <2>2, <5>1, PacketAssumption DEF Place
          <6>. QED  BY <2>6, <6>1, <6>2, PacketAssumption
        <5>2. CASE k # 1
          <6>1. k \in 2 .. a.seq + 1
            BY <2>2, <4>1, <5>2
          <6>2. packets[k] \in ContPackets
            BY <2>6, <6>1 DEF Framed
          <6>3. j \in 1 .. CONT_DATA
            BY <4>1, <6>2 DEF ContPackets
          <6>4. /\ (k - 2) * CONT_DATA \in Nat /\ CONT_DATA * a.seq \in Nat
                /\ (k - 2) * CONT_DATA + CONT_DATA <= CONT_DATA * a.seq
            <7>1. k - 2 \in Nat /\ k - 2 < a.seq
              BY <2>2, <6>1
            <7>. QED  BY <2>2, <7>1, EarlierPlace, PacketAssumption
          <6>5. Place(k, j) = INIT_DATA + (k - 2) * CONT_DATA + j
            BY <5>2 DEF Place
          <6> DEFINE x == (k - 2) * CONT_DATA
                     y == CONT_DATA * a.seq
          <6>6. /\ x \in Nat /\ y \in Nat /\ x + CONT_DATA <= y
                /\ Place(k, j) = INIT_DATA + x + j /\ Len(a.payload) = INIT_DATA + y
            BY <2>6, <6>4, <6>5
          <6> HIDE DEF x, y
          <6>. QED  BY <6>3, <6>6, PacketAssumption
        <5>. QED  BY <5>1, <5>2
      <4>3. a.payload[Place(k, j)] = packets[k].data[j]
        BY <2>6, <2>7, <4>1, <4>2 DEF Holds
      <4>. QED  BY <3>2, <4>1, <4>2, <4>3
    <3>. QED  BY <3>3, <3>4
  <2>10. /\ Len(b.payload) + Len(packet.data) = INIT_DATA + CONT_DATA * b.seq
         /\ Len(b.payload) = INIT_DATA + CONT_DATA * (b.seq - 1)
    <3>1. b.seq - 1 = a.seq
      BY <2>2, <2>4
    <3>. QED  BY <2>1, <2>2, <2>4, <2>6, <3>1, MoreContinuations, PacketAssumption
  <2>11. Len(now) = b.seq + 1
    BY <2>2, <2>4, <2>7
  <2>12. TracksOf(append_payload(b, packet.data), now)
    BY <2>1, <2>3, <2>4, <2>6, <2>8, <2>9, <2>10, <2>11, AppendTracks DEF TracksOf
  <2>. QED  BY <2>5, <2>12 DEF now
<1>. QED  BY <1>1, <1>2

\* The stream after a packet of Watched, as far as the assembler follows it.
Extends(now, packets, packet) ==
  /\ packet.init => now = <<packet>>
  /\ ~packet.init /\ Len(packets) \in 1 .. MAX_SEQ + 1 => now = Append(packets, packet)

\* parse_packet of a packet of Watched.
LEMMA ParseTracks ==
  ASSUME NEW a, AssemblerInv(a), NEW packet \in AnyPacket, packet.cid = Watched,
         NEW packets, Tracks(a, packets), NEW now, Extends(now, packets, packet),
         NEW time \in Timestamps
  PROVE  TracksOf(parse_packet(a, packet, time), now)
<1>1. packet.init \in BOOLEAN
  BY DEF AnyPacket, InitPackets, ContPackets
<1>2. /\ packet.init => packet \in InitPackets
      /\ ~packet.init => packet \in ContPackets
  BY DEF AnyPacket, InitPackets, ContPackets
<1>3. ASSUME NEW error PROVE TracksOf(Parsed(Reset, Err(error)), now)
  BY DEF TracksOf, Tracks, Parsed, Err, Reset
<1>4. ASSUME NEW e \in Assembler, e.payload = <<>>, packet.init
      PROVE  TracksOf(accept_init_packet(e, packet, time), now)
  BY <1>2, <1>4, InitTracks DEF Extends
<1>5. /\ a \in Assembler /\ a.idle \in BOOLEAN /\ (a.idle => a.payload = <<>>)
      /\ Reset \in Assembler /\ Reset.payload = <<>> /\ Reset.idle = TRUE
  BY ResetInv DEF AssemblerInv, Assembler, Reset
<1>6. CASE ~timed_out(a, time)
  <2>1. parse_packet(a, packet, time) = expect_packet(a, packet, time)
    BY <1>6 DEF parse_packet
  <2>2. CASE a.idle /\ packet.init
    <3>1. expect_packet(a, packet, time) = accept_init_packet(a, packet, time)
      BY <2>2 DEF expect_packet
    <3>. QED  BY <1>4, <1>5, <2>1, <2>2, <3>1
  <2>3. CASE a.idle /\ ~packet.init
    <3>1. expect_packet(a, packet, time) = Parsed(a, Err("UnexpectedContinuation"))
      BY <2>3 DEF expect_packet
    <3>. QED  BY <2>1, <2>3, <3>1 DEF TracksOf, Tracks, Parsed, Err
  <2>4. CASE ~a.idle /\ packet.cid # a.cid
    <3>1. expect_packet(a, packet, time) = Parsed(a, Err("UnexpectedChannel"))
      BY <2>4 DEF expect_packet
    <3>. QED  BY <2>1, <2>4, <3>1 DEF TracksOf, Tracks, Parsed, Err
  <2>5. CASE ~a.idle /\ packet.cid = a.cid /\ packet.init
    <3>1. CASE packet.cmd = "INIT"
      <4>1. expect_packet(a, packet, time) = accept_init_packet(Reset, packet, time)
        BY <2>5, <3>1 DEF expect_packet
      <4>. QED  BY <1>4, <1>5, <2>1, <2>5, <4>1
    <3>2. CASE packet.cmd # "INIT"
      <4>1. expect_packet(a, packet, time) = Parsed(Reset, Err("UnexpectedInit"))
        BY <2>5, <3>2 DEF expect_packet
      <4>. QED  BY <1>3, <2>1, <4>1
    <3>. QED  BY <3>1, <3>2
  <2>6. CASE ~a.idle /\ packet.cid = a.cid /\ ~packet.init
    <3>1. expect_packet(a, packet, time) = accept_continuation(a, packet, time)
      BY <2>6 DEF expect_packet
    <3>2. CASE packet.seq # a.seq
      <4>1. accept_continuation(a, packet, time) = Parsed(Reset, Err("UnexpectedSeq"))
        BY <3>2 DEF accept_continuation
      <4>. QED  BY <1>3, <2>1, <3>1, <4>1
    <3>3. CASE packet.seq = a.seq
      <4>1. a.seq \in 0 .. MAX_SEQ
        BY <1>2, <2>6, <3>3 DEF ContPackets
      <4>2. Len(packets) = a.seq + 1
        BY <2>6 DEF Tracks
      <4>3. Len(packets) \in 1 .. MAX_SEQ + 1
        BY <4>1, <4>2, PacketAssumption
      <4>4. now = Append(packets, packet)
        BY <2>6, <4>3 DEF Extends
      <4>. QED  BY <1>2, <2>1, <2>6, <3>1, <4>4, ContinuationTracks
    <3>. QED  BY <3>2, <3>3
  <2>. QED  BY <1>1, <1>5, <2>2, <2>3, <2>4, <2>5, <2>6
<1>7. CASE timed_out(a, time) /\ packet.cid = a.cid
  <2>1. parse_packet(a, packet, time) = Parsed(Reset, Err("Timeout"))
    BY <1>7 DEF parse_packet
  <2>. QED  BY <1>3, <2>1
<1>8. CASE timed_out(a, time) /\ packet.cid # a.cid
  <2>1. parse_packet(a, packet, time) = expect_packet(Reset, packet, time)
    BY <1>8 DEF parse_packet
  <2>2. CASE packet.init
    <3>1. expect_packet(Reset, packet, time) = accept_init_packet(Reset, packet, time)
      BY <1>5, <2>2 DEF expect_packet
    <3>. QED  BY <1>4, <1>5, <2>1, <2>2, <3>1
  <2>3. CASE ~packet.init
    <3>1. expect_packet(Reset, packet, time) = Parsed(Reset, Err("UnexpectedContinuation"))
      BY <1>5, <2>3 DEF expect_packet
    <3>. QED  BY <1>3, <2>1, <3>1
  <2>. QED  BY <2>2, <2>3
<1>. QED  BY <1>6, <1>7, <1>8

\* A packet keeps what is tracked, and delivers only what was carried.
LEMMA StreamPacket ==
  ASSUME HidInv, StreamInv, NEW packet \in Packets, process_hid_packet(packet)
  PROVE  StreamInv' /\ DeliveredAsSent'
<1> DEFINE parsed == parse_packet(assembler, packet, clock)
           result == parsed.result
<1>1. /\ packet \in AnyPacket /\ packet.init \in BOOLEAN
      /\ packet \in InitPackets \cup ContPackets
  BY HidAssumption DEF AnyPacket, InitPackets, ContPackets
<1>2. AssemblerInv(assembler) /\ Tracks(assembler, stream) /\ stream \in Seq(AnyPacket)
  BY DEF HidInv, StreamInv
<1>3. assembler' = parsed.assembler
  BY DEF process_hid_packet
<1>4. message' # NoMessage => result.kind = "message" /\ message' = result.message
  BY DEF process_hid_packet
<1>5. clock \in Timestamps /\ TypeOK
  BY DEF HidInv, TypeOK
<1>6. CASE packet.cid = Watched
  <2>0. ObserveWatched(packet)
    BY <1>6 DEF process_hid_packet
  <2>1. Extends(stream', stream, packet) /\ stream' \in Seq(AnyPacket)
    <3>1. CASE packet.init
      <4>1. stream' = <<packet>>
        BY <2>0, <3>1 DEF ObserveWatched
      <4>2. <<packet>> \in Seq(AnyPacket)
        BY <1>1
      <4>. QED  BY <3>1, <4>1, <4>2 DEF Extends
    <3>2. CASE ~packet.init
      <4>1. stream' = IF Len(stream) \in 1 .. MAX_SEQ + 1 THEN Append(stream, packet) ELSE <<>>
        BY <2>0, <3>2 DEF ObserveWatched
      <4>2. Append(stream, packet) \in Seq(AnyPacket) /\ <<>> \in Seq(AnyPacket)
        BY <1>1, <1>2
      <4>. QED  BY <3>2, <4>1, <4>2 DEF Extends
    <3>. QED  BY <1>1, <3>1, <3>2
  <2>2. TracksOf(parsed, stream')
    BY <1>1, <1>2, <1>5, <1>6, <2>1, ParseTracks
  <2> HIDE DEF parsed
  <2>3. Tracks(assembler, stream)'
    BY <1>3, <2>2 DEF TracksOf, Tracks, Framed, Holds, AnyPacket, Place
  <2>4. message' # NoMessage => Delivered(message', stream')
    BY <1>4, <2>2 DEF TracksOf
  <2>5. DeliveredAsSent'
    BY <2>4 DEF DeliveredAsSent, Delivered, split, continuations, consume_data, SameUpTo, Carried
  <2>. QED  BY <2>1, <2>3, <2>5 DEF StreamInv
<1>7. CASE packet.cid # Watched
  <2>1. StepOf(assembler, packet, clock, parsed)
    BY <1>1, <1>2, <1>5, ParseStep
  <2>2. stream' = stream
    BY <1>5, <1>7, ObservedTimes
  <2> HIDE DEF parsed
  <2>3. ~assembler'.idle /\ assembler'.cid = Watched => assembler' = assembler
    BY <1>3, <1>7, <2>1 DEF StepOf
  <2>4. Tracks(assembler, stream)'
    BY <1>2, <2>2, <2>3 DEF Tracks, Framed, Holds, AnyPacket, Place
  <2>5. message' # NoMessage => message'.cid # Watched
    BY <1>4, <1>7, <2>1 DEF StepOf
  <2>6. DeliveredAsSent'
    BY <2>5 DEF DeliveredAsSent, split, continuations, consume_data, SameUpTo, Carried
  <2>. QED  BY <1>2, <2>2, <2>4, <2>6 DEF StreamInv
<1>. QED  BY <1>6, <1>7

\* The invariant of what the watched channel carried.
THEOREM StreamInvariant == Spec => [](StreamInv /\ DeliveredAsSent)
<1>1. Init => StreamInv /\ DeliveredAsSent
  <2> SUFFICES ASSUME Init PROVE StreamInv /\ DeliveredAsSent
    OBVIOUS
  <2>1. assembler.idle = TRUE /\ stream = <<>> /\ message = NoMessage
    BY DEF Init, Reset
  <2>. QED  BY <2>1 DEF StreamInv, Tracks, DeliveredAsSent
<1>2. HidInv /\ StreamInv /\ DeliveredAsSent /\ [Next]_vars => StreamInv' /\ DeliveredAsSent'
  <2> SUFFICES ASSUME HidInv, StreamInv, DeliveredAsSent, [Next]_vars
               PROVE  StreamInv' /\ DeliveredAsSent'
    OBVIOUS
  <2>1. ASSUME NEW packet \in Packets, process_hid_packet(packet)
        PROVE  StreamInv' /\ DeliveredAsSent'
    BY <2>1, StreamPacket
  <2>2. CASE Tick
    <3>1. assembler' = assembler /\ message' = NoMessage /\ stream' = stream
      BY <2>2 DEF Tick
    <3>2. DeliveredAsSent'
      BY <3>1 DEF DeliveredAsSent, split, continuations, consume_data, SameUpTo, Carried
    <3>. QED  BY <3>1, <3>2 DEF StreamInv
  <2>3. CASE UNCHANGED vars
    <3>1. assembler' = assembler /\ stream' = stream /\ message' = message
      BY <2>3 DEF vars, histories
    <3>2. StreamInv'
      BY <3>1 DEF StreamInv
    <3>3. DeliveredAsSent'
      BY <3>1 DEF DeliveredAsSent
    <3>. QED  BY <3>2, <3>3
  <2>. QED  BY <2>1, <2>2, <2>3 DEF Next
<1>. QED  BY <1>1, <1>2, HidInvariant, PTL DEF Spec

\* A message is assembled only from all the packets, in order, that its channel
\* carried for it, whatever the other channels send and however packets are
\* lost, repeated or late.
THEOREM MessagesDeliveredAsSent == Spec => []DeliveredAsSent
BY StreamInvariant, PTL

-----------------------------------------------------------------------------
\* Completeness: what was accepted is delivered.

\* A message fits into n continuations exactly if it needs at most n.
LEMMA ContinuationsBound ==
  ASSUME NEW len \in Nat, NEW n \in Nat
  PROVE  /\ continuations(len) \in Nat
         /\ continuations(len) <= n <=> len <= INIT_DATA + CONT_DATA * n
<1>1. INIT_DATA \in Nat /\ CONT_DATA \in Nat /\ CONT_DATA > 0 /\ CONT_DATA * n \in Nat
  BY PacketAssumption
<1>2. CASE len <= INIT_DATA
  <2>1. continuations(len) = 0
    BY <1>2 DEF continuations
  <2> DEFINE y == CONT_DATA * n
  <2>2. y \in Nat
    BY <1>1
  <2> HIDE DEF y
  <2>3. len <= INIT_DATA + y
    BY <1>1, <1>2, <2>2
  <2>. QED  BY <2>1, <2>3 DEF y
<1>3. CASE len > INIT_DATA
  <2> DEFINE x == len - INIT_DATA + CONT_DATA - 1
             q == x \div CONT_DATA
             r == x % CONT_DATA
             z == CONT_DATA * q
             y == CONT_DATA * n
  <2>1. x \in Nat
    BY <1>1, <1>3
  <2>2. continuations(len) = q
    BY <1>1, <1>3 DEF continuations
  <2>3. q \in Nat /\ r \in 0 .. CONT_DATA - 1 /\ x = z + r
    <3>1. \A u, v \in Nat : v > 0 => /\ u \div v \in Nat /\ u % v \in 0 .. v - 1
                                    /\ u = v * (u \div v) + (u % v)
      BY SMT
    <3> HIDE DEF x
    <3>. QED  BY <1>1, <2>1, <3>1
  <2>4. len - INIT_DATA + CONT_DATA - 1 = x
    OBVIOUS
  <2> HIDE DEF x, q, r
  <2>5. z \in Nat /\ y \in Nat
    BY <1>1, <2>3
  <2>6. CASE q <= n
    <3>1. z <= y
      BY <1>1, <2>3, <2>6
    <3> HIDE DEF z, y
    <3>2. len <= INIT_DATA + y
      BY <1>1, <1>3, <2>3, <2>4, <2>5, <3>1
    <3>. QED  BY <2>2, <2>3, <2>6, <3>2 DEF y
  <2>7. CASE q > n
    <3>1. CONT_DATA * (n + 1) <= z /\ CONT_DATA * (n + 1) = y + CONT_DATA
      BY <1>1, <2>3, <2>7
    <3> HIDE DEF z, y
    <3>2. z >= y + CONT_DATA
      BY <3>1
    <3>3. ~(len <= INIT_DATA + y)
      BY <1>1, <1>3, <2>3, <2>4, <2>5, <3>2
    <3>. QED  BY <2>2, <2>3, <2>7, <3>3 DEF y
  <2>. QED  BY <2>3, <2>6, <2>7
<1>. QED  BY <1>1, <1>2, <1>3

\* How many continuations the message needs that the stream began.
Announced(packets) == continuations(packets[1].len)

\* A stream that is not broken and not complete has the assembler, which will
\* not time out before the next packet is due.
AcceptedInv ==
  /\ Len(stream) >= 1 => stream[1] \in InitPackets
  /\ due > 0 =>
       /\ Len(stream) >= 1
       /\ Len(stream) <= Announced(stream) =>
            /\ ~assembler.idle /\ assembler.cid = Watched
            /\ clock - assembler.last_timestamp + due <= TIMEOUT_DURATION

\* An assembler that awaits more packets of Watched has not seen all of them.
LEMMA MoreAwaited ==
  ASSUME NEW a, AssemblerInv(a), NEW packets, Tracks(a, packets), ~a.idle, a.cid = Watched
  PROVE  Len(packets) <= Announced(packets)
<1> DEFINE len == packets[1].len
           y == CONT_DATA * a.seq
<1>1. /\ Len(packets) = a.seq + 1 /\ a.remaining > 0
      /\ len = Len(a.payload) + a.remaining
  BY DEF Tracks, Framed
<1>2. /\ Len(a.payload) = INIT_DATA + y
      /\ a.seq \in Nat /\ a.remaining \in Nat /\ Len(a.payload) \in Nat
  BY PacketAssumption DEF AssemblerInv, Assembler
<1>3. y \in Nat /\ INIT_DATA \in Nat
  BY <1>2, PacketAssumption
<1>4. len \in Nat
  BY <1>1, <1>2
<1> HIDE DEF len, y
<1>5. ~(len <= INIT_DATA + y)
  BY <1>1, <1>2, <1>3
<1>6. continuations(len) \in Nat /\ ~(continuations(len) <= a.seq)
  BY <1>2, <1>4, <1>5, ContinuationsBound DEF y
<1>. QED  BY <1>1, <1>2, <1>6 DEF Announced, len

\* The packets of a message that was delivered are as many as they announced.
LEMMA AllArrived ==
  ASSUME NEW m \in Messages, NEW packets, Delivered(m, packets), packets[1] \in InitPackets
  PROVE  Len(packets) = 1 + Announced(packets)
<1> DEFINE len == Len(m.payload)
           n == Carried(len, 1)
           p == packets[1]
           q == split(m)[1]
<1>1. len \in Nat
  BY DEF Messages
<1>2. continuations(len) \in Nat
  BY <1>1, ContinuationsBound
<1>3. /\ Len(split(m)) = 1 + continuations(len) /\ 1 \in DOMAIN split(m)
      /\ q = [init |-> TRUE, cid |-> m.cid, cmd |-> m.cmd, len |-> len,
              data |-> consume_data(m.payload, 0, INIT_DATA)]
  BY <1>2 DEF split
<1>4. SameUpTo(p, q, n) /\ Len(packets) = Len(split(m))
  BY <1>3 DEF Delivered
<1>5. [p EXCEPT !.data = SubSeq(p.data, 1, n)].len = p.len
  BY DEF InitPackets
<1>6. [q EXCEPT !.data = SubSeq(q.data, 1, n)].len = len
  BY <1>3
<1> HIDE DEF p, q, n, len
<1>7. p.len = len
  BY <1>4, <1>5, <1>6 DEF SameUpTo
<1>. QED  BY <1>3, <1>4, <1>7 DEF Announced, p

\* A message is not NoMessage.
LEMMA IsMessage == \A m \in Messages : m # NoMessage
<1> SUFFICES ASSUME NEW m \in Messages PROVE m # NoMessage
  OBVIOUS
<1>1. m.payload \in Seq(Nat)
  <2> DEFINE payload == m.payload
  <2>1. payload \in Seq(Bytes)
    BY DEF Messages
  <2> HIDE DEF payload
  <2>2. payload \in [1 .. Len(payload) -> Nat] /\ Len(payload) \in Nat
    <3>1. payload \in [1 .. Len(payload) -> Bytes] /\ Len(payload) \in Nat
      BY <2>1
    <3>2. Bytes \subseteq Nat
      BY HidAssumption
    <3>. QED  BY <3>1, <3>2
  <2>3. payload \in Seq(Nat)
    BY <2>2
  <2>. QED  BY <2>3 DEF payload
<1>2. m \in [cid : Channels, cmd : Commands \cup {"ERROR"}, payload : Seq(Nat)]
  BY <1>1 DEF Messages
<1>. QED  BY <1>2, HidAssumption

\* A packet of Watched that leaves the stream unbroken is not rejected, unless
\* the message is complete already.
LEMMA NotRejected ==
  ASSUME HidInv, StreamInv, AcceptedInv, NEW packet \in Packets, packet.cid = Watched,
         process_hid_packet(packet), due' > 0,
         packet.init \/ Len(stream) <= Announced(stream)
  PROVE  parse_packet(assembler, packet, clock).result.kind # "error"
<1> DEFINE result == parse_packet(assembler, packet, clock).result
<1>1. /\ packet \in InitPackets \cup ContPackets /\ clock \in Timestamps
      /\ AssemblerInv(assembler) /\ ObserveWatched(packet) /\ due \in Nat
      /\ assembler \in Assembler
  BY HidAssumption, PacketAssumption DEF HidInv, TypeOK, process_hid_packet
<1>2. CASE packet.init
  <2>1. StepOf(assembler, packet, clock, parse_packet(assembler, packet, clock))
    BY <1>1, ParseStep
  <2>2. ResultInv(result)
    BY <1>1, ParseInv
  <2>3. reply' = NoMessage
    BY <1>1, <1>2, PacketAssumption DEF ObserveWatched
  <2>4. result.kind = "error" => reply' = ErrorReply(packet.cid, result.error)
    BY DEF process_hid_packet
  <2>5. result.kind = "error" => result.error # "UnexpectedContinuation"
    BY <1>2, <2>1 DEF StepOf
  <2> HIDE DEF result
  <2>6. /\ error_message(Watched, ERR_INVALID_CHANNEL) # NoMessage
        /\ error_message(Watched, ERR_CHANNEL_BUSY) # NoMessage
        /\ error_message(Watched, ERR_INVALID_SEQ) # NoMessage
        /\ error_message(Watched, ERR_MSG_TIMEOUT) # NoMessage
    BY ErrorIsMessage DEF ERR_INVALID_CHANNEL, ERR_CHANNEL_BUSY, ERR_INVALID_SEQ,
                          ERR_MSG_TIMEOUT
  <2>7. ASSUME result.kind = "error" PROVE FALSE
    <3>1. result.error \in {"UnexpectedChannel", "UnexpectedInit", "UnexpectedSeq", "Timeout"}
      BY <2>2, <2>5, <2>7 DEF ResultInv
    <3>2. ErrorReply(Watched, result.error) # NoMessage
      <4>1. is_allocated_channel(Watched) \in BOOLEAN
        BY DEF is_allocated_channel
      <4>. QED  BY <2>6, <3>1, <4>1 DEF ErrorReply
    <3>. QED  BY <2>3, <2>4, <2>7, <3>2
  <2>. QED  BY <2>7 DEF result
<1>3. CASE ~packet.init
  <2>1. packet \in ContPackets
    BY <1>1, <1>3 DEF InitPackets
  <2>2. due > 0 /\ packet.seq = Len(stream) - 1
    <3>1. due' = IF due > 0 /\ packet.seq = Len(stream) - 1 THEN TIMEOUT_DURATION ELSE 0
      BY <1>1, <1>3 DEF ObserveWatched
    <3>. QED  BY <3>1
  <2>3. /\ ~assembler.idle /\ assembler.cid = Watched
        /\ clock - assembler.last_timestamp + due <= TIMEOUT_DURATION
    BY <1>3, <2>2 DEF AcceptedInv
  <2>4. ~timed_out(assembler, clock)
    <3>1. assembler.last_timestamp \in Timestamps
      BY <1>1 DEF Assembler
    <3>. QED  BY <1>1, <2>2, <2>3, <3>1, PacketAssumption DEF timed_out, Timestamps
  <2>5. packet.seq = assembler.seq
    <3>1. Len(stream) = assembler.seq + 1 /\ assembler.seq \in Nat
      BY <1>1, <2>3, PacketAssumption DEF StreamInv, Tracks, Assembler
    <3>. QED  BY <2>2, <3>1
  <2> DEFINE b == [assembler EXCEPT !.last_timestamp = clock, !.seq = assembler.seq + 1]
  <2>6. parse_packet(assembler, packet, clock) = append_payload(b, packet.data)
    BY <1>3, <2>3, <2>4, <2>5 DEF parse_packet, expect_packet, accept_continuation
  <2>7. b \in Assembler /\ b.cid = packet.cid /\ b.last_timestamp = clock
    <3>1. assembler.seq + 1 \in 0 .. MAX_SEQ + 1
      BY <2>1, <2>5, PacketAssumption DEF ContPackets
    <3>. QED  BY <1>1, <2>3, <3>1 DEF Assembler
  <2> HIDE DEF b
  <2>. QED  BY <2>6, <2>7, AppendStep
<1>. QED  BY <1>2, <1>3, HidAssumption DEF InitPackets, ContPackets

\* What a step owes a host whose message was accepted.
AcceptedStep ==
  /\ stream' # stream /\ due' > 0
  /\ Len(stream') = 1 + continuations(stream'[1].len)
  => message' # NoMessage /\ message'.cid = Watched

\* A packet of Watched: the stream stays unbroken only if the assembler follows
\* it, and the last packet completes the message.
LEMMA AcceptedWatched ==
  ASSUME HidInv, StreamInv, AcceptedInv, NEW packet \in Packets, packet.cid = Watched,
         process_hid_packet(packet), HidInv', StreamInv', DeliveredAsSent'
  PROVE  AcceptedInv' /\ AcceptedStep
<1> DEFINE parsed == parse_packet(assembler, packet, clock)
           result == parsed.result
<1>1. /\ packet \in InitPackets \cup ContPackets /\ clock \in Timestamps
      /\ packet.init \in BOOLEAN /\ TypeOK
      /\ AssemblerInv(assembler) /\ ObserveWatched(packet) /\ clock' = clock
      /\ stream \in Seq(AnyPacket) /\ stream' \in Seq(AnyPacket)
  BY HidAssumption
     DEF HidInv, TypeOK, process_hid_packet, StreamInv, InitPackets, ContPackets
<1>2. assembler' = parsed.assembler
  BY DEF process_hid_packet
<1>3. StepOf(assembler, packet, clock, parsed) /\ ResultInv(result)
  BY <1>1, ParseStep, ParseInv
<1>4. /\ result.kind = "message" => message' = result.message
      /\ result.kind # "message" => message' = NoMessage
  BY <1>3 DEF process_hid_packet, ResultInv
<1>5. Len(stream') >= 1 => stream'[1] \in InitPackets
  <2>1. CASE packet.init
    <3>1. packet \in InitPackets /\ stream' = <<packet>>
      BY <1>1, <2>1 DEF ObserveWatched, InitPackets, ContPackets
    <3>. QED  BY <3>1
  <2>2. CASE ~packet.init
    <3>1. stream' = IF Len(stream) \in 1 .. MAX_SEQ + 1 THEN Append(stream, packet) ELSE <<>>
      BY <1>1, <2>2 DEF ObserveWatched
    <3>2. Len(stream) \in 1 .. MAX_SEQ + 1 => Append(stream, packet)[1] = stream[1]
      BY <1>1
    <3>. QED  BY <3>1, <3>2, PacketAssumption DEF AcceptedInv
  <2>. QED  BY <1>1, <2>1, <2>2
<1>6. CASE ~(due' > 0)
  BY <1>5, <1>6 DEF AcceptedInv, AcceptedStep, Announced
<1>7. CASE due' > 0
  <2>1. /\ Len(stream') >= 1
        /\ ~packet.init => /\ stream' = Append(stream, packet)
                           /\ Announced(stream') = Announced(stream)
                           /\ Len(stream') = Len(stream) + 1
    <3>1. CASE packet.init
      BY <1>1, <3>1 DEF ObserveWatched
    <3>2. CASE ~packet.init
      <4>1. due > 0 /\ packet.seq = Len(stream) - 1 /\ packet.seq \in 0 .. MAX_SEQ
        <5>1. due' = IF due > 0 /\ packet.seq = Len(stream) - 1 THEN TIMEOUT_DURATION ELSE 0
          BY <1>1, <3>2 DEF ObserveWatched
        <5>2. packet \in ContPackets
          BY <1>1, <3>2 DEF InitPackets
        <5>3. packet.seq \in 0 .. MAX_SEQ
          BY <5>2 DEF ContPackets
        <5>. QED  BY <1>7, <5>1, <5>3
      <4>2. Len(stream) \in 1 .. MAX_SEQ + 1
        <5>1. Len(stream) \in Nat
          BY <1>1
        <5>. QED  BY <4>1, <5>1, PacketAssumption
      <4>3. stream' = Append(stream, packet)
        BY <1>1, <3>2, <4>2 DEF ObserveWatched
      <4>4. Len(stream') = Len(stream) + 1 /\ stream'[1] = stream[1]
        BY <1>1, <4>2, <4>3, PacketAssumption
      <4>5. Announced(stream') = Announced(stream)
        BY <4>4 DEF Announced
      <4>. QED  BY <4>2, <4>3, <4>4, <4>5, PacketAssumption
    <3>. QED  BY <1>1, <3>1, <3>2
  <2>2. Len(stream') \in Nat /\ Len(stream) \in Nat /\ Announced(stream') \in Nat
    <3>1. stream'[1].len \in Nat
      <4> DEFINE p == stream'[1]
      <4>1. p \in InitPackets
        BY <1>5, <2>1
      <4> HIDE DEF p
      <4>2. p.len \in Nat
        BY <4>1, PacketAssumption DEF InitPackets
      <4>. QED  BY <4>2 DEF p
    <3>. QED  BY <1>1, <3>1, ContinuationsBound DEF Announced
  <2>3. CASE packet.init \/ Len(stream) <= Announced(stream)
    <3>1. result.kind # "error"
      BY <1>7, <2>3, NotRejected
    <3> HIDE DEF parsed, result
    <3>2. CASE result.kind = "more"
      <4>1. /\ ~assembler'.idle /\ assembler'.cid = Watched
            /\ assembler'.last_timestamp = clock
        BY <1>2, <1>3, <3>2 DEF StepOf, result
      <4>2. Len(stream') <= Announced(stream')
        BY <4>1, MoreAwaited DEF HidInv, StreamInv
      <4>3. due' <= TIMEOUT_DURATION /\ due' \in Nat
        BY <1>1, ObservedTimes, PacketAssumption
      <4>4. clock' - assembler'.last_timestamp + due' <= TIMEOUT_DURATION
        <5> DEFINE c == clock'
                   d == due'
                   t == assembler'.last_timestamp
        <5>1. c = clock /\ t = clock /\ d \in Nat /\ d <= TIMEOUT_DURATION /\ clock \in Int
          BY <1>1, <4>1, <4>3, PacketAssumption DEF Timestamps
        <5> HIDE DEF c, d, t
        <5>2. c - t + d <= TIMEOUT_DURATION
          BY <5>1, PacketAssumption
        <5>. QED  BY <5>2 DEF c, d, t
      <4>5. AcceptedInv'
        BY <1>5, <2>1, <4>1, <4>4 DEF AcceptedInv, Announced
      <4>6. AcceptedStep
        BY <2>2, <4>2 DEF AcceptedStep, Announced
      <4>. QED  BY <4>5, <4>6
    <3>3. CASE result.kind = "message"
      <4>1. /\ message' \in Messages /\ message' # NoMessage /\ message'.cid = Watched
        BY <1>3, <1>4, <3>3, IsMessage DEF ResultInv, StepOf, result
      <4>2. Delivered(message', stream')
        BY <4>1 DEF DeliveredAsSent, Delivered, split, continuations, consume_data, SameUpTo,
                    Carried
      <4>3. Len(stream') = 1 + Announced(stream')
        BY <1>5, <2>1, <4>1, <4>2, AllArrived
      <4>4. ~(Len(stream') <= Announced(stream'))
        BY <2>2, <4>3
      <4>5. AcceptedInv'
        BY <1>5, <2>1, <4>4 DEF AcceptedInv, Announced
      <4>. QED  BY <4>1, <4>5 DEF AcceptedStep
    <3>. QED  BY <1>3, <3>1, <3>2, <3>3 DEF ResultInv
  <2>4. CASE ~packet.init /\ ~(Len(stream) <= Announced(stream))
    <3>1. ~(Len(stream') <= Announced(stream')) /\ Len(stream') # 1 + Announced(stream')
      BY <2>1, <2>2, <2>4
    <3>2. AcceptedInv'
      BY <1>5, <2>1, <3>1 DEF AcceptedInv, Announced
    <3>3. AcceptedStep
      BY <3>1 DEF AcceptedStep, Announced
    <3>. QED  BY <3>2, <3>3
  <2>. QED  BY <2>3, <2>4
<1>. QED  BY <1>6, <1>7

\* A packet of another channel does not disturb a transaction of Watched.
LEMMA AcceptedOther ==
  ASSUME HidInv, AcceptedInv, NEW packet \in Packets, packet.cid # Watched,
         process_hid_packet(packet)
  PROVE  AcceptedInv' /\ AcceptedStep
<1>1. /\ clock \in Timestamps /\ due \in Nat /\ TypeOK
      /\ assembler \in Assembler /\ assembler.last_timestamp \in Timestamps
  BY PacketAssumption DEF HidInv, TypeOK, Assembler
<1>2. stream' = stream /\ due' = due /\ clock' = clock
  BY <1>1, ObservedTimes
<1>3. ASSUME due > 0, ~assembler.idle, assembler.cid = Watched,
             clock - assembler.last_timestamp + due <= TIMEOUT_DURATION
      PROVE  assembler' = assembler
  <2>1. ~timed_out(assembler, clock)
    BY <1>1, <1>3, PacketAssumption DEF timed_out, Timestamps
  <2>2. parse_packet(assembler, packet, clock) = Parsed(assembler, Err("UnexpectedChannel"))
    BY <1>3, <2>1 DEF parse_packet, expect_packet
  <2>. QED  BY <2>2 DEF process_hid_packet, Parsed
<1>4. AcceptedInv'
  BY <1>2, <1>3 DEF AcceptedInv, Announced
<1>. QED  BY <1>2, <1>4 DEF AcceptedStep

\* The passing of time brings the timeout no nearer than the next packet is due;
\* a wrap of the clock takes it away.
LEMMA AcceptedTick ==
  ASSUME HidInv, AcceptedInv, Tick
  PROVE  AcceptedInv' /\ AcceptedStep
<1>1. /\ clock \in Timestamps /\ due \in Nat /\ assembler.last_timestamp \in Timestamps
  BY PacketAssumption DEF HidInv, TypeOK, Assembler
<1>2. /\ stream' = stream /\ assembler' = assembler
      /\ due' = IF due > 0 THEN due - 1 ELSE 0
      /\ clock' = IF clock = HALF_PERIOD - 1 THEN -HALF_PERIOD ELSE clock + 1
  BY DEF Tick
<1>3. due' > 0 =>
        /\ due > 0
        /\ clock - assembler.last_timestamp + due <= TIMEOUT_DURATION =>
             clock' - assembler.last_timestamp + due' <= TIMEOUT_DURATION
  BY <1>1, <1>2, PacketAssumption DEF Timestamps
<1>4. AcceptedInv'
  BY <1>2, <1>3 DEF AcceptedInv, Announced
<1>. QED  BY <1>2, <1>4 DEF AcceptedStep

\* The invariant of what was accepted.
THEOREM AcceptedInvariant == Spec => []AcceptedInv
<1>1. Init => AcceptedInv
  BY DEF Init, AcceptedInv
<1>2. /\ HidInv /\ StreamInv /\ AcceptedInv /\ [Next]_vars
      /\ HidInv' /\ StreamInv' /\ DeliveredAsSent'
      => AcceptedInv'
  <2> SUFFICES ASSUME HidInv, StreamInv, AcceptedInv, [Next]_vars, HidInv', StreamInv',
                      DeliveredAsSent'
               PROVE  AcceptedInv'
    OBVIOUS
  <2>1. ASSUME NEW packet \in Packets, process_hid_packet(packet) PROVE AcceptedInv'
    BY <2>1, AcceptedWatched, AcceptedOther
  <2>2. CASE Tick
    BY <2>2, AcceptedTick
  <2>3. CASE UNCHANGED vars
    <3>1. /\ stream' = stream /\ due' = due /\ assembler' = assembler /\ clock' = clock
      BY <2>3 DEF vars, histories
    <3>. QED  BY <3>1 DEF AcceptedInv, Announced
  <2>. QED  BY <2>1, <2>2, <2>3 DEF Next
<1>. QED  BY <1>1, <1>2, HidInvariant, StreamInvariant, PTL DEF Spec

\* A message whose first packet was accepted, and whose continuations come in
\* order and in time, is delivered with the last of them, whatever other hosts
\* send in between and whether or not the clock wraps.
THEOREM AcceptedMessagesDelivered == Spec => AcceptedIsDelivered
<1>1. /\ HidInv /\ StreamInv /\ AcceptedInv /\ [Next]_vars
      /\ HidInv' /\ StreamInv' /\ DeliveredAsSent'
      => [AcceptedStep]_vars
  <2> SUFFICES ASSUME HidInv, StreamInv, AcceptedInv, Next, HidInv', StreamInv',
                      DeliveredAsSent'
               PROVE  AcceptedStep
    OBVIOUS
  <2>1. ASSUME NEW packet \in Packets, process_hid_packet(packet) PROVE AcceptedStep
    BY <2>1, AcceptedWatched, AcceptedOther
  <2>2. CASE Tick
    BY <2>2, AcceptedTick
  <2>. QED  BY <2>1, <2>2 DEF Next
<1>2. [][AcceptedStep]_vars => AcceptedIsDelivered
  BY PTL DEF AcceptedIsDelivered, AcceptedStep
<1>. QED  BY <1>1, <1>2, HidInvariant, StreamInvariant, AcceptedInvariant, PTL DEF Spec

-----------------------------------------------------------------------------
\* Resynchronisation.

\* What a step owes a host that sends INIT on its channel.
Resync ==
  /\ stream' # stream /\ Len(stream') = 1
  /\ stream'[1].cmd = "INIT" /\ stream'[1].len = NonceLen
  /\ is_allocated_channel(Watched) /\ Watched # BROADCAST
  /\ others >= TIMEOUT_DURATION /\ stale = {}
  => reply' \in {Message(Watched, "INIT", SubSeq(stream'[1].data, 1, NonceLen)
                                           \o <<Watched>>),
                  error_message(Watched, ERR_MSG_TIMEOUT)}

\* A first packet that has all the bytes of its message completes it.
LEMMA InitCompletes ==
  ASSUME NEW a \in Assembler, a.payload = <<>>, NEW packet \in InitPackets,
         packet.len <= INIT_DATA, NEW time \in Timestamps
  PROVE  accept_init_packet(a, packet, time).result =
           Complete(packet.cid, packet.cmd, SubSeq(packet.data, 1, packet.len))
<1> DEFINE b == [a EXCEPT !.cid = packet.cid, !.last_timestamp = time,
                          !.cmd = packet.cmd,
                          !.seq = 0, !.remaining = packet.len]
<1>1. packet.data \in Seq(Bytes) /\ Len(packet.data) = INIT_DATA /\ packet.len \in Nat
  <2>1. packet.data \in [1 .. INIT_DATA -> Bytes] /\ packet.len \in 0 .. MAX_LEN
    BY DEF InitPackets
  <2>. QED  BY <2>1, DataIsSequence, PacketAssumption
<1>2. /\ b.payload = <<>> /\ b.cmd = packet.cmd /\ b.cid = packet.cid
      /\ b.remaining = packet.len
  BY DEF Assembler
<1>3. accept_init_packet(a, packet, time) = append_payload(b, packet.data)
  BY DEF accept_init_packet
<1> HIDE DEF b
<1>4. ~(Len(packet.data) < b.remaining)
  BY <1>1, <1>2, PacketAssumption
<1>5. append_payload(b, packet.data).result
        = Complete(b.cid, b.cmd, b.payload \o SubSeq(packet.data, 1, b.remaining))
  BY <1>4 DEF append_payload, Parsed
<1>6. <<>> \o SubSeq(packet.data, 1, packet.len) = SubSeq(packet.data, 1, packet.len)
  BY <1>1, <1>4, <1>2
<1>. QED  BY <1>2, <1>3, <1>5, <1>6

\* INIT on a channel that no other disturbs completes at once or reports the
\* timeout of the transaction that it ends.
LEMMA InitParsed ==
  ASSUME HidInv, others >= TIMEOUT_DURATION, stale = {}, NEW packet \in InitPackets,
         packet.cid = Watched, packet.cmd = "INIT", packet.len = NonceLen
  PROVE  parse_packet(assembler, packet, clock).result \in
           {Complete(Watched, "INIT", SubSeq(packet.data, 1, NonceLen)), Err("Timeout")}
<1>1. /\ assembler \in Assembler /\ assembler.idle \in BOOLEAN
      /\ assembler.idle => assembler.payload = <<>>
      /\ Reset \in Assembler /\ Reset.payload = <<>> /\ clock \in Timestamps
  BY ResetInv DEF HidInv, TypeOK, AssemblerInv, Assembler, Reset
<1>2. packet.init = TRUE /\ packet.len <= INIT_DATA
  BY HidAssumption DEF InitPackets
<1>3. ~assembler.idle /\ assembler.cid # Watched =>
        clock - assembler.last_timestamp >= TIMEOUT_DURATION
  <2>1. /\ assembler.last_timestamp \in Timestamps /\ clock \in Timestamps
        /\ others \in 0 .. TIMEOUT_DURATION
    BY DEF HidInv, TypeOK, Assembler
  <2>. QED  BY <2>1, PacketAssumption DEF HidInv, OthersInv, Timestamps
<1>4. ASSUME NEW e \in Assembler, e.payload = <<>>
      PROVE  accept_init_packet(e, packet, clock).result
               = Complete(Watched, "INIT", SubSeq(packet.data, 1, NonceLen))
  BY <1>1, <1>2, <1>4, InitCompletes
<1>5. CASE assembler.idle
  <2>1. parse_packet(assembler, packet, clock) = accept_init_packet(assembler, packet, clock)
    BY <1>2, <1>5 DEF parse_packet, expect_packet, timed_out
  <2>. QED  BY <1>1, <1>4, <1>5, <2>1
<1>6. CASE timed_out(assembler, clock) /\ assembler.cid = Watched
  <2>1. parse_packet(assembler, packet, clock) = Parsed(Reset, Err("Timeout"))
    BY <1>6 DEF parse_packet
  <2>. QED  BY <2>1 DEF Parsed
<1>7. CASE timed_out(assembler, clock) /\ assembler.cid # Watched
  <2>1. parse_packet(assembler, packet, clock) = expect_packet(Reset, packet, clock)
    BY <1>7 DEF parse_packet
  <2>2. expect_packet(Reset, packet, clock) = accept_init_packet(Reset, packet, clock)
    BY <1>2 DEF expect_packet, Reset
  <2>. QED  BY <1>1, <1>4, <2>1, <2>2
<1>8. CASE ~assembler.idle /\ ~timed_out(assembler, clock)
  <2>1. parse_packet(assembler, packet, clock) = expect_packet(assembler, packet, clock)
    BY <1>8 DEF parse_packet
  <2>2. assembler.cid = Watched
    BY <1>3, <1>8 DEF timed_out
  <2>3. expect_packet(assembler, packet, clock) = accept_init_packet(Reset, packet, clock)
    BY <1>2, <1>8, <2>2 DEF expect_packet
  <2>. QED  BY <1>1, <1>4, <2>1, <2>3
<1>. QED  BY <1>1, <1>5, <1>6, <1>7, <1>8 DEF timed_out

\* A host can resynchronise its channel when the others are silent and none of
\* them stopped in the middle of a message before the clock wrapped.
THEOREM HostsResynchronise == Spec => ResyncAnswered
<1>1. ASSUME HidInv, StreamInv, [Next]_vars
      PROVE  Resync
  <2> SUFFICES ASSUME stream' # stream, Len(stream') = 1,
                      stream'[1].cmd = "INIT", stream'[1].len = NonceLen,
                      is_allocated_channel(Watched), Watched # BROADCAST,
                      others >= TIMEOUT_DURATION, stale = {}
               PROVE  reply' \in {Message(Watched, "INIT",
                                          SubSeq(stream'[1].data, 1, NonceLen) \o <<Watched>>),
                                  error_message(Watched, ERR_MSG_TIMEOUT)}
    BY DEF Resync
  <2>1. PICK packet \in Packets : process_hid_packet(packet)
    BY <1>1 DEF Next, Tick, vars, histories
  <2>2. packet.cid = Watched /\ packet.init /\ stream' = <<packet>>
    <3>1. stream \in Seq(AnyPacket) /\ TypeOK /\ packet.init \in BOOLEAN
      BY <1>1, HidAssumption DEF HidInv, StreamInv, InitPackets, ContPackets
    <3>2. packet.cid = Watched
      BY <2>1, <3>1, ObservedTimes
    <3>3. ObserveWatched(packet)
      BY <2>1, <3>2 DEF process_hid_packet
    <3>4. CASE ~packet.init
      <4>1. stream' = IF Len(stream) \in 1 .. MAX_SEQ + 1 THEN Append(stream, packet) ELSE <<>>
        BY <3>3, <3>4 DEF ObserveWatched
      <4>2. Len(<<>>) = 0 /\ Len(Append(stream, packet)) = Len(stream) + 1 /\ Len(stream) \in Nat
        BY <3>1
      <4>. QED  BY <4>1, <4>2
    <3>5. CASE packet.init
      BY <3>2, <3>3, <3>5 DEF ObserveWatched
    <3>. QED  BY <3>1, <3>4, <3>5
  <2>3. /\ packet \in InitPackets /\ stream'[1] = packet
        /\ packet.cmd = "INIT" /\ packet.len = NonceLen
    BY <2>2, HidAssumption DEF InitPackets, ContPackets
  <2>4. Watched # BROADCAST /\ is_allocated_channel(Watched)
    OBVIOUS
  <2> DEFINE result == parse_packet(assembler, packet, clock).result
             nonce == SubSeq(packet.data, 1, NonceLen)
  <2>5. result \in {Complete(Watched, "INIT", nonce), Err("Timeout")}
    BY <1>1, <2>2, <2>3, InitParsed
  <2>6. \/ result.kind = "message" /\ ProcessMessage(result.message)
        \/ result.kind = "more"
        \/ result.kind = "error" /\ reply' = ErrorReply(packet.cid, result.error)
    BY <2>1 DEF process_hid_packet
  <2>7. packet.data \in Seq(Bytes) /\ Len(packet.data) = INIT_DATA
    <3>1. packet.data \in [1 .. INIT_DATA -> Bytes]
      BY <2>3 DEF InitPackets
    <3>. QED  BY <3>1, DataIsSequence, PacketAssumption
  <2>8. Len(nonce) = NonceLen
    BY <2>7, HidAssumption
  <2> HIDE DEF result, nonce
  <2>9. CASE result = Complete(Watched, "INIT", nonce)
    <3> DEFINE m == [cid |-> Watched, cmd |-> "INIT", payload |-> nonce]
    <3>1. result.kind = "message" /\ result.message = m
      BY <2>9 DEF Complete
    <3>2. m.cid = Watched /\ m.cmd = "INIT" /\ m.payload = nonce
      OBVIOUS
    <3> HIDE DEF m
    <3>3. ProcessMessage(m) /\ has_valid_channel(m)
      BY <2>4, <2>6, <3>1, <3>2 DEF has_valid_channel
    <3>4. CommandInit(m)
      BY <3>2, <3>3 DEF ProcessMessage, CommandMsg, CommandCbor, CommandPing, CommandCancel,
                        CommandWink, CommandOther
    <3>5. reply' = Message(Watched, "INIT", nonce \o <<Watched>>)
      BY <2>4, <2>8, <3>2, <3>4 DEF CommandInit
    <3>. QED  BY <2>3, <3>5 DEF nonce
  <2>10. CASE result = Err("Timeout")
    <3>1. result.kind = "error" /\ result.error = "Timeout"
      BY <2>10 DEF Err
    <3>2. reply' = ErrorReply(Watched, "Timeout")
      BY <2>2, <2>6, <3>1
    <3>3. ErrorReply(Watched, "Timeout") = error_message(Watched, ERR_MSG_TIMEOUT)
      BY <2>4 DEF ErrorReply
    <3>. QED  BY <3>2, <3>3
  <2>. QED  BY <2>5, <2>9, <2>10
<1>2. [][Resync]_vars => ResyncAnswered
  BY PTL DEF ResyncAnswered, Resync
<1>. QED  BY <1>1, <1>2, HidInvariant, StreamInvariant, PTL DEF Spec

=============================================================================
