---------------------------- MODULE DeviceProofs ----------------------------
(***************************************************************************)
(* Proofs about the application of Device on the USB driver of UsbHid, for *)
(* any packets, any durations and any number of iterations.                *)
(***************************************************************************)
EXTENDS Device, NatLemmas, SequenceTheorems

Callbacks == {"received", "transmitted", "alarm", "button"}

UsbStates ==
  [side : {"none", "receive", "transmit_or_receive"}, waiting : BOOLEAN, allowed : BOOLEAN,
   tx_packet : {"none", "current"}, pending_in : BOOLEAN, pending_out : BOOLEAN,
   delayed_out : Packets \union {NoPacket}, in_buffer : {"none", "current", "abandoned"},
   buffer : Packets \union {NoPacket}, callbacks : Seq(Callbacks), panic : BOOLEAN,
   taken : {"none", "current", "abandoned"}]

\* A callback is scheduled.
In(callbacks, c) == \E i \in DOMAIN callbacks : callbacks[i] = c
Scheduled(c) == In(usb.callbacks, c)

Calling == pc \in {"receiving", "notifying", "keeping", "replying"}
Checking ==
  pc \in {"notify", "notifying", "poll", "polling", "keepalive", "keeping", "checked"}
Replying == pc \in {"reply", "replying"}
Receiving == pc \in {"receive", "receiving"}

Ages == [asked : 0 .. OLD, touch : 0 .. OLD, get : 0 .. OLD, cleanup : 0 .. HALF_PERIOD]

TypeInv ==
  /\ Running => Checking \/ Replying \/ Receiving
  /\ usb \in UsbStates
  /\ status \in {"none", "received", "sent"}
  /\ request \in Packets \union {NoPacket}
  /\ result \in {"none", "u2f", "refused", "next", "not_allowed", "get", "cancelled", "timeout"}
  /\ <<buttons, touched, cancelled, pressed>> \in BOOLEAN \X BOOLEAN \X BOOLEAN \X BOOLEAN
  /\ ages \in Ages

\* What the kernel owes the application.
UsbInv ==
  /\ ~usb.panic /\ panic = "no"
  /\ usb.waiting => /\ Calling /\ status = "none"
                    /\ usb.pending_out \/ usb.taken = "abandoned"
                    /\ ~Scheduled("received") /\ ~Scheduled("transmitted")
  /\ ~usb.waiting => ~usb.pending_out /\ ~usb.pending_in /\ usb.tx_packet = "none"
  /\ Calling => /\ usb.allowed
                /\ usb.side = IF pc = "receiving" THEN "receive" ELSE "transmit_or_receive"
  /\ ~Calling => /\ ~usb.allowed /\ usb.side = "none" /\ status = "none"
                 /\ usb.in_buffer # "current" /\ usb.buffer = NoPacket
                 /\ ~Scheduled("received") /\ ~Scheduled("transmitted")
  /\ usb.waiting => IF usb.side = "receive"
                    THEN usb.tx_packet = "none" /\ usb.in_buffer # "current"
                    ELSE (usb.tx_packet = "current") <=> (usb.in_buffer # "current")
  /\ Scheduled("transmitted") => usb.taken = "current"
  /\ status = "received" \/ Scheduled("received") => usb.buffer # NoPacket

IsCancel(p) == p # NoPacket /\ p.cmd = "cancel"

\* What the check of the user's presence has seen.
CheckInv ==
  /\ Checking => request # NoPacket /\ result = "none"
  /\ Receiving => ~cancelled /\ result = "none" /\ request = NoPacket
  /\ buttons => pc \notin {"receive", "notify", "notifying", "reply", "replying"}
  /\ ~buttons => ~touched /\ ~Scheduled("button")
  /\ Checking /\ (touched \/ Scheduled("button")) => pressed
  /\ Checking /\ IsCancel(usb.delayed_out) => usb.delayed_out.cid \in cancels
  /\ Checking /\ IsCancel(usb.buffer) => usb.buffer.cid \in cancels
  /\ cancelled => request # NoPacket /\ request.cid \in cancels

\* A permission of the U2F state against the time since it was granted and since
\* the state was cleaned up.  A grant that is not over is never lost.  What is
\* kept is no older than the last clean-up, so that half a period of the clock
\* tells whether it expired; after half a period it does not.
Counted(x, age, duration, cleanup) ==
  /\ x # Waiting => x \in Int /\ -HALF_PERIOD <= x /\ x < HALF_PERIOD
  /\ age < duration => x # Waiting /\ x + age >= duration
  /\ cleanup < HALF_PERIOD /\ x # Waiting =>
       /\ x >= 1 - cleanup
       /\ x > 0 => x + age = duration

ClockInv ==
  /\ Counted(needs_up, ages.asked, REQUEST_DURATION, ages.cleanup)
  /\ Counted(has_up, ages.touch, PRESENCE_DURATION, ages.cleanup)
  /\ permission # Waiting =>
       /\ permission \in Int /\ permission < HALF_PERIOD
       /\ permission >= IF Receiving THEN -1 ELSE IF Replying THEN 0 ELSE 1
       /\ command_type = "get" /\ permission > 0 => permission + ages.get <= STATEFUL_DURATION
  /\ wink_permission # Waiting =>
       /\ wink_permission \in Int /\ wink_permission <= WINK_DURATION
       /\ wink_permission >= IF Receiving THEN 0 ELSE 1
  /\ Checking => /\ needs_up = Waiting /\ has_up = Waiting /\ wink_permission = Waiting
                 /\ command_type = "none" /\ ages.get = 0

DeviceInv ==
  /\ TypeInv
  /\ Running => UsbInv /\ CheckInv /\ ClockInv
  /\ PresenceJustified
  /\ PermissionsFresh
  /\ SentIsTaken
  /\ KernelPanicsOnlyOnStale

-----------------------------------------------------------------------------
\* Callbacks.

\* f[i] is what is left of the first i elements of s, for i up to n.
Prefix(s, dropped, n, f) ==
  /\ f \in [0 .. n -> Seq({s[i] : i \in DOMAIN s} \ dropped)]
  /\ f[0] = <<>>
  /\ \A i \in 1 .. n : f[i] = IF s[i] \in dropped THEN f[i - 1] ELSE Append(f[i - 1], s[i])

\* Such a function exists for every prefix.
LEMMA PrefixExists ==
  ASSUME NEW S, NEW s \in Seq(S), NEW dropped, NEW n \in 0 .. Len(s)
  PROVE  \E f : Prefix(s, dropped, n, f)
<1> DEFINE Bad == {m \in 0 .. Len(s) : ~\E f : Prefix(s, dropped, m, f)}
           R == {s[i] : i \in DOMAIN s} \ dropped
<1> SUFFICES ASSUME Bad # {} PROVE FALSE
  OBVIOUS
<1>1. Bad \in SUBSET Nat
  OBVIOUS
<1>2. PICK m \in Bad : \A k \in Bad : m <= k
  BY <1>1, LeastNat
<1>3. m # 0
  <2>1. Prefix(s, dropped, 0, [i \in 0 .. 0 |-> <<>>])
     <3> DEFINE e == <<>>
     <3>1. e \in Seq({s[i] : i \in DOMAIN s} \ dropped)
       OBVIOUS
     <3>2. e = <<>>
       OBVIOUS
     <3> HIDE DEF e
     <3>3. Prefix(s, dropped, 0, [i \in 0 .. 0 |-> e])
     BY <3>1, <3>2 DEF Prefix
     <3> QED BY <3>2, <3>3
  <2> QED BY <2>1
<1>4. m - 1 \in 0 .. Len(s) /\ m - 1 \notin Bad /\ m \in 1 .. Len(s)
  BY <1>2, <1>3
<1>5. PICK f : Prefix(s, dropped, m - 1, f)
  BY <1>4
<1> DEFINE x == IF s[m] \in dropped THEN f[m - 1] ELSE Append(f[m - 1], s[m])
           g == [i \in 0 .. m |-> IF i = m THEN x ELSE f[i]]
<1>6. x \in Seq(R)
  <2>1. f[m - 1] \in Seq(R)
    BY <1>4, <1>5 DEF Prefix
  <2>2. s[m] \notin dropped => s[m] \in R
    BY <1>4
  <2> HIDE DEF R
  <2> QED BY <2>1, <2>2
<1>7. g \in [0 .. m -> Seq(R)]
  <2>1. \A i \in 0 .. m : i # m => f[i] \in Seq(R)
    BY <1>4, <1>5 DEF Prefix
  <2> HIDE DEF x, R
  <2> QED BY <1>6, <2>1
<1>8. g[0] = <<>>
  BY <1>4, <1>5 DEF Prefix
<1>9. \A i \in 1 .. m : g[i] = IF s[i] \in dropped THEN g[i - 1] ELSE Append(g[i - 1], s[i])
  <2> TAKE i \in 1 .. m
  <2>1. CASE i = m
    <3>1. g[m] = x /\ g[m-1] = f[m-1]
       BY <1>4
    <3> QED BY <2>1, <3>1
  <2>2. CASE i # m
    <3>1. i \in 1 .. m - 1 /\ g[i] = f[i] /\ g[i-1] = f[i-1]
       BY <1>4, <2>2
    <3> HIDE DEF g
    <3> QED BY <1>5, <3>1 DEF Prefix
  <2> QED BY <2>1, <2>2
<1>10. Prefix(s, dropped, m, g)
  BY <1>7, <1>8, <1>9 DEF Prefix
<1> QED BY <1>2, <1>10

\* What is left has only callbacks that were there and were not dropped.
LEMMA WithoutIs ==
  ASSUME NEW S, NEW s \in Seq(S), NEW dropped
  PROVE  Without(s, dropped) \in Seq({s[i] : i \in DOMAIN s} \ dropped)
<1> DEFINE n == Len(s)
           R == {s[i] : i \in DOMAIN s} \ dropped
           Value(k, i) == IF i = 0 THEN <<>>
                          ELSE IF s[i] \in dropped THEN k[i - 1] ELSE Append(k[i - 1], s[i])
           kept == CHOOSE k : k = [i \in 0 .. n |-> Value(k, i)]
<1>1. n \in 0 .. Len(s) /\ n \in Nat
  OBVIOUS
<1>2. \E f : f = [i \in 0 .. n |-> Value(f, i)]
  <2>1. PICK f : Prefix(s, dropped, n, f)
    BY <1>1, PrefixExists
  <2>2. f = [i \in 0 .. n |-> f[i]]
    BY <2>1 DEF Prefix
  <2>3. ASSUME NEW i \in 0 .. n PROVE f[i] = Value(f, i)
    <3>1. CASE i = 0
      BY <2>1, <3>1 DEF Prefix
    <3>2. CASE i # 0
      <4>1. i \in 1 .. n
        BY <3>2
      <4> QED BY <2>1, <3>2, <4>1 DEF Prefix
    <3> QED BY <3>1, <3>2
  <2> HIDE DEF Value
  <2> QED BY <2>2, <2>3
<1>3. kept = [i \in 0 .. n |-> Value(kept, i)]
  <2> HIDE DEF Value
  <2> QED BY <1>2
<1>4. Without(s, dropped) = kept[n]
  BY DEF Without
<1> HIDE DEF kept
<1>5. \A i \in 0 .. n : kept[i] = Value(kept, i)
  <2> HIDE DEF Value
  <2> QED BY <1>3
<1>6. Value(kept, 0) \in Seq(R)
  OBVIOUS
<1>7. ASSUME NEW i \in 1 .. n, kept[i - 1] \in Seq(R) PROVE Value(kept, i) \in Seq(R)
  <2>1. s[i] \notin dropped => s[i] \in R
    OBVIOUS
  <2>2. i # 0
    OBVIOUS
  <2> HIDE DEF R
  <2> QED BY <1>7, <2>1, <2>2
<1> HIDE DEF Value, R
<1> DEFINE Bad == {m \in 0 .. n : kept[m] \notin Seq(R)}
<1>8. ASSUME Bad # {} PROVE FALSE
  <2>1. Bad \in SUBSET Nat
    OBVIOUS
  <2>2. PICK m \in Bad : \A k \in Bad : m <= k
    BY <1>8, <2>1, LeastNat
  <2>3. m # 0
    BY <1>1, <1>5, <1>6, <2>2
  <2>4. m \in 1 .. n /\ m - 1 \in 0 .. n /\ kept[m - 1] \in Seq(R)
    BY <1>1, <2>2, <2>3
  <2>5. kept[m] \in Seq(R)
    BY <1>5, <1>7, <2>4
  <2> QED BY <2>2, <2>5
<1>9. kept[n] \in Seq(R)
  BY <1>1, <1>8
<1> QED BY <1>4, <1>9 DEF R

\* So no callback appears when some are dropped.
LEMMA WithoutIn ==
  ASSUME NEW s \in Seq(Callbacks), NEW dropped
  PROVE  /\ Without(s, dropped) \in Seq(Callbacks)
         /\ \A c : In(Without(s, dropped), c) => In(s, c) /\ c \notin dropped
<1> DEFINE R == {s[i] : i \in DOMAIN s} \ dropped
           w == Without(s, dropped)
<1>1. w \in Seq(R)
  BY WithoutIs
<1>2. R \subseteq Callbacks
  OBVIOUS
<1>3. \A i \in DOMAIN w : w[i] \in R
  BY <1>1
<1>4. \A c \in R : In(s, c) /\ c \notin dropped
  BY DEF In
<1>5. w \in Seq(Callbacks)
  BY <1>1, <1>2
<1> HIDE DEF w, R
<1>6. \A c : In(w, c) => c \in R
  BY <1>3 DEF In
<1> QED
  BY <1>4, <1>5, <1>6 DEF w

\* The callbacks after one more is scheduled.
LEMMA AppendIn ==
  ASSUME NEW s \in Seq(Callbacks), NEW c \in Callbacks
  PROVE  /\ Append(s, c) \in Seq(Callbacks)
         /\ \A x : In(Append(s, c), x) <=> In(s, x) \/ x = c
<1>1. /\ Append(s, c) \in Seq(Callbacks) /\ DOMAIN Append(s, c) = 1 .. Len(s) + 1
      /\ DOMAIN s = 1 .. Len(s) /\ Len(s) \in Nat
  OBVIOUS
<1>2. Append(s, c)[Len(s) + 1] = c /\ \A i \in 1 .. Len(s) : Append(s, c)[i] = s[i]
  OBVIOUS
<1> QED
  BY <1>1, <1>2 DEF In

\* The callbacks after the first one is executed.
LEMMA TailIn ==
  ASSUME NEW s \in Seq(Callbacks), s # <<>>
  PROVE  /\ Tail(s) \in Seq(Callbacks)
         /\ Head(s) \in Callbacks /\ In(s, Head(s))
         /\ \A x : In(Tail(s), x) => In(s, x)
<1>1. /\ Tail(s) \in Seq(Callbacks) /\ DOMAIN Tail(s) = 1 .. Len(s) - 1
      /\ DOMAIN s = 1 .. Len(s) /\ Len(s) \in Nat /\ Len(s) >= 1
      /\ Head(s) = s[1]
  OBVIOUS
<1>2. \A i \in 1 .. Len(s) - 1 : Tail(s)[i] = s[i + 1]
  OBVIOUS
<1>3. 1 \in DOMAIN s /\ \A i \in 1 .. Len(s) - 1 : i + 1 \in DOMAIN s
  BY <1>1
<1> QED
  BY <1>1, <1>2, <1>3 DEF In

-----------------------------------------------------------------------------
\* The USB driver.

\* No transfer is under way.
Quiet(k) == ~k.waiting /\ ~k.pending_in /\ ~k.pending_out /\ k.tx_packet = "none"

\* A call succeeds, and gets the packet that was held back, if there is one.
Started(k, side, s) ==
  /\ s \in UsbStates
  /\ s.side = side /\ s.allowed /\ ~s.panic /\ s.delayed_out = NoPacket
  /\ s.in_buffer = k.in_buffer /\ s.taken = k.taken
  /\ k.delayed_out = NoPacket =>
       /\ s.waiting /\ s.pending_out /\ s.callbacks = k.callbacks /\ s.buffer = k.buffer
       /\ s.tx_packet = IF side = "receive" THEN "none" ELSE "current"
  /\ k.delayed_out # NoPacket =>
       /\ Quiet(s)
       /\ s.callbacks = Append(k.callbacks, "received") /\ s.buffer = k.delayed_out

\* The packet that was held back is received at once.
LEMMA ReceivePacket ==
  ASSUME NEW k \in UsbStates, k.waiting, k.allowed, k.side # "none", ~k.pending_in,
         ~k.pending_out, k.tx_packet = "none", ~k.panic
  PROVE  IF k.delayed_out = NoPacket
         THEN receive_packet(k) = [k EXCEPT !.pending_out = TRUE, !.delayed_out = NoPacket]
         ELSE Started(k, k.side, receive_packet(k))
<1> DEFINE ready == [k EXCEPT !.pending_out = TRUE, !.delayed_out = NoPacket]
<1>1. ready \in UsbStates
  BY DEF UsbStates
<1>2. CASE k.delayed_out = NoPacket
  BY <1>1, <1>2 DEF receive_packet
<1>3. CASE k.delayed_out # NoPacket
  <2> DEFINE s == [ready EXCEPT !.pending_out = FALSE, !.tx_packet = "none", !.pending_in = FALSE,
                                !.waiting = FALSE, !.buffer = k.delayed_out,
                                !.callbacks = Append(k.callbacks, "received")]
  <2>1. /\ ready.waiting /\ ready.side # "none" /\ ready.allowed /\ ready.pending_out
        /\ ready.callbacks = k.callbacks /\ ready.side = k.side /\ ~ready.panic
        /\ ready.in_buffer = k.in_buffer /\ ready.taken = k.taken
        /\ ready.delayed_out = NoPacket
    BY DEF UsbStates
  <2>2. k.callbacks \in Seq(Callbacks) /\ k.delayed_out \in Packets
    BY <1>3 DEF UsbStates
  <2>3. Append(k.callbacks, "received") \in Seq(Callbacks)
    BY <2>2, AppendIn DEF Callbacks
  <2> HIDE DEF ready
  <2>4. receive_packet(k) = s
    <3>1. receive_packet(k) = send_packet_to_client(ready, k.delayed_out)
      BY <1>3 DEF receive_packet, ready
    <3> DEFINE t == cancel_in_transaction([ready EXCEPT !.pending_out = FALSE])
    <3>2. t = [ready EXCEPT !.pending_out = FALSE, !.tx_packet = "none", !.pending_in = FALSE]
      BY DEF cancel_in_transaction
    <3>3. send_packet_to_client(ready, k.delayed_out) = packet_received(t, k.delayed_out)
      BY <2>1 DEF send_packet_to_client, can_receive_packet
    <3>4. /\ t.waiting /\ t.side # "none" /\ t.allowed /\ t.callbacks = k.callbacks
      BY <1>1, <2>1, <3>2 DEF UsbStates
    <3> HIDE DEF t
    <3>5. packet_received(t, k.delayed_out)
            = [t EXCEPT !.waiting = FALSE, !.buffer = k.delayed_out,
                        !.callbacks = Append(k.callbacks, "received")]
      BY <3>4 DEF packet_received, can_receive_packet
    <3> QED
      BY <3>1, <3>2, <3>3, <3>5
  <2>5. s \in UsbStates
    BY <1>1, <2>2, <2>3 DEF UsbStates
  <2>6. /\ s.side = ready.side /\ s.allowed = ready.allowed /\ s.panic = ready.panic
        /\ s.delayed_out = ready.delayed_out /\ s.in_buffer = ready.in_buffer
        /\ s.taken = ready.taken /\ ~s.waiting /\ ~s.pending_out /\ ~s.pending_in
        /\ s.tx_packet = "none" /\ s.buffer = k.delayed_out
        /\ s.callbacks = Append(k.callbacks, "received")
    BY <1>1 DEF UsbStates
  <2> HIDE DEF s
  <2> QED
    BY <1>3, <2>1, <2>4, <2>5, <2>6 DEF Started, Quiet
<1> QED
  BY <1>2, <1>3

\* The first half of a call, when no call is under way.
LEMMA StartCall ==
  ASSUME NEW k \in UsbStates, Quiet(k), k.side = "none", ~k.panic,
         NEW side \in {"receive", "transmit_or_receive"}
  PROVE  start_call(k, side).ok /\ Started(k, side, start_call(k, side).k)
<1> DEFINE a == [k EXCEPT !.side = side, !.allowed = TRUE]
           b == [a EXCEPT !.waiting = TRUE]
           r == receive_packet(b)
<1>1. a \in UsbStates /\ b \in UsbStates
  BY DEF UsbStates
<1>2. /\ ~a.waiting
      /\ b.waiting /\ b.allowed /\ b.side = side /\ b.side # "none" /\ ~b.pending_in
      /\ ~b.pending_out /\ b.tx_packet = "none" /\ ~b.panic
      /\ b.delayed_out = k.delayed_out /\ b.in_buffer = k.in_buffer /\ b.taken = k.taken
      /\ b.callbacks = k.callbacks /\ b.buffer = k.buffer
  BY DEF UsbStates, Quiet
<1>3. start_call(k, side) = IF side = "receive" THEN command_receive(a)
                            ELSE command_transmit_or_receive(a)
  BY DEF start_call, allow_and_subscribe, Succeeded, Failed
<1>4. command_receive(a) = Succeeded(r)
  BY <1>2 DEF command_receive
<1>5. command_transmit_or_receive(a) =
        IF ~r.waiting THEN Succeeded(r)
        ELSE IF r.pending_in THEN Failed(r) ELSE Succeeded(transmit_packet(r))
  BY <1>2 DEF command_transmit_or_receive
<1> HIDE DEF a
<1>6. IF b.delayed_out = NoPacket
      THEN r = [b EXCEPT !.pending_out = TRUE, !.delayed_out = NoPacket]
      ELSE Started(b, side, r)
  <2> HIDE DEF b
  <2> QED
    BY <1>1, <1>2, ReceivePacket
<1>7. CASE k.delayed_out # NoPacket
  <2>1. Started(b, side, r)
    BY <1>2, <1>6, <1>7
  <2>2. ~r.waiting
    BY <1>2, <1>7, <2>1 DEF Started, Quiet
  <2>3. start_call(k, side) = Succeeded(r)
    BY <1>3, <1>4, <1>5, <2>2
  <2> HIDE DEF b, r
  <2>4. Started(k, side, r)
    BY <1>2, <2>1 DEF Started
  <2> QED
    BY <2>3, <2>4 DEF Succeeded
<1>8. CASE k.delayed_out = NoPacket
  <2> DEFINE t == transmit_packet(r)
  <2> HIDE DEF b, r
  <2>1. r = [b EXCEPT !.pending_out = TRUE, !.delayed_out = NoPacket]
    BY <1>2, <1>6, <1>8
  <2>2. /\ r \in UsbStates /\ r.waiting /\ r.pending_out /\ r.callbacks = b.callbacks
        /\ r.buffer = b.buffer /\ r.side = side /\ r.allowed /\ ~r.panic
        /\ r.delayed_out = NoPacket /\ r.in_buffer = b.in_buffer /\ r.taken = b.taken
        /\ r.tx_packet = "none" /\ ~r.pending_in
    BY <1>1, <1>2, <2>1 DEF UsbStates
  <2>3. CASE side = "receive"
    <3>1. start_call(k, side) = Succeeded(r)
      BY <1>3, <1>4, <2>3
    <3>2. Started(k, side, r)
      BY <1>2, <1>8, <2>2, <2>3 DEF Started
    <3> QED
      BY <3>1, <3>2 DEF Succeeded
  <2>4. CASE side = "transmit_or_receive"
    <3>1. start_call(k, side) = Succeeded(t)
      BY <1>3, <1>5, <2>2, <2>4
    <3>2. t = [r EXCEPT !.pending_in = TRUE, !.tx_packet = "current"]
      BY DEF transmit_packet
    <3>3. /\ t \in UsbStates /\ t.waiting /\ t.pending_out /\ t.callbacks = r.callbacks
          /\ t.buffer = r.buffer /\ t.side = side /\ t.allowed /\ ~t.panic
          /\ t.delayed_out = NoPacket /\ t.in_buffer = r.in_buffer /\ t.taken = r.taken
          /\ t.tx_packet = "current"
      BY <2>2, <3>2 DEF UsbStates
    <3> HIDE DEF t
    <3>4. Started(k, side, t)
      BY <1>2, <1>8, <2>2, <2>4, <3>3 DEF Started
    <3> QED
      BY <3>1, <3>4 DEF Succeeded
  <2> QED
    BY <2>3, <2>4
<1> QED
  BY <1>7, <1>8

\* The second half of a call: it leaves no transfer behind, except that the
\* controller may still offer the packet to the host.
LEMMA FinishCallStep ==
  ASSUME NEW k \in UsbStates, NEW st \in {"none", "received", "sent"},
         ~k.waiting => Quiet(k), k.waiting => st = "none"
  PROVE  LET s == finish_call(k, st)
         IN  /\ s \in UsbStates /\ Quiet(s) /\ s.side = "none" /\ ~s.allowed
             /\ s.buffer = NoPacket /\ s.taken = "none" /\ s.in_buffer # "current"
             /\ s.delayed_out = k.delayed_out /\ s.panic = k.panic
             /\ s.callbacks = Without(k.callbacks, {"received", "transmitted"})
<1> DEFINE c == IF st = "none" THEN command_cancel(k) ELSE k
           rest == Without(k.callbacks, {"received", "transmitted"})
           u == unsubscribe(c)
           s == finish_call(k, st)
<1>1. k.callbacks \in Seq(Callbacks)
  BY DEF UsbStates
<1>2. rest \in Seq(Callbacks)
  BY <1>1, WithoutIn
<1>3. /\ c \in UsbStates /\ Quiet(c) /\ c.in_buffer = k.in_buffer
      /\ c.delayed_out = k.delayed_out /\ c.panic = k.panic /\ c.callbacks = k.callbacks
  <2>1. CASE k.waiting
    <3>1. c = [k EXCEPT !.waiting = FALSE, !.tx_packet = "none", !.pending_in = FALSE,
                        !.pending_out = FALSE]
      BY <2>1 DEF command_cancel, cancel_transaction, cancel_in_transaction,
                  cancel_out_transaction
    <3> QED
      BY <3>1 DEF UsbStates, Quiet
  <2>2. CASE ~k.waiting
    BY <2>2 DEF command_cancel
  <2>3. k.waiting \in BOOLEAN
    BY DEF UsbStates
  <2> QED
    BY <2>1, <2>2, <2>3
<1> HIDE DEF c
<1>4. u = [c EXCEPT !.allowed = FALSE, !.side = "none", !.callbacks = rest]
  BY <1>3 DEF unsubscribe, Quiet
<1>5. s = [u EXCEPT !.buffer = NoPacket, !.taken = "none",
                    !.in_buffer = IF u.in_buffer = "current" THEN "abandoned" ELSE u.in_buffer]
  BY DEF finish_call, c
<1> HIDE DEF rest, u, s
<1>6. /\ u \in UsbStates /\ Quiet(u) /\ u.side = "none" /\ ~u.allowed
      /\ u.delayed_out = k.delayed_out /\ u.panic = k.panic /\ u.callbacks = rest
  BY <1>2, <1>3, <1>4 DEF UsbStates, Quiet
<1>7. /\ s \in UsbStates /\ Quiet(s) /\ s.side = "none" /\ ~s.allowed
      /\ s.buffer = NoPacket /\ s.taken = "none" /\ s.in_buffer # "current"
      /\ s.delayed_out = k.delayed_out /\ s.panic = k.panic /\ s.callbacks = rest
  BY <1>5, <1>6 DEF UsbStates, Quiet
<1> QED
  BY <1>7 DEF s, rest

\* A packet from the host is held back, received, or fails the assertion.
LEMMA PacketOutStep ==
  ASSUME NEW k \in UsbStates, ~k.panic, NEW p \in Packets
  PROVE  LET s == packet_out(k, p)
         IN  /\ s \in UsbStates
             /\ s.side = k.side /\ s.allowed = k.allowed /\ s.in_buffer = k.in_buffer
             /\ s.taken = k.taken
             /\ \/ /\ ~can_receive_packet(k) /\ s = [k EXCEPT !.delayed_out = p]
                \/ /\ can_receive_packet(k) /\ ~k.pending_out /\ s = [k EXCEPT !.panic = TRUE]
                \/ /\ can_receive_packet(k) /\ Quiet(s) /\ s.buffer = p /\ ~s.panic
                   /\ s.delayed_out = k.delayed_out
                   /\ s.callbacks = Append(k.callbacks, "received")
<1> DEFINE s == packet_out(k, p)
<1>1. CASE ~can_receive_packet(k)
  <2>1. s = [k EXCEPT !.delayed_out = p]
    BY <1>1 DEF packet_out, send_packet_to_client
  <2> QED
    BY <1>1, <2>1 DEF UsbStates
<1>2. CASE can_receive_packet(k) /\ ~k.pending_out
  <2>1. s = [k EXCEPT !.panic = TRUE]
    BY <1>2 DEF packet_out, send_packet_to_client
  <2> QED
    BY <1>2, <2>1 DEF UsbStates
<1>3. CASE can_receive_packet(k) /\ k.pending_out
  <2> DEFINE t == [k EXCEPT !.pending_out = FALSE, !.tx_packet = "none", !.pending_in = FALSE]
             n == Append(k.callbacks, "received")
  <2>1. s = packet_received(t, p)
    BY <1>3 DEF packet_out, send_packet_to_client, cancel_in_transaction
  <2>2. /\ t \in UsbStates /\ t.waiting /\ t.side # "none" /\ t.allowed
        /\ t.callbacks = k.callbacks /\ ~t.pending_out /\ ~t.pending_in
        /\ t.tx_packet = "none" /\ t.side = k.side /\ t.allowed = k.allowed
        /\ t.in_buffer = k.in_buffer /\ t.taken = k.taken /\ t.delayed_out = k.delayed_out
        /\ ~t.panic
    BY <1>3 DEF UsbStates, can_receive_packet
  <2> HIDE DEF t
  <2>3. s = [t EXCEPT !.waiting = FALSE, !.buffer = p, !.callbacks = n]
    BY <2>1, <2>2 DEF packet_received, can_receive_packet
  <2>4. n \in Seq(Callbacks)
    <3>1. k.callbacks \in Seq(Callbacks)
      BY DEF UsbStates
    <3> QED
      BY <3>1, AppendIn DEF Callbacks
  <2> HIDE DEF n, s
  <2>5. /\ s \in UsbStates /\ Quiet(s) /\ s.buffer = p /\ ~s.panic
        /\ s.side = k.side /\ s.allowed = k.allowed
        /\ s.in_buffer = k.in_buffer /\ s.taken = k.taken /\ s.delayed_out = k.delayed_out
        /\ s.callbacks = n
    BY <2>2, <2>3, <2>4 DEF UsbStates, Quiet
  <2> QED
    BY <1>3, <2>5 DEF s, n
<1>4. k.pending_out \in BOOLEAN
  BY DEF UsbStates
<1> QED
  BY <1>1, <1>2, <1>3, <1>4

\* The host takes a packet: the assertion fails, or nobody waits to send, or the
\* packet is reported.
LEMMA TransmittedStep ==
  ASSUME NEW k \in UsbStates, ~k.panic
  PROVE  LET s == packet_transmitted(k)
         IN  /\ s \in UsbStates
             /\ s.side = k.side /\ s.allowed = k.allowed /\ s.in_buffer = "none"
             /\ s.taken = IF k.waiting THEN k.in_buffer ELSE k.taken
             /\ s.delayed_out = k.delayed_out /\ s.buffer = k.buffer
             /\ s.tx_packet = k.tx_packet
             /\ \/ /\ k.tx_packet # "none" /\ s.panic
                   /\ s.waiting = k.waiting /\ s.callbacks = k.callbacks
                \/ /\ k.tx_packet = "none" /\ ~s.panic /\ ~s.pending_in /\ ~s.pending_out
                   /\ ~(k.waiting /\ k.side = "transmit_or_receive")
                   /\ s.waiting = k.waiting /\ s.callbacks = k.callbacks
                \/ /\ k.tx_packet = "none" /\ ~s.panic /\ ~s.pending_in /\ ~s.pending_out
                   /\ k.waiting /\ k.side = "transmit_or_receive"
                   /\ ~s.waiting /\ s.callbacks = Append(k.callbacks, "transmitted")
<1> DEFINE taken == IF k.waiting THEN k.in_buffer ELSE k.taken
           gone == [k EXCEPT !.in_buffer = "none", !.taken = taken]
           s == packet_transmitted(k)
           n == Append(k.callbacks, "transmitted")
<1>1. taken \in {"none", "current", "abandoned"} /\ k.callbacks \in Seq(Callbacks)
  BY DEF UsbStates
<1>2. n \in Seq(Callbacks)
  BY <1>1, AppendIn DEF Callbacks
<1>3. s = IF k.tx_packet # "none" THEN [gone EXCEPT !.panic = TRUE]
          ELSE app_packet_transmitted([gone EXCEPT !.pending_in = FALSE, !.pending_out = FALSE])
  BY DEF packet_transmitted, cancel_out_transaction
<1> HIDE DEF taken, n, s
<1>4. CASE k.tx_packet # "none"
  <2>1. s = [k EXCEPT !.in_buffer = "none", !.taken = taken, !.panic = TRUE]
    BY <1>3, <1>4
  <2>2. /\ s \in UsbStates /\ s.side = k.side /\ s.allowed = k.allowed
        /\ s.in_buffer = "none" /\ s.taken = taken /\ s.delayed_out = k.delayed_out
        /\ s.buffer = k.buffer /\ s.tx_packet = k.tx_packet /\ s.panic
        /\ s.waiting = k.waiting /\ s.callbacks = k.callbacks
    BY <1>1, <2>1 DEF UsbStates
  <2> QED
    BY <1>4, <2>2 DEF s, taken
<1>5. CASE k.tx_packet = "none"
  <2> DEFINE e == [k EXCEPT !.in_buffer = "none", !.taken = taken, !.pending_in = FALSE,
                            !.pending_out = FALSE]
  <2>1. s = app_packet_transmitted(e)
    BY <1>3, <1>5
  <2>2. /\ e \in UsbStates /\ e.side = k.side /\ e.allowed = k.allowed
        /\ e.in_buffer = "none" /\ e.taken = taken /\ e.delayed_out = k.delayed_out
        /\ e.buffer = k.buffer /\ e.tx_packet = k.tx_packet /\ ~e.panic
        /\ e.waiting = k.waiting /\ e.callbacks = k.callbacks
        /\ ~e.pending_in /\ ~e.pending_out
    BY <1>1 DEF UsbStates
  <2> HIDE DEF e
  <2>3. CASE k.waiting /\ k.side = "transmit_or_receive"
    <3>1. s = [e EXCEPT !.waiting = FALSE, !.callbacks = n]
      BY <2>1, <2>2, <2>3 DEF app_packet_transmitted, n
    <3>2. /\ s \in UsbStates /\ s.side = e.side /\ s.allowed = e.allowed
          /\ s.in_buffer = "none" /\ s.taken = taken /\ s.delayed_out = e.delayed_out
          /\ s.buffer = e.buffer /\ s.tx_packet = e.tx_packet /\ ~s.panic
          /\ ~s.waiting /\ s.callbacks = n /\ ~s.pending_in /\ ~s.pending_out
      BY <1>2, <2>2, <3>1 DEF UsbStates
    <3> QED
      BY <1>5, <2>2, <2>3, <3>2 DEF s, taken, n
  <2>4. CASE ~(k.waiting /\ k.side = "transmit_or_receive")
    <3>1. s = e
      BY <2>1, <2>2, <2>4 DEF app_packet_transmitted
    <3> QED
      BY <1>5, <2>2, <2>4, <3>1 DEF s, taken
  <2> QED
    BY <2>3, <2>4
<1> QED
  BY <1>4, <1>5
-----------------------------------------------------------------------------
\* Steps that take no time.

\* The phase of the loop does not change.
SamePhase == /\ Receiving' <=> Receiving
             /\ Replying' <=> Replying
             /\ Checking' <=> Checking

\* The permissions stay in step with the time.
LEMMA ClockKept ==
  ASSUME ClockInv, SamePhase, UNCHANGED <<permissions, ages>>
  PROVE  ClockInv'
<1>1. /\ UNCHANGED <<needs_up, has_up, permission, command_type, wink_permission, ages>>
      /\ (Receiving' <=> Receiving) /\ (Replying' <=> Replying) /\ (Checking' <=> Checking)
  BY DEF permissions, SamePhase
<1>2. /\ Counted(needs_up, ages.asked, REQUEST_DURATION, ages.cleanup)'
      /\ Counted(has_up, ages.touch, PRESENCE_DURATION, ages.cleanup)'
  BY <1>1 DEF ClockInv, Counted
<1> QED
  BY <1>1, <1>2 DEF ClockInv

\* Starting a call.
StartsFrom(side, next) ==
  \/ /\ side = "receive" /\ pc = "receive" /\ next = "receiving"
     /\ buttons' = TRUE /\ touched' = FALSE
  \/ /\ side = "transmit_or_receive"
     /\ \/ pc = "reply" /\ next = "replying"
        \/ pc = "notify" /\ next = "notifying"
        \/ pc = "keepalive" /\ next = "keeping"
     /\ UNCHANGED <<buttons, touched>>

\* A call starts from any phase.
LEMMA StartStep ==
  ASSUME DeviceInv, NEW side, NEW next, StartsFrom(side, next), Start(side, next, usb),
         UNCHANGED <<request, check, left, permissions, history>>
  PROVE  DeviceInv'
<1>1. TypeInv /\ UsbInv /\ CheckInv /\ ClockInv
  BY DEF DeviceInv, Running, StartsFrom
<1>2. ~Calling /\ side \in {"receive", "transmit_or_receive"}
  BY DEF StartsFrom, Calling
<1>3. /\ usb \in UsbStates /\ Quiet(usb) /\ usb.side = "none" /\ ~usb.panic
      /\ usb.callbacks \in Seq(Callbacks) /\ usb.buffer = NoPacket /\ usb.in_buffer # "current"
      /\ ~Scheduled("received") /\ ~Scheduled("transmitted")
  BY <1>1, <1>2 DEF TypeInv, UsbInv, Quiet, UsbStates
<1>4. start_call(usb, side).ok /\ Started(usb, side, start_call(usb, side).k)
  BY <1>2, <1>3, StartCall
<1>5. /\ usb' = start_call(usb, side).k
      /\ pc' = next /\ panic' = panic /\ status' = "none"
  BY <1>4 DEF Start
<1>6. Started(usb, side, usb')
  BY <1>4, <1>5
<1>7. /\ UNCHANGED <<request, iteration, cancelled, result, used, ages, pressed, cancels>>
      /\ UNCHANGED <<permissions, ages>>
  BY DEF check, history
<1>8. Calling' /\ SamePhase /\ Running' /\ (pc' = "receiving" <=> side = "receive")
  BY <1>5 DEF StartsFrom, Calling, SamePhase, Receiving, Replying, Checking, Running
<1>9. /\ ~Scheduled("transmitted")'
      /\ usb.delayed_out = NoPacket => ~Scheduled("received")'
      /\ Scheduled("button")' => Scheduled("button")
  <2>1. CASE usb.delayed_out = NoPacket
    BY <1>3, <1>6, <2>1 DEF Started, Scheduled, In
  <2>2. CASE usb.delayed_out # NoPacket
    <3>1. \A x : In(Append(usb.callbacks, "received"), x) <=> In(usb.callbacks, x) \/ x = "received"
      BY <1>3, AppendIn DEF Callbacks
    <3>2. usb'.callbacks = Append(usb.callbacks, "received")
      BY <1>6, <2>2 DEF Started
    <3> QED
      BY <1>3, <2>2, <3>1, <3>2 DEF Scheduled
  <2> QED
    BY <2>1, <2>2
<1>10. TypeInv'
  BY <1>1, <1>5, <1>6, <1>7, <1>8
  DEF TypeInv, Started, StartsFrom, SamePhase, Running, UsbStates, Callbacks
<1>11. UsbInv'
  <2>1. /\ usb'.side = side /\ usb'.allowed /\ ~usb'.panic /\ usb'.in_buffer = usb.in_buffer
        /\ panic' = "no"
    BY <1>1, <1>5, <1>6 DEF Started, UsbInv
  <2>2. CASE usb.delayed_out = NoPacket
    <3>1. /\ usb'.waiting /\ usb'.pending_out
          /\ usb'.tx_packet = IF side = "receive" THEN "none" ELSE "current"
      BY <1>6, <2>2 DEF Started
    <3> QED
      BY <1>2, <1>3, <1>5, <1>8, <1>9, <2>1, <2>2, <3>1 DEF UsbInv
  <2>3. CASE usb.delayed_out # NoPacket
    <3>1. /\ ~usb'.waiting /\ ~usb'.pending_out /\ ~usb'.pending_in /\ usb'.tx_packet = "none"
          /\ usb'.buffer # NoPacket
      BY <1>6, <2>3 DEF Started, Quiet
    <3> QED
      BY <1>2, <1>3, <1>5, <1>8, <1>9, <2>1, <3>1 DEF UsbInv
  <2> QED
    BY <2>2, <2>3
<1>12. CheckInv'
  <2>1. IsCancel(usb'.delayed_out) = FALSE
    BY <1>6 DEF Started, IsCancel
  <2>2. IsCancel(usb'.buffer) => usb'.buffer = usb.delayed_out /\ IsCancel(usb.delayed_out)
    BY <1>3, <1>6 DEF Started, IsCancel
  <2> QED
    BY <1>1, <1>5, <1>7, <1>8, <1>9, <2>1, <2>2 DEF CheckInv, SamePhase, StartsFrom, IsCancel
<1>13. ClockInv'
  BY <1>1, <1>7, <1>8, ClockKept
<1>14. SentIsTaken' /\ KernelPanicsOnlyOnStale' /\ PresenceJustified' /\ PermissionsFresh'
  BY <1>1, <1>5, <1>7
  DEF DeviceInv, SentIsTaken, KernelPanicsOnlyOnStale, PresenceJustified, PermissionsFresh, UsbInv
<1> QED
  BY <1>10, <1>11, <1>12, <1>13, <1>14 DEF DeviceInv

\* The state with other callbacks.
Rescheduled(k, u) ==
  /\ u.side = k.side /\ u.waiting = k.waiting /\ u.allowed = k.allowed
  /\ u.tx_packet = k.tx_packet /\ u.pending_in = k.pending_in
  /\ u.pending_out = k.pending_out /\ u.delayed_out = k.delayed_out
  /\ u.in_buffer = k.in_buffer /\ u.buffer = k.buffer /\ u.panic = k.panic
  /\ u.taken = k.taken

LEMMA OtherCallbacks ==
  ASSUME NEW k \in UsbStates, NEW s \in Seq(Callbacks)
  PROVE  LET u == [k EXCEPT !.callbacks = s]
         IN  u \in UsbStates /\ u.callbacks = s /\ Rescheduled(k, u)
BY DEF UsbStates, Rescheduled

\* A callback is executed.
LEMMA CallbackStep == ASSUME DeviceInv, RunCallback PROVE DeviceInv'
<1>1. Running /\ TypeInv /\ UsbInv /\ CheckInv /\ ClockInv
  BY DEF DeviceInv, Running, RunCallback, Yielding
<1>2. usb \in UsbStates /\ usb.callbacks \in Seq(Callbacks) /\ usb.callbacks # <<>>
  BY <1>1 DEF TypeInv, RunCallback, UsbStates
<1> DEFINE c == Head(usb.callbacks)
<1>3. /\ Tail(usb.callbacks) \in Seq(Callbacks) /\ c \in Callbacks /\ Scheduled(c)
      /\ \A x : In(Tail(usb.callbacks), x) => Scheduled(x)
  BY <1>2, TailIn DEF Scheduled
<1>4. usb' = [usb EXCEPT !.callbacks = Tail(usb.callbacks)]
  BY DEF RunCallback
<1>5. /\ usb' \in UsbStates /\ usb'.callbacks = Tail(usb.callbacks)
      /\ Rescheduled(usb, usb')
  BY <1>2, <1>3, <1>4, OtherCallbacks
<1>6. \A x : Scheduled(x)' => Scheduled(x)
  BY <1>3, <1>5 DEF Scheduled
<1>7. /\ UNCHANGED <<pc, buttons, request, cancelled, panic, result, used, ages, pressed, cancels>>
      /\ UNCHANGED <<permissions, ages>>
      /\ touched' = (touched \/ c = "button")
      /\ status' = CASE c = "received" -> "received"
                     [] c = "transmitted" -> "sent"
                     [] OTHER -> status
  BY DEF RunCallback, check, history
<1> HIDE DEF c
<1>8. SamePhase /\ (Calling' <=> Calling) /\ Running'
  BY <1>1, <1>7 DEF SamePhase, Receiving, Replying, Checking, Calling, Running
<1>9. status' \in {status, "received", "sent"}
  BY <1>3, <1>7 DEF Callbacks
<1>10. /\ status' = "received" => status = "received" \/ Scheduled("received")
       /\ status' = "sent" => status = "sent" \/ Scheduled("transmitted")
       /\ status' # status => Scheduled("received") \/ Scheduled("transmitted")
  BY <1>3, <1>7 DEF Callbacks
<1>11. TypeInv'
  <2>1. touched' \in BOOLEAN
    BY <1>7
  <2> QED
    BY <1>1, <1>5, <1>7, <1>8, <1>9, <2>1 DEF TypeInv, SamePhase, Running
<1>12. UsbInv'
  <2>1. usb.waiting => status' = "none"
    BY <1>1, <1>10 DEF UsbInv
  <2>2. ~Calling => status' = "none"
    BY <1>1, <1>10 DEF UsbInv
  <2> QED
    BY <1>1, <1>5, <1>6, <1>7, <1>8, <1>10, <2>1, <2>2 DEF UsbInv, Rescheduled
<1>13. CheckInv'
  <2>1. touched' => touched \/ Scheduled("button")
    BY <1>3, <1>7
  <2> QED
    BY <1>1, <1>5, <1>6, <1>7, <1>8, <2>1 DEF CheckInv, SamePhase, Rescheduled
<1>14. ClockInv'
  BY <1>1, <1>7, <1>8, ClockKept
<1>15. SentIsTaken' /\ KernelPanicsOnlyOnStale' /\ PresenceJustified' /\ PermissionsFresh'
  BY <1>1, <1>5, <1>7, <1>10
  DEF DeviceInv, SentIsTaken, KernelPanicsOnlyOnStale, PresenceJustified, PermissionsFresh, UsbInv,
      Rescheduled
<1> QED
  BY <1>11, <1>12, <1>13, <1>14, <1>15 DEF DeviceInv

\* The alarm or the user schedules a callback.
LEMMA ScheduleStep ==
  ASSUME DeviceInv, AlarmFires \/ UserTouches PROVE DeviceInv'
<1>1. Running /\ TypeInv /\ UsbInv /\ CheckInv /\ ClockInv
  BY DEF DeviceInv, AlarmFires, UserTouches
<1>2. usb \in UsbStates /\ usb.callbacks \in Seq(Callbacks)
  BY <1>1 DEF TypeInv, UsbStates
<1>3. PICK c \in {"alarm", "button"} :
        /\ usb' = [usb EXCEPT !.callbacks = Append(usb.callbacks, c)]
        /\ c = "button" => buttons /\ pressed' = (request # NoPacket)
        /\ c = "alarm" => pressed' = pressed
  BY DEF AlarmFires, UserTouches, history
<1>4. /\ Append(usb.callbacks, c) \in Seq(Callbacks)
      /\ \A x : In(Append(usb.callbacks, c), x) <=> Scheduled(x) \/ x = c
  <2>1. c \in Callbacks
    BY DEF Callbacks
  <2> QED
    BY <1>2, <2>1, AppendIn DEF Scheduled
<1>5. /\ usb' \in UsbStates /\ usb'.callbacks = Append(usb.callbacks, c)
      /\ Rescheduled(usb, usb')
  BY <1>2, <1>3, <1>4, OtherCallbacks
<1>6. \A x : Scheduled(x)' <=> Scheduled(x) \/ x = c
  BY <1>4, <1>5 DEF Scheduled
<1>7. /\ UNCHANGED <<pc, status, buttons, touched, request, cancelled, panic, result, used, ages, cancels>>
      /\ UNCHANGED <<permissions, ages>>
  BY DEF AlarmFires, UserTouches, check, history
<1>8. SamePhase /\ (Calling' <=> Calling) /\ Running'
  BY <1>1, <1>7 DEF SamePhase, Receiving, Replying, Checking, Calling, Running
<1>9. TypeInv'
  <2>1. pressed' \in BOOLEAN
    BY <1>1, <1>3 DEF TypeInv
  <2> QED
    BY <1>1, <1>5, <1>7, <1>8, <2>1 DEF TypeInv, SamePhase, Running
<1>10. UsbInv'
  <2>1. /\ Scheduled("received")' <=> Scheduled("received")
        /\ Scheduled("transmitted")' <=> Scheduled("transmitted")
    BY <1>3, <1>6
  <2> QED
    BY <1>1, <1>5, <1>7, <1>8, <2>1 DEF UsbInv, Rescheduled
<1>11. CheckInv'
  <2>1. Checking => request # NoPacket
    BY <1>1 DEF CheckInv
  <2>2. /\ Scheduled("button")' => Scheduled("button") \/ (buttons /\ (Checking => pressed'))
        /\ Checking /\ pressed => pressed'
    <3>1. CASE c = "button"
      BY <1>3, <2>1, <3>1
    <3>2. CASE c = "alarm"
      BY <1>3, <1>6, <3>2
    <3> QED
      BY <3>1, <3>2
  <2>3. Checking /\ (touched \/ Scheduled("button")') => pressed'
    BY <1>1, <2>1, <2>2 DEF CheckInv
  <2>4. ~buttons => ~Scheduled("button")'
    BY <1>1, <2>2 DEF CheckInv
  <2> QED
    BY <1>1, <1>5, <1>7, <1>8, <2>3, <2>4 DEF CheckInv, SamePhase, Rescheduled
<1>12. ClockInv'
  BY <1>1, <1>7, <1>8, ClockKept
<1>13. PresenceJustified'
  <2>1. result = "get" => pressed'
    <3>1. CASE c = "button"
      <4>1. result # "get"
        BY <1>1, <1>3, <3>1 DEF CheckInv, TypeInv, Running, Checking, Receiving, Replying
      <4> QED
        BY <4>1
    <3>2. CASE c = "alarm"
      BY <1>3, <3>2 DEF DeviceInv, PresenceJustified
    <3> QED
      BY <3>1, <3>2
  <2> QED
    BY <1>7, <2>1 DEF DeviceInv, PresenceJustified
<1>14. SentIsTaken' /\ KernelPanicsOnlyOnStale' /\ PermissionsFresh'
  BY <1>5, <1>7 DEF DeviceInv, SentIsTaken, KernelPanicsOnlyOnStale, PermissionsFresh, Rescheduled
<1> QED
  BY <1>9, <1>10, <1>11, <1>12, <1>13, <1>14 DEF DeviceInv

\* A step of the controller or the host.
Outside == /\ UNCHANGED <<status, buttons, touched, request, cancelled, result, used, ages, pressed>>
           /\ UNCHANGED <<permissions, ages>>

\* The application goes on after such a step.
LEMMA OutsideStep ==
  ASSUME DeviceInv, Running, Outside, pc' = pc, UsbInv', usb' \in UsbStates,
         Scheduled("button")' => Scheduled("button"),
         usb.taken # usb'.taken => status = "none",
         cancels \subseteq cancels',
         Checking /\ IsCancel(usb'.delayed_out) => usb'.delayed_out.cid \in cancels',
         Checking /\ IsCancel(usb'.buffer) => usb'.buffer.cid \in cancels'
  PROVE  DeviceInv'
<1>1. TypeInv /\ UsbInv /\ CheckInv /\ ClockInv
  BY DEF DeviceInv
<1>2. SamePhase /\ Running'
  BY DEF SamePhase, Receiving, Replying, Checking, Running
<1>3. TypeInv'
  BY <1>1, <1>2 DEF TypeInv, SamePhase, Outside
<1>4. CheckInv'
  BY <1>1, <1>2 DEF CheckInv, SamePhase, Outside
<1>5. ClockInv'
  BY <1>1, <1>2, ClockKept DEF Outside
<1>6. SentIsTaken' /\ KernelPanicsOnlyOnStale' /\ PresenceJustified' /\ PermissionsFresh'
  BY DEF DeviceInv, SentIsTaken, KernelPanicsOnlyOnStale, PresenceJustified, PermissionsFresh,
         Outside, UsbInv
<1> QED
  BY <1>3, <1>4, <1>5, <1>6 DEF DeviceInv

\* Such a step fails an assertion of the kernel.
LEMMA PanicStep ==
  ASSUME DeviceInv, Outside, pc' = "halted", usb' \in UsbStates,
         usb'.taken = "abandoned", status = "none", cancels \subseteq cancels'
  PROVE  DeviceInv'
<1>1. ~Running' /\ TypeInv'
  BY DEF DeviceInv, TypeInv, Running, Outside
<1>2. SentIsTaken' /\ KernelPanicsOnlyOnStale' /\ PresenceJustified' /\ PermissionsFresh'
  BY DEF DeviceInv, SentIsTaken, KernelPanicsOnlyOnStale, PresenceJustified, PermissionsFresh,
         Outside, UsbInv
<1> QED
  BY <1>1, <1>2 DEF DeviceInv

\* The controller asks for a packet.
LEMMA PacketInStep == ASSUME DeviceInv, PacketIn PROVE DeviceInv'
<1>1. Running /\ TypeInv /\ UsbInv /\ CheckInv /\ ClockInv
  BY DEF DeviceInv, PacketIn
<1>2. Outside /\ UNCHANGED cancels /\ usb \in UsbStates
  BY <1>1 DEF PacketIn, Outside, check, history, TypeInv
<1>3. usb' = [usb EXCEPT !.in_buffer = usb.tx_packet, !.tx_packet = "none"]
  BY DEF PacketIn, Kernel, packet_in
<1>4. usb.in_buffer = "none" /\ usb.tx_packet = "current"
  BY <1>2 DEF PacketIn, UsbStates
<1>5. /\ usb' \in UsbStates /\ usb'.in_buffer = "current" /\ usb'.tx_packet = "none"
      /\ usb'.side = usb.side /\ usb'.waiting = usb.waiting /\ usb'.allowed = usb.allowed
      /\ usb'.pending_in = usb.pending_in /\ usb'.pending_out = usb.pending_out
      /\ usb'.delayed_out = usb.delayed_out /\ usb'.buffer = usb.buffer
      /\ usb'.callbacks = usb.callbacks /\ usb'.panic = usb.panic /\ usb'.taken = usb.taken
  BY <1>2, <1>3, <1>4 DEF UsbStates
<1>6. pc' = pc /\ panic' = panic
  BY <1>1, <1>5 DEF PacketIn, Kernel, UsbInv
<1>7. /\ Scheduled("received")' <=> Scheduled("received")
      /\ Scheduled("transmitted")' <=> Scheduled("transmitted")
      /\ Scheduled("button")' <=> Scheduled("button")
  BY <1>5 DEF Scheduled
<1>8. usb.waiting /\ usb.side # "receive"
  BY <1>1, <1>4 DEF UsbInv
<1>9. UsbInv'
  <2>1. Calling' <=> Calling
    BY <1>6 DEF Calling
  <2> QED
    BY <1>1, <1>2, <1>5, <1>6, <1>7, <1>8, <2>1 DEF UsbInv, Outside
<1>10. /\ Checking /\ IsCancel(usb'.delayed_out) => usb'.delayed_out.cid \in cancels'
       /\ Checking /\ IsCancel(usb'.buffer) => usb'.buffer.cid \in cancels'
  BY <1>1, <1>2, <1>5 DEF CheckInv
<1> QED
  BY <1>1, <1>2, <1>5, <1>6, <1>7, <1>9, <1>10, OutsideStep

\* The host takes a packet.
LEMMA HostTakesStep == ASSUME DeviceInv, HostTakes PROVE DeviceInv'
<1>1. Running /\ TypeInv /\ UsbInv /\ CheckInv /\ ClockInv
  BY DEF DeviceInv, HostTakes
<1>2. Outside /\ UNCHANGED cancels /\ usb \in UsbStates /\ ~usb.panic /\ usb.in_buffer # "none"
  BY <1>1 DEF HostTakes, Outside, check, history, TypeInv, UsbInv
<1>3. usb' = packet_transmitted(usb)
  BY DEF HostTakes, Kernel
<1>4. /\ usb' \in UsbStates
      /\ usb'.side = usb.side /\ usb'.allowed = usb.allowed /\ usb'.in_buffer = "none"
      /\ usb'.taken = IF usb.waiting THEN usb.in_buffer ELSE usb.taken
      /\ usb'.delayed_out = usb.delayed_out /\ usb'.buffer = usb.buffer
      /\ usb'.tx_packet = usb.tx_packet
      /\ \/ /\ usb.tx_packet # "none" /\ usb'.panic
            /\ usb'.waiting = usb.waiting /\ usb'.callbacks = usb.callbacks
         \/ /\ usb.tx_packet = "none" /\ ~usb'.panic /\ ~usb'.pending_in /\ ~usb'.pending_out
            /\ ~(usb.waiting /\ usb.side = "transmit_or_receive")
            /\ usb'.waiting = usb.waiting /\ usb'.callbacks = usb.callbacks
         \/ /\ usb.tx_packet = "none" /\ ~usb'.panic /\ ~usb'.pending_in /\ ~usb'.pending_out
            /\ usb.waiting /\ usb.side = "transmit_or_receive"
            /\ ~usb'.waiting /\ usb'.callbacks = Append(usb.callbacks, "transmitted")
  BY <1>2, <1>3, TransmittedStep
<1>5. usb.in_buffer \in {"current", "abandoned"} /\ usb.tx_packet \in {"none", "current"}
  BY <1>2 DEF UsbStates
<1>7. /\ Checking /\ IsCancel(usb'.delayed_out) => usb'.delayed_out.cid \in cancels'
      /\ Checking /\ IsCancel(usb'.buffer) => usb'.buffer.cid \in cancels'
  BY <1>1, <1>2, <1>4 DEF CheckInv
<1>8. usb.taken # usb'.taken => status = "none"
  BY <1>1, <1>4 DEF UsbInv
<1>9. CASE usb'.panic
  <2>1. usb.tx_packet = "current" /\ usb.waiting
    BY <1>1, <1>4, <1>5, <1>9 DEF UsbInv
  <2>2. usb'.taken = "abandoned" /\ status = "none" /\ pc' = "halted"
    BY <1>1, <1>4, <1>5, <1>9, <2>1 DEF UsbInv, HostTakes, Kernel
  <2> QED
    BY <1>2, <1>4, <2>2, PanicStep
<1>10. CASE ~usb'.panic
  <2>1. pc' = pc /\ panic' = panic
    BY <1>3, <1>10 DEF HostTakes, Kernel
  <2>2. Calling' <=> Calling
    BY <2>1 DEF Calling
  <2>3. CASE ~(usb.waiting /\ usb.side = "transmit_or_receive")
    <3>1. /\ Scheduled("received")' <=> Scheduled("received")
          /\ Scheduled("transmitted")' <=> Scheduled("transmitted")
          /\ Scheduled("button")' <=> Scheduled("button")
          /\ ~usb'.pending_in /\ ~usb'.pending_out /\ usb'.waiting = usb.waiting
          /\ usb.tx_packet = "none"
      BY <1>4, <1>10, <2>3 DEF Scheduled
    <3>2. usb.waiting => usb.side = "receive" /\ usb'.taken = "abandoned"
      BY <1>1, <1>4, <1>5, <2>3 DEF UsbInv
    <3>3. UsbInv'
      BY <1>1, <1>2, <1>4, <1>10, <2>1, <2>2, <3>1, <3>2 DEF UsbInv, Outside
    <3> QED
      BY <1>1, <1>2, <1>4, <1>7, <1>8, <2>1, <3>1, <3>3, OutsideStep
  <2>4. CASE usb.waiting /\ usb.side = "transmit_or_receive"
    <3>1. /\ ~usb'.pending_in /\ ~usb'.pending_out /\ ~usb'.waiting
          /\ usb.tx_packet = "none"
          /\ usb'.callbacks = Append(usb.callbacks, "transmitted")
      BY <1>4, <1>10, <2>4
    <3>2. usb'.taken = "current" /\ Calling
      BY <1>1, <1>4, <1>5, <2>4, <3>1 DEF UsbInv
    <3>3. \A x : Scheduled(x)' <=> Scheduled(x) \/ x = "transmitted"
      <4>1. usb.callbacks \in Seq(Callbacks) /\ "transmitted" \in Callbacks
        BY <1>2 DEF UsbStates, Callbacks
      <4> QED
        BY <3>1, <4>1, AppendIn DEF Scheduled
    <3>4. Scheduled("received")' <=> Scheduled("received")
      BY <3>3
    <3>5. Scheduled("button")' <=> Scheduled("button")
      BY <3>3
    <3>6. UsbInv'
      BY <1>1, <1>2, <1>4, <1>10, <2>1, <2>2, <2>4, <3>1, <3>2, <3>4 DEF UsbInv, Outside
    <3> QED
      BY <1>1, <1>2, <1>4, <1>7, <1>8, <2>1, <3>5, <3>6, OutsideStep
  <2> QED
    BY <2>3, <2>4
<1> QED
  BY <1>9, <1>10

\* The host sends a packet.
LEMMA HostSendsStep ==
  ASSUME DeviceInv, NEW p \in Packets, HostSends(p) PROVE DeviceInv'
<1>1. Running /\ TypeInv /\ UsbInv /\ CheckInv /\ ClockInv
  BY DEF DeviceInv, HostSends
<1>2. Outside /\ usb \in UsbStates /\ ~usb.panic /\ usb.delayed_out = NoPacket
  BY <1>1 DEF HostSends, Outside, check, TypeInv, UsbInv
<1>3. usb' = packet_out(usb, p)
  BY DEF HostSends, Kernel
<1>4. /\ usb' \in UsbStates
      /\ usb'.side = usb.side /\ usb'.allowed = usb.allowed /\ usb'.in_buffer = usb.in_buffer
      /\ usb'.taken = usb.taken
      /\ \/ /\ ~can_receive_packet(usb) /\ usb' = [usb EXCEPT !.delayed_out = p]
         \/ /\ can_receive_packet(usb) /\ ~usb.pending_out /\ usb' = [usb EXCEPT !.panic = TRUE]
         \/ /\ can_receive_packet(usb) /\ Quiet(usb') /\ usb'.buffer = p /\ ~usb'.panic
            /\ usb'.delayed_out = usb.delayed_out
            /\ usb'.callbacks = Append(usb.callbacks, "received")
  BY <1>2, <1>3, PacketOutStep
<1>5. p # NoPacket
  BY PacketsAssumption
<1>6. cancels \subseteq cancels' /\ (Checking /\ IsCancel(p) => p.cid \in cancels')
  BY <1>1 DEF HostSends, CheckInv, IsCancel
<1>8. ~IsCancel(NoPacket)
  BY DEF IsCancel
<1>9. Checking /\ IsCancel(usb.buffer) => usb.buffer.cid \in cancels'
  BY <1>1, <1>6 DEF CheckInv
<1>10. CASE ~can_receive_packet(usb)
  <2>1. usb' = [usb EXCEPT !.delayed_out = p]
    BY <1>4, <1>10
  <2>2. /\ usb'.delayed_out = p /\ usb'.waiting = usb.waiting /\ usb'.tx_packet = usb.tx_packet
        /\ usb'.pending_in = usb.pending_in /\ usb'.pending_out = usb.pending_out
        /\ usb'.buffer = usb.buffer /\ usb'.callbacks = usb.callbacks /\ usb'.panic = usb.panic
    BY <1>2, <2>1 DEF UsbStates
  <2>3. pc' = pc /\ panic' = panic
    BY <1>2, <1>3, <2>2 DEF HostSends, Kernel
  <2>4. /\ Scheduled("received")' <=> Scheduled("received")
        /\ Scheduled("transmitted")' <=> Scheduled("transmitted")
        /\ Scheduled("button")' <=> Scheduled("button")
        /\ Calling' <=> Calling
    BY <2>2, <2>3 DEF Scheduled, Calling
  <2>5. UsbInv'
    BY <1>1, <1>2, <1>4, <2>2, <2>3, <2>4 DEF UsbInv, Outside
  <2>7. /\ Checking /\ IsCancel(usb'.delayed_out) => usb'.delayed_out.cid \in cancels'
        /\ Checking /\ IsCancel(usb'.buffer) => usb'.buffer.cid \in cancels'
    BY <1>6, <1>9, <2>2
  <2> QED
    BY <1>1, <1>2, <1>4, <1>6, <2>3, <2>4, <2>5, <2>7, OutsideStep
<1>11. CASE can_receive_packet(usb) /\ usb' = [usb EXCEPT !.panic = TRUE] /\ ~usb.pending_out
  <2>1. usb'.panic
    BY <1>2, <1>11 DEF UsbStates
  <2>2. usb'.taken = "abandoned" /\ status = "none"
    BY <1>1, <1>4, <1>11 DEF UsbInv, can_receive_packet
  <2>3. pc' = "halted"
    BY <1>3, <2>1 DEF HostSends, Kernel
  <2> QED
    BY <1>2, <1>4, <1>6, <2>2, <2>3, PanicStep
<1>12. CASE /\ can_receive_packet(usb) /\ Quiet(usb') /\ usb'.buffer = p /\ ~usb'.panic
            /\ usb'.delayed_out = usb.delayed_out
            /\ usb'.callbacks = Append(usb.callbacks, "received")
  <2>1. pc' = pc /\ panic' = panic
    BY <1>3, <1>12 DEF HostSends, Kernel
  <2>2. usb.waiting /\ Calling /\ (Calling' <=> Calling)
    BY <1>1, <1>12, <2>1 DEF UsbInv, can_receive_packet, Calling
  <2>3. \A x : Scheduled(x)' <=> Scheduled(x) \/ x = "received"
    <3>1. usb.callbacks \in Seq(Callbacks) /\ "received" \in Callbacks
      BY <1>2 DEF UsbStates, Callbacks
    <3> QED
      BY <1>12, <3>1, AppendIn DEF Scheduled
  <2>4. Scheduled("transmitted")' <=> Scheduled("transmitted")
    BY <2>3
  <2>5. Scheduled("button")' <=> Scheduled("button")
    BY <2>3
  <2>6. /\ ~usb'.waiting /\ ~usb'.pending_in /\ ~usb'.pending_out /\ usb'.tx_packet = "none"
        /\ usb'.buffer # NoPacket
    BY <1>5, <1>12 DEF Quiet
  <2>7. UsbInv'
    BY <1>1, <1>2, <1>4, <1>12, <2>1, <2>2, <2>4, <2>6 DEF UsbInv, Outside
  <2>9. /\ Checking /\ IsCancel(usb'.delayed_out) => usb'.delayed_out.cid \in cancels'
        /\ Checking /\ IsCancel(usb'.buffer) => usb'.buffer.cid \in cancels'
    BY <1>2, <1>6, <1>8, <1>12
  <2> QED
    BY <1>1, <1>2, <1>4, <1>6, <2>1, <2>5, <2>7, <2>9, OutsideStep
<1> QED
  BY <1>4, <1>10, <1>11, <1>12

\* A step of the application within a phase, after which no call is under way.
LEMMA WithinStep ==
  ASSUME DeviceInv, Running, Running', SamePhase, UsbInv', usb' \in UsbStates, status' = "none",
         UNCHANGED <<request, result, used, ages, pressed, cancels>>, UNCHANGED permissions,
         Scheduled("button")' => Scheduled("button"),
         usb'.delayed_out = usb.delayed_out, usb'.buffer = NoPacket,
         <<buttons', touched', cancelled'>> \in BOOLEAN \X BOOLEAN \X BOOLEAN,
         touched' => touched,
         buttons' => pc' \notin {"receive", "notify", "notifying", "reply", "replying"},
         ~buttons' => ~touched' /\ ~Scheduled("button")',
         cancelled' => request # NoPacket /\ request.cid \in cancels,
         ~Receiving,
         Checking \/ cancelled' = cancelled
  PROVE  DeviceInv'
<1>1. TypeInv /\ UsbInv /\ CheckInv /\ ClockInv
  BY DEF DeviceInv
<1>2. TypeInv'
  BY <1>1 DEF TypeInv, SamePhase
<1>3. CheckInv'
  <2>1. ~IsCancel(NoPacket)
    BY DEF IsCancel
  <2> QED
    BY <1>1, <2>1 DEF CheckInv, SamePhase
<1>4. ClockInv'
  BY <1>1, ClockKept
<1>5. PresenceJustified'
  <2>1. Checking => result = "none"
    BY <1>1 DEF CheckInv
  <2> QED
    BY <2>1 DEF DeviceInv, PresenceJustified
<1>6. SentIsTaken' /\ KernelPanicsOnlyOnStale' /\ PermissionsFresh'
  BY DEF DeviceInv, SentIsTaken, KernelPanicsOnlyOnStale, PermissionsFresh, UsbInv
<1> QED
  BY <1>2, <1>3, <1>4, <1>5, <1>6 DEF DeviceInv

\* After a call.
Released(s) ==
  /\ s \in UsbStates /\ Quiet(s) /\ s.side = "none" /\ ~s.allowed /\ ~s.panic
  /\ s.buffer = NoPacket /\ s.in_buffer # "current"
  /\ s.delayed_out = usb.delayed_out
  /\ \A x : In(s.callbacks, x) => Scheduled(x) /\ x \notin {"received", "transmitted"}

\* A call ends.
LEMMA FinishedIs ==
  ASSUME TypeInv, UsbInv, Calling
  PROVE  Released(Finished(usb)) /\ Released(NoButtons(Finished(usb)))
         /\ ~In(NoButtons(Finished(usb)).callbacks, "button")
<1> DEFINE done == finish_call(usb, status)
           rest == Without(done.callbacks, {"alarm"})
           left_ == Without(rest, {"button"})
           s == Finished(usb)
           t == NoButtons(s)
<1>1. /\ usb \in UsbStates /\ usb.callbacks \in Seq(Callbacks)
      /\ status \in {"none", "received", "sent"} /\ ~usb.panic
      /\ ~usb.waiting => Quiet(usb)
      /\ usb.waiting => status = "none"
  BY DEF TypeInv, UsbInv, UsbStates, Quiet
<1>2. /\ done \in UsbStates /\ Quiet(done) /\ done.side = "none" /\ ~done.allowed
      /\ done.buffer = NoPacket /\ done.in_buffer # "current"
      /\ done.delayed_out = usb.delayed_out /\ done.panic = usb.panic
      /\ done.callbacks = Without(usb.callbacks, {"received", "transmitted"})
  BY <1>1, FinishCallStep
<1>3. /\ done.callbacks \in Seq(Callbacks)
      /\ \A x : In(done.callbacks, x) => Scheduled(x) /\ x \notin {"received", "transmitted"}
  BY <1>1, <1>2, WithoutIn DEF Scheduled
<1>4. /\ rest \in Seq(Callbacks)
      /\ \A x : In(rest, x) => In(done.callbacks, x)
  BY <1>3, WithoutIn
<1>5. s = [done EXCEPT !.callbacks = rest]
  BY DEF Finished
<1> HIDE DEF done, rest
<1>6. s \in UsbStates /\ s.callbacks = rest /\ Rescheduled(done, s)
  BY <1>2, <1>4, <1>5, OtherCallbacks
<1> HIDE DEF s
<1>7. Released(s)
  BY <1>1, <1>2, <1>3, <1>4, <1>6 DEF Released, Rescheduled, Quiet
<1>8. /\ left_ \in Seq(Callbacks)
      /\ \A x : In(left_, x) => In(rest, x) /\ x # "button"
  BY <1>4, WithoutIn
<1>9. t = [s EXCEPT !.callbacks = left_]
  BY <1>6 DEF NoButtons
<1> HIDE DEF left_
<1>10. t \in UsbStates /\ t.callbacks = left_ /\ Rescheduled(s, t)
  BY <1>6, <1>8, <1>9, OtherCallbacks
<1> HIDE DEF t
<1>11. Released(t) /\ ~In(t.callbacks, "button")
  BY <1>6, <1>7, <1>8, <1>10 DEF Released, Rescheduled, Quiet
<1> QED
  BY <1>7, <1>11 DEF s, t

\* Then the kernel owes the application nothing.
LEMMA ReleasedOwesNothing ==
  ASSUME Released(usb'), ~Calling', status' = "none", panic' = "no"
  PROVE  UsbInv' /\ usb' \in UsbStates /\ (\A x : Scheduled(x)' => Scheduled(x))
<1>1. /\ \A x : Scheduled(x)' => Scheduled(x)
      /\ ~Scheduled("received")' /\ ~Scheduled("transmitted")'
  BY DEF Released, Scheduled
<1> QED
  BY <1>1 DEF Released, UsbInv, Quiet

\* A packet of the reply was sent, given up, or answered by another packet.
LEMMA EndReplyStep == ASSUME DeviceInv, EndReply PROVE DeviceInv'
<1>1. /\ Running /\ TypeInv /\ UsbInv /\ CheckInv /\ ClockInv
      /\ pc = "replying" /\ pc' = "reply"
  BY DEF DeviceInv, EndReply, Running
<1>2. /\ Calling /\ ~Calling' /\ Running' /\ SamePhase /\ ~Receiving
  BY <1>1 DEF Calling, Running, SamePhase, Receiving, Replying, Checking
<1>3. Released(usb')
  BY <1>1, <1>2, FinishedIs DEF EndReply, FinishCall
<1>4. status' = "none" /\ panic' = "no"
  BY <1>1 DEF EndReply, FinishCall, UsbInv
<1>5. /\ UNCHANGED <<buttons, touched, cancelled>>
      /\ UNCHANGED <<request, result, used, ages, pressed, cancels>> /\ UNCHANGED permissions
  BY DEF EndReply, check, history
<1>6. UsbInv' /\ usb' \in UsbStates /\ (\A x : Scheduled(x)' => Scheduled(x))
  BY <1>2, <1>3, <1>4, ReleasedOwesNothing
<1>7. <<buttons', touched', cancelled'>> \in BOOLEAN \X BOOLEAN \X BOOLEAN
  BY <1>1, <1>5 DEF TypeInv
<1>8. /\ ~buttons'
      /\ ~touched' /\ ~Scheduled("button")'
      /\ cancelled' => request # NoPacket /\ request.cid \in cancels
  BY <1>1, <1>5, <1>6 DEF CheckInv
<1> QED
  BY <1>1, <1>2, <1>3, <1>4, <1>5, <1>6, <1>7, <1>8, WithinStep DEF Released

\* A CANCEL that ends the check came after the request.
LEMMA CancelIsLater ==
  ASSUME DeviceInv, Running, Checking, Cancel
  PROVE  request # NoPacket /\ request.cid \in cancels
<1>1. UsbInv /\ CheckInv
  BY DEF DeviceInv
<1>2. IsCancel(usb.buffer)
  BY <1>1 DEF Cancel, IsCancel, UsbInv
<1> QED
  BY <1>1, <1>2 DEF CheckInv, Cancel

\* The answer to a message that the check goes on.
LEMMA EndKeepaliveStep == ASSUME DeviceInv, EndNotify \/ EndKeepalive PROVE DeviceInv'
<1>1. /\ Running /\ TypeInv /\ UsbInv /\ CheckInv /\ ClockInv
      /\ pc \in {"notifying", "keeping"} /\ pc' \in {"checked", "poll"}
  BY DEF DeviceInv, EndNotify, EndKeepalive, Running, NextPoll
<1>2. /\ Calling /\ ~Calling' /\ Running' /\ SamePhase /\ ~Receiving /\ Checking
  BY <1>1 DEF Calling, Running, SamePhase, Receiving, Replying, Checking
<1>3. Released(usb')
  BY <1>1, <1>2, FinishedIs DEF EndNotify, EndKeepalive, FinishCall
<1>4. status' = "none" /\ panic' = "no"
  BY <1>1 DEF EndNotify, EndKeepalive, FinishCall, UsbInv
<1>5. /\ UNCHANGED <<request, result, used, ages, pressed, cancels>> /\ UNCHANGED permissions
      /\ cancelled' = Cancel
  BY DEF EndNotify, EndKeepalive, history
<1>6. UsbInv' /\ usb' \in UsbStates /\ (\A x : Scheduled(x)' => Scheduled(x))
  BY <1>2, <1>3, <1>4, ReleasedOwesNothing
<1>7. cancelled' => request # NoPacket /\ request.cid \in cancels
  BY <1>1, <1>2, <1>5, CancelIsLater
<1>8. /\ ~buttons' => ~touched' /\ ~Scheduled("button")'
      /\ touched' => touched
      /\ <<buttons', touched'>> \in BOOLEAN \X BOOLEAN
  <2>1. CASE EndNotify
    <3>1. ~Scheduled("button")
      BY <1>1, <2>1 DEF EndNotify, CheckInv
    <3> QED
      BY <1>6, <2>1, <3>1 DEF EndNotify
  <2>2. CASE EndKeepalive
    BY <1>1, <1>6, <2>2 DEF EndKeepalive, TypeInv, CheckInv
  <2> QED
    BY <2>1, <2>2
<1>9. <<buttons', touched', cancelled'>> \in BOOLEAN \X BOOLEAN \X BOOLEAN
  <2>1. Cancel \in BOOLEAN
    BY DEF Cancel
  <2> QED
    BY <1>5, <1>8, <2>1
<1> QED
  BY <1>1, <1>2, <1>3, <1>4, <1>5, <1>6, <1>7, <1>8, <1>9, WithinStep DEF Released

\* The waits for a touch.
LEMMA PollStep == ASSUME DeviceInv, StartPoll \/ EndPoll PROVE DeviceInv'
<1>1. /\ Running /\ TypeInv /\ UsbInv /\ CheckInv /\ ClockInv
      /\ pc \in {"poll", "polling"}
  BY DEF DeviceInv, StartPoll, EndPoll, Running
<1>2. ~Calling /\ Checking /\ ~Receiving /\ usb \in UsbStates /\ usb.callbacks \in Seq(Callbacks)
  BY <1>1 DEF Calling, Checking, Receiving, TypeInv, UsbStates
<1>3. /\ UNCHANGED <<request, result, used, ages, pressed, cancels>> /\ UNCHANGED permissions
      /\ UNCHANGED <<status, buttons, touched, cancelled>>
  BY DEF StartPoll, EndPoll, history, check
<1>4. Released(usb')
  <2>1. Released(usb)
    BY <1>1, <1>2 DEF UsbInv, Released, Quiet, Scheduled
  <2>2. CASE StartPoll
    BY <2>1, <2>2 DEF StartPoll
  <2>3. CASE EndPoll
    <3> DEFINE rest == Without(usb.callbacks, {"alarm"})
    <3>1. rest \in Seq(Callbacks) /\ \A x : In(rest, x) => Scheduled(x)
      BY <1>2, WithoutIn DEF Scheduled
    <3>2. usb' = [usb EXCEPT !.callbacks = rest]
      BY <2>3 DEF EndPoll
    <3> HIDE DEF rest
    <3>3. usb' \in UsbStates /\ usb'.callbacks = rest /\ Rescheduled(usb, usb')
      BY <1>2, <3>1, <3>2, OtherCallbacks
    <3> QED
      BY <2>1, <3>1, <3>3 DEF Released, Rescheduled, Quiet, Scheduled
  <2> QED
    BY <2>2, <2>3
<1>5. status = "none" /\ panic = "no"
  BY <1>1, <1>2 DEF UsbInv
<1>6. \/ pc' \in {"polling", "keepalive", "checked", "poll"} /\ panic' = panic
      \/ pc' = "halted" /\ panic' = "alarm"
  <2>1. CASE StartPoll
    BY <2>1 DEF StartPoll
  <2>2. CASE EndPoll
    BY <2>2 DEF EndPoll, NextPoll
  <2> QED
    BY <2>1, <2>2
<1>7. CASE pc' = "halted" /\ panic' = "alarm"
  <2>1. ~Running' /\ TypeInv'
    BY <1>1, <1>3, <1>4, <1>7 DEF TypeInv, Running, Released
  <2>2. SentIsTaken' /\ KernelPanicsOnlyOnStale' /\ PresenceJustified' /\ PermissionsFresh'
    BY <1>3, <1>5, <1>7
    DEF DeviceInv, SentIsTaken, KernelPanicsOnlyOnStale, PresenceJustified, PermissionsFresh
  <2> QED
    BY <2>1, <2>2 DEF DeviceInv
<1>8. CASE pc' \in {"polling", "keepalive", "checked", "poll"} /\ panic' = panic
  <2>1. ~Calling' /\ SamePhase /\ Running'
    BY <1>1, <1>8 DEF Calling, SamePhase, Checking, Receiving, Replying, Running
  <2>2. UsbInv' /\ usb' \in UsbStates /\ (\A x : Scheduled(x)' => Scheduled(x))
    BY <1>3, <1>4, <1>5, <1>8, <2>1, ReleasedOwesNothing
  <2>3. <<buttons', touched', cancelled'>> \in BOOLEAN \X BOOLEAN \X BOOLEAN
    BY <1>1, <1>3 DEF TypeInv
  <2>4. /\ ~buttons' => ~touched' /\ ~Scheduled("button")'
        /\ cancelled' => request # NoPacket /\ request.cid \in cancels
    BY <1>1, <1>3, <2>2 DEF CheckInv
  <2> QED
    BY <1>1, <1>2, <1>3, <1>4, <1>5, <1>8, <2>1, <2>2, <2>3, <2>4, WithinStep DEF Released
<1> QED
  BY <1>6, <1>7, <1>8

-----------------------------------------------------------------------------
\* Time.

\* The durations.
LEMMA Durations ==
  /\ HALF_PERIOD \in Nat /\ HALF_PERIOD >= 1 /\ OLD \in Nat
  /\ REQUEST_DURATION \in Nat /\ PRESENCE_DURATION \in Nat /\ STATEFUL_DURATION \in Nat
  /\ RESET_DURATION \in Nat /\ WINK_DURATION \in Nat
  /\ REQUEST_DURATION >= 1 /\ PRESENCE_DURATION >= 1 /\ STATEFUL_DURATION >= 1
  /\ RESET_DURATION >= 1 /\ WINK_DURATION >= 1
  /\ REQUEST_DURATION < HALF_PERIOD /\ PRESENCE_DURATION < HALF_PERIOD
  /\ STATEFUL_DURATION < HALF_PERIOD /\ RESET_DURATION < HALF_PERIOD
  /\ WINK_DURATION < HALF_PERIOD
  /\ OLD >= REQUEST_DURATION /\ OLD >= PRESENCE_DURATION /\ OLD >= STATEFUL_DURATION
BY DeviceAssumption

\* No number is the state Waiting.
LEMMA WaitingIsNoNumber == Waiting \notin Int
BY DeviceAssumption

\* Clock values within half a period do not wrap.
LEMMA NoWrap ==
  ASSUME NEW x \in Int, -HALF_PERIOD <= x, x < HALF_PERIOD
  PROVE  Wrap(x) = x
<1> DEFINE m == 2 * HALF_PERIOD
           y == x + HALF_PERIOD
<1>1. m \in Nat /\ m > 0 /\ y \in Nat /\ y < m
  BY Durations
<1>2. y % m = y
  <2> HIDE DEF m, y
  <2> QED
    BY <1>1, Remainder
<1> QED
  BY <1>2, Durations DEF Wrap

\* A permission just granted.
LEMMA GrantedIs ==
  ASSUME NEW t \in Nat, 1 <= t, t < HALF_PERIOD, NEW d \in 0 .. 1
  PROVE  Granted(t, d) = t - d
BY NoWrap, Durations DEF Granted

\* Clock values are never outside of the range.
LEMMA WrapRange ==
  ASSUME NEW x \in Int
  PROVE  Wrap(x) \in Int /\ -HALF_PERIOD <= Wrap(x) /\ Wrap(x) < HALF_PERIOD
<1> DEFINE m == 2 * HALF_PERIOD
           y == x + HALF_PERIOD
           r == y % m
<1>1. m \in Nat /\ m > 0 /\ y \in Int
  BY Durations
<1>2. r \in 0 .. m - 1
  <2> HIDE DEF m, y
  <2> QED
    BY <1>1, Division
<1>3. Wrap(x) = r - HALF_PERIOD
  BY DEF Wrap
<1> HIDE DEF r
<1> QED
  BY <1>2, <1>3, Durations

\* Time passes for a permission that is not too old.
LEMMA PassedIs ==
  ASSUME NEW x \in Int, 1 - HALF_PERIOD <= x, x < HALF_PERIOD, NEW d \in 0 .. 1
  PROVE  Passed(x, d) = x - d /\ Passed(x, d) \in Int
<1>1. Wrap(x - d) = x - d
  BY NoWrap, Durations
<1> QED
  BY <1>1, WaitingIsNoNumber DEF Passed

\* An age after a step that takes d, and the time since the last clean-up.
Aged(age, d) == IF age + d > OLD THEN OLD ELSE age + d
Lapsed(cleanup, d) == IF cleanup + d > HALF_PERIOD THEN HALF_PERIOD ELSE cleanup + d

\* The ages after such a step.
LEMMA OlderIs ==
  ASSUME ages \in Ages, NEW d \in 0 .. 1
  PROVE  /\ Older(d) \in Ages
         /\ Older(d).asked = Aged(ages.asked, d)
         /\ Older(d).touch = Aged(ages.touch, d)
         /\ Older(d).get = Aged(ages.get, d)
         /\ Older(d).cleanup = Lapsed(ages.cleanup, d)
<1> DEFINE r == [asked |-> Aged(ages.asked, d), touch |-> Aged(ages.touch, d),
                 get |-> Aged(ages.get, d), cleanup |-> Lapsed(ages.cleanup, d)]
<1>1. /\ ages.asked \in 0 .. OLD /\ ages.touch \in 0 .. OLD /\ ages.get \in 0 .. OLD
      /\ ages.cleanup \in 0 .. HALF_PERIOD
      /\ DOMAIN ages = {"asked", "touch", "get", "cleanup"}
  BY DEF Ages
<1>2. /\ \A age \in 0 .. OLD : Aged(age, d) \in 0 .. OLD
      /\ \A age \in 0 .. HALF_PERIOD : Lapsed(age, d) \in 0 .. HALF_PERIOD
  BY Durations DEF Aged, Lapsed
<1>3. Older(d) = r
  BY <1>1 DEF Older, Oldest, Aged, Lapsed
<1>4. r \in Ages
  BY <1>1, <1>2 DEF Ages
<1> QED
  BY <1>3, <1>4

\* The ages after a clean-up.
LEMMA CleanedUpIs ==
  ASSUME NEW old \in Ages
  PROVE  /\ CleanedUp(old) \in Ages
         /\ CleanedUp(old).asked = old.asked /\ CleanedUp(old).touch = old.touch
         /\ CleanedUp(old).get = old.get
         /\ CleanedUp(old).cleanup = IF old.cleanup < HALF_PERIOD THEN 0 ELSE old.cleanup
<1>1. 0 \in 0 .. HALF_PERIOD
  BY Durations
<1> QED
  BY <1>1 DEF CleanedUp, Ages

\* A permission keeps in step with the time since its grant.
LEMMA CountedPasses ==
  ASSUME NEW x, NEW age \in 0 .. OLD, NEW t \in Nat, 1 <= t, t <= OLD, NEW d \in 0 .. 1,
         NEW cleanup \in 0 .. HALF_PERIOD, Counted(x, age, t, cleanup)
  PROVE  Counted(Passed(x, d), Aged(age, d), t, Lapsed(cleanup, d))
<1>1. CASE x = Waiting
  BY <1>1, Durations DEF Passed, Counted, Aged
<1>2. CASE x # Waiting
  <2> DEFINE y == Passed(x, d)
  <2>1. /\ x \in Int /\ -HALF_PERIOD <= x /\ x < HALF_PERIOD
        /\ age < t => x + age >= t
        /\ cleanup < HALF_PERIOD => x >= 1 - cleanup /\ (x > 0 => x + age = t)
    BY <1>2 DEF Counted
  <2>2. y \in Int /\ -HALF_PERIOD <= y /\ y < HALF_PERIOD /\ y # Waiting
    <3>1. y = Wrap(x - d) /\ x - d \in Int
      BY <1>2, <2>1 DEF Passed
    <3>2. y \in Int /\ -HALF_PERIOD <= y /\ y < HALF_PERIOD
      BY <3>1, WrapRange
    <3> QED
      BY <3>2, WaitingIsNoNumber
  <2>3. x >= 1 - HALF_PERIOD => y = x - d
    BY <2>1, PassedIs, Durations
  <2> HIDE DEF y
  <2>4. Aged(age, d) < t => y + Aged(age, d) >= t
    <3> SUFFICES ASSUME Aged(age, d) < t PROVE y + Aged(age, d) >= t
      OBVIOUS
    <3>1. Aged(age, d) = age + d /\ age < t
      BY Durations DEF Aged
    <3>2. x >= 1
      BY <2>1, <3>1
    <3> QED
      BY <2>1, <2>3, <3>1, <3>2, Durations
  <2>5. Lapsed(cleanup, d) < HALF_PERIOD =>
          /\ y >= 1 - Lapsed(cleanup, d)
          /\ y > 0 => y + Aged(age, d) = t
    <3> SUFFICES ASSUME Lapsed(cleanup, d) < HALF_PERIOD
                 PROVE  /\ y >= 1 - Lapsed(cleanup, d)
                        /\ y > 0 => y + Aged(age, d) = t
      OBVIOUS
    <3>1. Lapsed(cleanup, d) = cleanup + d /\ cleanup < HALF_PERIOD
      BY Durations DEF Lapsed
    <3>2. x >= 1 - cleanup /\ y = x - d
      BY <2>1, <2>3, <3>1, Durations
    <3>3. y > 0 => x + age = t /\ Aged(age, d) = age + d
      BY <2>1, <3>1, <3>2, Durations DEF Aged
    <3> QED
      BY <2>1, <3>1, <3>2, <3>3, Durations
  <2> QED
    BY <2>2, <2>4, <2>5 DEF Counted, y
<1> QED
  BY <1>1, <1>2

\* Cleaning up keeps what has not expired.
LEMMA CountedCleaned ==
  ASSUME NEW x, NEW age \in Nat, NEW t \in Nat, NEW cleanup \in 0 .. HALF_PERIOD,
         Counted(x, age, t, cleanup),
         NEW after, after = cleanup \/ after = IF cleanup < HALF_PERIOD THEN 0 ELSE cleanup
  PROVE  Counted(check_expiration(x), age, t, after)
<1>1. CASE is_granted(x)
  <2>1. check_expiration(x) = x /\ x # Waiting /\ x \in Int /\ x >= 1
    BY <1>1 DEF check_expiration, is_granted, Counted
  <2>2. after < HALF_PERIOD => cleanup < HALF_PERIOD /\ x >= 1 - after
    BY <2>1, Durations
  <2> QED
    BY <2>1, <2>2 DEF Counted
<1>2. CASE ~is_granted(x)
  <2>1. check_expiration(x) = Waiting
    BY <1>2 DEF check_expiration
  <2>2. ~(age < t)
    BY <1>2 DEF Counted, is_granted
  <2> QED
    BY <2>1, <2>2 DEF Counted
<1> QED
  BY <1>1, <1>2

\* A permission just granted.
LEMMA CountedGranted ==
  ASSUME NEW t \in Nat, 1 <= t, t < HALF_PERIOD, NEW cleanup \in 0 .. HALF_PERIOD
  PROVE  Counted(t, 0, t, cleanup)
<1>1. t # Waiting
  BY WaitingIsNoNumber
<1> QED
  BY <1>1, Durations DEF Counted

\* No permission, when none would be left.
LEMMA CountedWaiting ==
  ASSUME NEW age \in Nat, NEW t \in Nat, age >= t, NEW cleanup
  PROVE  Counted(Waiting, age, t, cleanup)
BY DEF Counted

\* The check of the user's presence is over.
LEMMA FinishCheckStep ==
  ASSUME DeviceInv, NEW d \in 0 .. 1, FinishCheck(d) PROVE DeviceInv'
<1>1. /\ Running /\ TypeInv /\ UsbInv /\ CheckInv /\ ClockInv
      /\ pc = "checked" /\ pc' = "reply"
  BY DEF DeviceInv, FinishCheck, Running
<1>2. /\ ~Calling /\ Checking /\ usb \in UsbStates /\ usb.callbacks \in Seq(Callbacks)
      /\ ~Calling' /\ ~Checking' /\ Replying' /\ ~Receiving' /\ Running'
  BY <1>1 DEF Calling, Checking, Receiving, Replying, TypeInv, UsbStates, Running
<1>3. /\ UNCHANGED <<request, pressed, cancels, status, cancelled, panic>>
      /\ buttons' = FALSE /\ touched' = FALSE
  BY DEF FinishCheck, check
<1> DEFINE ok == touched /\ ~cancelled
<1>4. /\ needs_up' = Waiting /\ has_up' = Waiting /\ wink_permission' = Waiting
      /\ permission' = IF ok THEN Granted(STATEFUL_DURATION, d) ELSE Passed(permission, d)
      /\ command_type' = IF ok THEN "get" ELSE "none"
      /\ result' = CASE cancelled -> "cancelled" [] ok -> "get" [] OTHER -> "timeout"
      /\ ages' = Older(d)
  BY DEF FinishCheck, Answer, NewU2f
<1>5. /\ ages' \in Ages /\ ages'.asked = Aged(ages.asked, d)
      /\ ages'.touch = Aged(ages.touch, d) /\ ages'.get = Aged(ages.get, d)
      /\ ages'.cleanup = Lapsed(ages.cleanup, d)
  BY <1>1, <1>4, OlderIs DEF TypeInv
<1>6. Released(usb') /\ ~Scheduled("button")'
  <2>1. Released(usb)
    BY <1>1, <1>2 DEF UsbInv, Released, Quiet, Scheduled
  <2> DEFINE rest == Without(usb.callbacks, {"button"})
  <2>2. rest \in Seq(Callbacks) /\ \A x : In(rest, x) => Scheduled(x) /\ x # "button"
    BY <1>2, WithoutIn DEF Scheduled
  <2>3. usb' = [usb EXCEPT !.callbacks = rest]
    BY DEF FinishCheck, NoButtons
  <2> HIDE DEF rest
  <2>4. usb' \in UsbStates /\ usb'.callbacks = rest /\ Rescheduled(usb, usb')
    BY <1>2, <2>2, <2>3, OtherCallbacks
  <2> QED
    BY <2>1, <2>2, <2>4 DEF Released, Rescheduled, Quiet, Scheduled
<1>7. status' = "none" /\ panic' = "no"
  BY <1>1, <1>2, <1>3 DEF UsbInv
<1>8. UsbInv' /\ usb' \in UsbStates
  BY <1>2, <1>6, <1>7, ReleasedOwesNothing
<1>9. result' \in {"cancelled", "get", "timeout"}
  BY <1>4
<1>10. TypeInv'
  BY <1>1, <1>2, <1>3, <1>5, <1>8, <1>9 DEF TypeInv
<1>11. CheckInv'
  BY <1>1, <1>2, <1>3, <1>6 DEF CheckInv
<1>12. ClockInv'
  <2>1. needs_up = Waiting /\ has_up = Waiting
    BY <1>1, <1>2 DEF ClockInv
  <2>2. /\ ages.asked \in 0 .. OLD /\ ages.touch \in 0 .. OLD /\ ages.get = 0
        /\ ages.cleanup \in 0 .. HALF_PERIOD
    BY <1>1, <1>2 DEF ClockInv, TypeInv, Ages
  <2>3. Passed(Waiting, d) = Waiting
    BY DEF Passed
  <2>4. Counted(Waiting, ages'.asked, REQUEST_DURATION, ages'.cleanup)
    BY <1>1, <1>5, <2>1, <2>2, <2>3, CountedPasses, Durations DEF ClockInv
  <2>5. Counted(Waiting, ages'.touch, PRESENCE_DURATION, ages'.cleanup)
    BY <1>1, <1>5, <2>1, <2>2, <2>3, CountedPasses, Durations DEF ClockInv
  <2>6. /\ Counted(needs_up, ages.asked, REQUEST_DURATION, ages.cleanup)'
        /\ Counted(has_up, ages.touch, PRESENCE_DURATION, ages.cleanup)'
    BY <1>4, <2>4, <2>5 DEF Counted
  <2>7. permission' # Waiting =>
          /\ permission' \in Int /\ permission' < HALF_PERIOD /\ permission' >= 0
          /\ command_type' = "get" => permission' + ages'.get <= STATEFUL_DURATION
    <3>1. CASE ok
      <4>1. permission' = STATEFUL_DURATION - d
        BY <1>4, <3>1, GrantedIs, Durations
      <4>2. ages'.get = d
        BY <1>5, <2>2, Durations DEF Aged
      <4> QED
        BY <4>1, <4>2, Durations
    <3>2. CASE ~ok
      <4>1. permission # Waiting =>
              permission \in Int /\ permission < HALF_PERIOD /\ permission >= 1
        BY <1>1, <1>2 DEF ClockInv, Checking, Receiving, Replying
      <4>2. permission # Waiting => permission' = permission - d
        BY <1>4, <3>2, <4>1, PassedIs, Durations
      <4>3. permission = Waiting => permission' = Waiting
        BY <1>4, <2>3, <3>2
      <4>4. command_type' = "none"
        BY <1>4, <3>2
      <4> HIDE DEF ok
      <4> QED
        BY <4>1, <4>2, <4>3, <4>4, Durations
    <3> QED
      BY <3>1, <3>2
  <2> QED
    BY <1>2, <1>4, <2>6, <2>7 DEF ClockInv
<1>13. PresenceJustified'
  <2>1. result' = "get" => pressed /\ ~cancelled
    BY <1>1, <1>2, <1>4 DEF CheckInv
  <2>2. result' = "cancelled" => request.cid \in cancels
    BY <1>1, <1>4 DEF CheckInv
  <2> QED
    BY <1>3, <2>1, <2>2 DEF PresenceJustified
<1>14. SentIsTaken' /\ KernelPanicsOnlyOnStale' /\ PermissionsFresh'
  BY <1>7, <1>9 DEF SentIsTaken, KernelPanicsOnlyOnStale, PermissionsFresh
<1> QED
  BY <1>8, <1>10, <1>11, <1>12, <1>13, <1>14 DEF DeviceInv

\* Where the loop ends, permissions that expired during a wink are cleaned up.
LEMMA LoopEndStep ==
  ASSUME DeviceInv, NEW d \in 0 .. 1, LoopEnd(d) PROVE DeviceInv'
<1>1. /\ Running /\ TypeInv /\ UsbInv /\ CheckInv /\ ClockInv
      /\ pc = "reply" /\ pc' = "receive"
  BY DEF DeviceInv, LoopEnd, Running
<1>2. /\ ~Calling /\ ~Checking /\ Replying /\ ~Receiving
      /\ ~Calling' /\ ~Checking' /\ ~Replying' /\ Receiving' /\ Running'
  BY <1>1 DEF Calling, Checking, Receiving, Replying, Running
<1>3. /\ UNCHANGED <<usb, status, buttons, touched, panic>>
      /\ request' = NoPacket /\ cancelled' = FALSE /\ pressed' = FALSE /\ cancels' = {}
  BY DEF LoopEnd, call
<1> DEFINE u == [needs_up |-> Passed(needs_up, d), has_up |-> Passed(has_up, d)]
           w == Passed(wink_permission, d)
           c == IF is_granted(w) THEN u ELSE Cleaned(u)
<1>4. /\ needs_up' = c.needs_up /\ has_up' = c.has_up /\ wink_permission' = w
      /\ permission' = Passed(permission, d)
      /\ command_type' = command_type /\ result' = "none"
      /\ ages' = IF is_granted(w) THEN Older(d) ELSE CleanedUp(Older(d))
  BY DEF LoopEnd, Answer
<1>5. /\ ages' \in Ages /\ ages'.asked = Aged(ages.asked, d)
      /\ ages'.touch = Aged(ages.touch, d) /\ ages'.get = Aged(ages.get, d)
      /\ is_granted(w) => ages'.cleanup = Lapsed(ages.cleanup, d)
      /\ ~is_granted(w) =>
           ages'.cleanup = IF Lapsed(ages.cleanup, d) < HALF_PERIOD THEN 0
                           ELSE Lapsed(ages.cleanup, d)
  <2> DEFINE old == Older(d)
  <2>1. /\ old \in Ages /\ old.asked = Aged(ages.asked, d) /\ old.touch = Aged(ages.touch, d)
        /\ old.get = Aged(ages.get, d) /\ old.cleanup = Lapsed(ages.cleanup, d)
    BY <1>1, OlderIs DEF TypeInv
  <2>2. ages' = IF is_granted(w) THEN old ELSE CleanedUp(old)
    BY <1>4
  <2> HIDE DEF old, w
  <2> QED
    BY <2>1, <2>2, CleanedUpIs
<1>6. UsbInv'
  <2>1. \A x : Scheduled(x)' <=> Scheduled(x)
    BY <1>3 DEF Scheduled
  <2> QED
    BY <1>1, <1>2, <1>3, <2>1 DEF UsbInv
<1>7. TypeInv'
  BY <1>1, <1>2, <1>3, <1>4, <1>5 DEF TypeInv
<1>8. CheckInv'
  <2>1. ~buttons /\ ~touched /\ ~Scheduled("button")
    BY <1>1 DEF CheckInv
  <2>2. ~Scheduled("button")'
    BY <1>3, <2>1 DEF Scheduled
  <2> QED
    BY <1>2, <1>3, <1>4, <2>1, <2>2 DEF CheckInv
<1>9. ClockInv'
  <2>1. /\ ages.asked \in 0 .. OLD /\ ages.touch \in 0 .. OLD /\ ages.get \in 0 .. OLD
        /\ ages.cleanup \in 0 .. HALF_PERIOD
    BY <1>1 DEF TypeInv, Ages
  <2>2. /\ wink_permission = Waiting => w = Waiting
        /\ wink_permission # Waiting =>
             /\ wink_permission \in Int /\ 1 <= wink_permission
             /\ wink_permission <= WINK_DURATION /\ w = wink_permission - d
    <3>1. wink_permission = Waiting => w = Waiting
      BY DEF Passed
    <3>2. wink_permission # Waiting =>
             /\ wink_permission \in Int /\ 1 <= wink_permission
             /\ wink_permission <= WINK_DURATION
      BY <1>1, <1>2 DEF ClockInv
    <3>3. wink_permission # Waiting => w = wink_permission - d
      BY <3>2, PassedIs, Durations
    <3> QED
      BY <3>1, <3>2, <3>3
  <2>3. ASSUME NEW x, NEW age \in 0 .. OLD, NEW t \in Nat, 1 <= t, t <= OLD,
               Counted(x, age, t, ages.cleanup),
               NEW y, y = IF is_granted(w) THEN Passed(x, d) ELSE check_expiration(Passed(x, d))
        PROVE  Counted(y, Aged(age, d), t, ages'.cleanup)
    <3>1. Counted(Passed(x, d), Aged(age, d), t, Lapsed(ages.cleanup, d))
      BY <2>1, <2>3, CountedPasses
    <3>2. Aged(age, d) \in Nat /\ Lapsed(ages.cleanup, d) \in 0 .. HALF_PERIOD
      BY <2>1, Durations DEF Aged, Lapsed
    <3> HIDE DEF w
    <3>3. CASE is_granted(w)
      BY <1>5, <2>3, <3>1, <3>3
    <3>4. CASE ~is_granted(w)
      BY <1>5, <2>3, <3>1, <3>2, <3>4, CountedCleaned
    <3> QED
      BY <3>3, <3>4
  <2>4. /\ needs_up' = IF is_granted(w) THEN Passed(needs_up, d)
                       ELSE check_expiration(Passed(needs_up, d))
        /\ has_up' = IF is_granted(w) THEN Passed(has_up, d)
                     ELSE check_expiration(Passed(has_up, d))
    BY <1>4 DEF Cleaned
  <2> HIDE DEF w, c
  <2>5. /\ Counted(needs_up, ages.asked, REQUEST_DURATION, ages.cleanup)
        /\ Counted(has_up, ages.touch, PRESENCE_DURATION, ages.cleanup)
    BY <1>1 DEF ClockInv
  <2>6. /\ Counted(needs_up', Aged(ages.asked, d), REQUEST_DURATION, ages'.cleanup)
        /\ Counted(has_up', Aged(ages.touch, d), PRESENCE_DURATION, ages'.cleanup)
    BY <2>1, <2>3, <2>4, <2>5, Durations
  <2>8. /\ Counted(needs_up, ages.asked, REQUEST_DURATION, ages.cleanup)'
        /\ Counted(has_up, ages.touch, PRESENCE_DURATION, ages.cleanup)'
    BY <1>5, <2>6 DEF Counted
  <2>9. permission' # Waiting =>
          /\ permission' \in Int /\ permission' < HALF_PERIOD /\ permission' >= -1
          /\ command_type' = "get" /\ permission' > 0
               => permission' + ages'.get <= STATEFUL_DURATION
    <3>1. permission # Waiting =>
            /\ permission \in Int /\ permission < HALF_PERIOD /\ permission >= 0
            /\ command_type = "get" /\ permission > 0
                 => permission + ages.get <= STATEFUL_DURATION
      BY <1>1, <1>2 DEF ClockInv
    <3>2. permission # Waiting => permission' = permission - d
      BY <1>4, <3>1, PassedIs, Durations
    <3>3. permission = Waiting => permission' = Waiting
      BY <1>4 DEF Passed
    <3>4. ages'.get <= ages.get + d /\ ages'.get \in Nat
      BY <1>5, <2>1, Durations DEF Aged
    <3> QED
      BY <1>4, <2>1, <3>1, <3>2, <3>3, <3>4, Durations
  <2>10. wink_permission' # Waiting =>
           /\ wink_permission' \in Int /\ wink_permission' <= WINK_DURATION
           /\ wink_permission' >= 0
    BY <1>4, <2>2, Durations
  <2> QED
    BY <1>2, <2>8, <2>9, <2>10 DEF ClockInv
<1>10. SentIsTaken' /\ KernelPanicsOnlyOnStale' /\ PresenceJustified' /\ PermissionsFresh'
  BY <1>3, <1>4
  DEF DeviceInv, SentIsTaken, KernelPanicsOnlyOnStale, PresenceJustified, PermissionsFresh
<1> QED
  BY <1>6, <1>7, <1>8, <1>9, <1>10 DEF DeviceInv

\* The wink permission after a reception.
LEMMA WinkPasses ==
  ASSUME ClockInv, Receiving, NEW d \in 0 .. 1
  PROVE  /\ wink_permission = Waiting => Passed(wink_permission, d) = Waiting
         /\ wink_permission # Waiting =>
              /\ wink_permission \in Int /\ wink_permission <= WINK_DURATION
              /\ wink_permission >= 0 /\ Passed(wink_permission, d) = wink_permission - d
<1>1. wink_permission # Waiting =>
        /\ wink_permission \in Int /\ wink_permission <= WINK_DURATION /\ wink_permission >= 0
  BY DEF ClockInv
<1>2. wink_permission # Waiting => Passed(wink_permission, d) = wink_permission - d
  BY <1>1, PassedIs, Durations
<1> QED
  BY <1>1, <1>2 DEF Passed

\* The U2F state u with the ages now.
U2fCounted(u, now) ==
  /\ Counted(u.needs_up, now.asked, REQUEST_DURATION, now.cleanup)
  /\ Counted(u.has_up, now.touch, PRESENCE_DURATION, now.cleanup)
  /\ now \in Ages

\* The touch is recorded, when it answers a request, as the code grants it, unless
\* the state was not cleaned up for too long.
LEMMA TouchCounted ==
  ASSUME TypeInv, ClockInv, NEW d \in 0 .. 1
  PROVE  LET up == [needs_up |-> Passed(needs_up, d), has_up |-> Passed(has_up, d)]
             u == IF touched THEN grant_up(up) ELSE up
             now == Touching(Older(d))
         IN  U2fCounted(u, now) /\ now.get = Aged(ages.get, d)
<1> DEFINE up == [needs_up |-> Passed(needs_up, d), has_up |-> Passed(has_up, d)]
           u == IF touched THEN grant_up(up) ELSE up
           old == Older(d)
           clean == CleanedUp(old)
           now == Touching(old)
           n == Passed(needs_up, d)
           h == Passed(has_up, d)
<1>1. /\ ages \in Ages /\ touched \in BOOLEAN
      /\ ages.asked \in 0 .. OLD /\ ages.touch \in 0 .. OLD /\ ages.cleanup \in 0 .. HALF_PERIOD
  BY DEF TypeInv, Ages
<1>2. /\ old \in Ages /\ old.asked = Aged(ages.asked, d)
      /\ old.touch = Aged(ages.touch, d) /\ old.get = Aged(ages.get, d)
      /\ old.cleanup = Lapsed(ages.cleanup, d)
  BY <1>1, OlderIs
<1>3. /\ clean \in Ages /\ clean.asked = old.asked /\ clean.touch = old.touch
      /\ clean.get = old.get
      /\ clean.cleanup = IF old.cleanup < HALF_PERIOD THEN 0 ELSE old.cleanup
  BY <1>2, CleanedUpIs
<1>4. /\ Counted(n, old.asked, REQUEST_DURATION, old.cleanup)
      /\ Counted(h, old.touch, PRESENCE_DURATION, old.cleanup)
  BY <1>1, <1>2, CountedPasses, Durations DEF ClockInv
<1>5. /\ old.asked \in 0 .. OLD /\ old.touch \in 0 .. OLD /\ old.cleanup \in 0 .. HALF_PERIOD
      /\ old.asked \in Nat /\ old.touch \in Nat /\ clean.cleanup \in 0 .. HALF_PERIOD
  BY <1>2, <1>3, Durations DEF Ages
<1> HIDE DEF old, n, h
<1>6. /\ Counted(check_expiration(n), old.asked, REQUEST_DURATION, clean.cleanup)
      /\ Counted(check_expiration(h), old.touch, PRESENCE_DURATION, clean.cleanup)
  BY <1>3, <1>4, <1>5, CountedCleaned, Durations
<1>7. CASE ~touched
  <2>1. u.needs_up = n /\ u.has_up = h /\ now = old
    BY <1>7 DEF Touching, n, h
  <2> HIDE DEF u, now
  <2> QED
    BY <1>2, <1>4, <2>1 DEF U2fCounted, u, now, old
<1>8. CASE touched
  <2>1. is_granted(check_expiration(n)) <=> is_granted(n)
    BY DEF check_expiration, is_granted
  <2>2. old.asked < REQUEST_DURATION => is_granted(n)
    BY <1>4, <1>5, Durations DEF Counted, is_granted
  <2>3. is_granted(n) /\ ~(old.asked < REQUEST_DURATION) => ~(old.cleanup < HALF_PERIOD)
    BY <1>4, <1>5, Durations DEF Counted, is_granted
  <2>4. CASE is_granted(n)
    <3>1. u.needs_up = Waiting /\ u.has_up = Granted(PRESENCE_DURATION, 0)
      BY <1>8, <2>1, <2>4 DEF grant_up, Cleaned, n
    <3>2. u.has_up = PRESENCE_DURATION /\ PRESENCE_DURATION # Waiting
      BY <3>1, GrantedIs, Durations, WaitingIsNoNumber
    <3>3. CASE old.asked < REQUEST_DURATION
      <4>1. now = [clean EXCEPT !.asked = OLD, !.touch = 0]
        BY <1>5, <1>8, <3>3, Durations DEF Touching
      <4> HIDE DEF u, now, clean
      <4>2. /\ now \in Ages /\ now.asked = OLD /\ now.touch = 0 /\ now.get = old.get
            /\ now.cleanup = clean.cleanup
        <5>1. OLD \in 0 .. OLD /\ 0 \in 0 .. OLD
          BY Durations
        <5> QED
          BY <1>3, <4>1, <5>1 DEF Ages
      <4>3. /\ Counted(u.needs_up, now.asked, REQUEST_DURATION, now.cleanup)
            /\ Counted(u.has_up, now.touch, PRESENCE_DURATION, now.cleanup)
        BY <1>5, <3>1, <3>2, <4>2, CountedGranted, CountedWaiting, Durations
      <4> QED
        BY <1>2, <4>2, <4>3 DEF U2fCounted, u, now, old
    <3>4. CASE ~(old.asked < REQUEST_DURATION)
      <4>1. now = clean
        BY <1>5, <1>8, <3>4, Durations DEF Touching
      <4>2. now.cleanup = old.cleanup /\ ~(now.cleanup < HALF_PERIOD)
        BY <1>3, <2>3, <2>4, <3>4, <4>1
      <4> HIDE DEF u, now, clean
      <4>3. Counted(u.needs_up, now.asked, REQUEST_DURATION, now.cleanup)
        BY <1>3, <3>1, <3>4, <4>1 DEF Counted
      <4>4. Counted(u.has_up, now.touch, PRESENCE_DURATION, now.cleanup)
        BY <1>3, <1>5, <3>2, <4>1, <4>2, Durations DEF Counted
      <4> QED
        BY <1>2, <1>3, <4>1, <4>3, <4>4 DEF U2fCounted, u, now, old
    <3> QED
      BY <3>3, <3>4
  <2>5. CASE ~is_granted(n)
    <3>1. u.needs_up = check_expiration(n) /\ u.has_up = check_expiration(h)
      BY <1>8, <2>1, <2>5 DEF grant_up, Cleaned, n, h
    <3>2. ~(old.asked < REQUEST_DURATION)
      BY <2>2, <2>5
    <3>3. now = clean
      BY <1>5, <1>8, <3>2, Durations DEF Touching
    <3> HIDE DEF u, now, clean
    <3> QED
      BY <1>2, <1>3, <1>6, <3>1, <3>3 DEF U2fCounted, u, now, old
  <2> QED
    BY <2>4, <2>5
<1> QED
  BY <1>1, <1>7, <1>8

\* What a reception d later makes of the permissions.
Received(d) ==
  /\ U2fCounted([needs_up |-> needs_up', has_up |-> has_up'], ages')
  /\ \/ wink_permission' = Waiting
     \/ wink_permission' = check_expiration(Passed(wink_permission, d)) /\ pc' = "reply"
     \/ wink_permission' = WINK_DURATION /\ pc' = "reply"
  /\ permission' = check_expiration(Passed(permission, d))
  /\ command_type' = "get" => command_type = "get" /\ ages'.get = Aged(ages.get, d)
  /\ pc' = "notify" => /\ needs_up' = Waiting /\ has_up' = Waiting /\ wink_permission' = Waiting
                       /\ command_type' = "none" /\ ages'.get = 0
                       /\ status = "received" /\ usb.buffer.cmd = "get" /\ result' = "none"
  /\ result' \in {"none", "u2f", "refused", "next", "not_allowed"}
  /\ PermissionsFresh'

\* Every request keeps the permissions in step with the time.
LEMMA ReceivedIs ==
  ASSUME TypeInv, UsbInv, ClockInv, NEW d \in 0 .. 1, EndRecv(d)
  PROVE  Received(d) /\ pc' \in {"notify", "reply"}
<1> DEFINE received == status = "received"
           up == [needs_up |-> Passed(needs_up, d), has_up |-> Passed(has_up, d)]
           u == IF touched THEN grant_up(up) ELSE up
           p == check_expiration(Passed(permission, d))
           w == check_expiration(Passed(wink_permission, d))
           now == Touching(Older(d))
           cmd == IF received THEN usb.buffer.cmd ELSE "none"
<1>1. Receiving
  BY DEF EndRecv, Receiving
<1>2. U2fCounted(u, now) /\ now.get = Aged(ages.get, d)
  BY TouchCounted
<1>3. (CASE cmd = "none" -> Answer(u, p, command_type, w, 0, "none", OLD, now)
        [] cmd = "cancel" -> Answer(u, p, command_type, Waiting, 0, "none", OLD, now)
        [] cmd = "wink" ->
             Answer(u, p, command_type, Granted(WINK_DURATION, 0), 1, "none", OLD, now)
        [] cmd = "u2f" -> ProcessU2f(u, p, now)
        [] cmd = "next" -> ProcessNext(p, now)
        [] cmd = "get" -> Answer(NewU2f, p, "none", Waiting, 0, "none", OLD,
                                 [Forgotten(now) EXCEPT !.get = 0]))
  BY DEF EndRecv
<1>4. pc' = IF cmd = "get" THEN "notify" ELSE "reply"
  BY DEF EndRecv
<1>5. cmd \in {"none", "u2f", "get", "next", "cancel", "wink"}
  <2>1. received => usb.buffer \in Packets
    BY DEF UsbInv, TypeInv, UsbStates
  <2>2. \A q \in Packets : q.cmd \in {"u2f", "get", "next", "cancel", "wink"}
    BY DeviceAssumption
  <2> QED
    BY <2>1, <2>2
<1>7. cmd = "get" => status = "received" /\ usb.buffer.cmd = "get"
  OBVIOUS
<1>9. now \in Ages /\ OLD \in 0 .. OLD /\ 0 \in 0 .. OLD
  BY <1>2, Durations DEF U2fCounted
<1>10. p # Waiting =>
         /\ p \in Int /\ p >= 1
         /\ command_type = "get" => p + now.get <= STATEFUL_DURATION
  <2>1. permission # Waiting =>
          /\ permission \in Int /\ permission < HALF_PERIOD /\ permission >= -1
          /\ command_type = "get" /\ permission > 0
               => permission + ages.get <= STATEFUL_DURATION
    BY <1>1 DEF ClockInv
  <2>2. permission # Waiting => Passed(permission, d) = permission - d
    BY <2>1, PassedIs, Durations
  <2>3. permission = Waiting => p = Waiting
    BY DEF Passed, check_expiration, is_granted
  <2>4. p # Waiting => p = permission - d /\ p > 0 /\ permission # Waiting
    BY <2>2, <2>3 DEF check_expiration, is_granted
  <2>5. now.get <= ages.get + d /\ now.get \in Nat /\ ages.get \in Nat
    BY <1>2, Durations DEF Aged, TypeInv, Ages
  <2> HIDE DEF p, now
  <2> QED
    BY <2>1, <2>4, <2>5, Durations
<1> HIDE DEF u, p, w, now, cmd, received
<1>11. ASSUME Answer(u, p, command_type, wink_permission', left', "none", OLD, now), cmd # "get",
              \/ wink_permission' = Waiting
              \/ wink_permission' = w
              \/ wink_permission' = WINK_DURATION /\ cmd = "wink"
       PROVE  Received(d)
  <2>1. U2fCounted([needs_up |-> needs_up', has_up |-> has_up'], ages')
    BY <1>2, <1>11 DEF Answer, U2fCounted
  <2>2. /\ permission' = p /\ command_type' = command_type /\ ages'.get = now.get
        /\ result' = "none" /\ pc' = "reply"
    BY <1>4, <1>11 DEF Answer
  <2> QED
    BY <1>2, <1>11, <2>1, <2>2 DEF Received, PermissionsFresh, p, w
<1>12. CASE cmd = "none"
  <2>1. Answer(u, p, command_type, w, 0, "none", OLD, now)
    BY <1>3, <1>12
  <2> QED
    BY <1>4, <1>11, <1>12, <2>1 DEF Answer
<1>13. CASE cmd = "cancel"
  <2>1. Answer(u, p, command_type, Waiting, 0, "none", OLD, now)
    BY <1>3, <1>13
  <2> QED
    BY <1>4, <1>11, <1>13, <2>1 DEF Answer
<1>14. CASE cmd = "wink"
  <2>1. Answer(u, p, command_type, Granted(WINK_DURATION, 0), 1, "none", OLD, now)
    BY <1>3, <1>14
  <2>2. Granted(WINK_DURATION, 0) = WINK_DURATION
    BY GrantedIs, Durations
  <2> QED
    BY <1>4, <1>11, <1>14, <2>1, <2>2 DEF Answer
<1>15. CASE cmd = "u2f"
  <2> DEFINE c == Cleaned(u)
  <2>1. ProcessU2f(u, p, now)
    BY <1>3, <1>15
  <2>2. c.needs_up = check_expiration(u.needs_up) /\ c.has_up = check_expiration(u.has_up)
    BY DEF Cleaned
  <2> DEFINE clean == CleanedUp(now)
  <2>3. /\ clean \in Ages /\ clean.asked = now.asked /\ clean.touch = now.touch
        /\ clean.get = now.get
        /\ clean.cleanup = IF now.cleanup < HALF_PERIOD THEN 0 ELSE now.cleanup
    BY <1>9, CleanedUpIs
  <2>4. pc' = "reply"
    BY <1>4, <1>15
  <2>5. /\ now.asked \in 0 .. OLD /\ now.touch \in 0 .. OLD /\ now.asked \in Nat
        /\ now.touch \in Nat /\ now.cleanup \in 0 .. HALF_PERIOD
        /\ clean.cleanup \in 0 .. HALF_PERIOD
    BY <1>9, <2>3, Durations DEF Ages
  <2>6. /\ Counted(c.needs_up, now.asked, REQUEST_DURATION, clean.cleanup)
        /\ Counted(c.has_up, now.touch, PRESENCE_DURATION, clean.cleanup)
    BY <1>2, <2>2, <2>3, <2>5, CountedCleaned, Durations DEF U2fCounted
  <2>7. CASE is_granted(c.has_up)
    <3>1. /\ needs_up' = c.needs_up /\ has_up' = Waiting /\ wink_permission' = Waiting
          /\ permission' = p /\ command_type' = command_type /\ result' = "u2f"
          /\ used' = now.touch /\ ages' = [clean EXCEPT !.touch = OLD]
      BY <2>1, <2>7 DEF ProcessU2f, consume_up, Answer, Cleaned
    <3> HIDE DEF c, clean
    <3>2. /\ ages' \in Ages /\ ages'.asked = now.asked /\ ages'.touch = OLD
          /\ ages'.get = now.get /\ ages'.cleanup = clean.cleanup
      BY <1>9, <2>3, <3>1 DEF Ages
    <3>3. U2fCounted([needs_up |-> needs_up', has_up |-> has_up'], ages')
      BY <2>6, <3>1, <3>2, CountedWaiting, Durations DEF U2fCounted
    <3>4. ages'.cleanup < HALF_PERIOD => used' < PRESENCE_DURATION
      <4>1. clean.cleanup < HALF_PERIOD =>
              c.has_up \in Int /\ c.has_up > 0 /\ c.has_up + now.touch = PRESENCE_DURATION
        BY <2>6, <2>7 DEF Counted, is_granted
      <4> QED
        BY <2>5, <3>1, <3>2, <4>1, Durations
    <3> QED
      BY <1>2, <2>4, <3>1, <3>2, <3>3, <3>4 DEF Received, PermissionsFresh, p
  <2>8. CASE ~is_granted(c.has_up)
    <3>1. /\ needs_up' = Granted(REQUEST_DURATION, 0) /\ has_up' = c.has_up
          /\ wink_permission' = Waiting
          /\ permission' = p /\ command_type' = command_type /\ result' = "refused"
          /\ used' = now.touch /\ ages' = [clean EXCEPT !.asked = 0]
      BY <2>1, <2>8 DEF ProcessU2f, consume_up, Answer, Cleaned
    <3> HIDE DEF c, clean
    <3>2. /\ ages' \in Ages /\ ages'.asked = 0 /\ ages'.touch = now.touch
          /\ ages'.get = now.get /\ ages'.cleanup = clean.cleanup
      BY <1>9, <2>3, <3>1 DEF Ages
    <3>3. needs_up' = REQUEST_DURATION
      BY <3>1, GrantedIs, Durations
    <3>4. Counted(needs_up', 0, REQUEST_DURATION, clean.cleanup)
      BY <2>5, <3>3, CountedGranted, Durations
    <3>5. U2fCounted([needs_up |-> needs_up', has_up |-> has_up'], ages')
      BY <2>6, <3>1, <3>2, <3>4 DEF U2fCounted
    <3>6. used' >= PRESENCE_DURATION
      BY <2>5, <2>6, <2>8, <3>1, Durations DEF Counted, is_granted
    <3> QED
      BY <1>2, <2>4, <3>1, <3>2, <3>5, <3>6 DEF Received, PermissionsFresh, p
  <2> QED
    BY <2>7, <2>8
<1>16. ASSUME NEW r, r \in Ages, r.asked = OLD, r.touch = OLD
       PROVE  U2fCounted([needs_up |-> Waiting, has_up |-> Waiting], r)
  BY <1>16, Durations DEF U2fCounted, Counted
<1>17. /\ Forgotten(now) \in Ages /\ Forgotten(now).asked = OLD /\ Forgotten(now).touch = OLD
       /\ Forgotten(now).get = now.get
  <2>1. 0 \in 0 .. HALF_PERIOD
    BY Durations
  <2> QED
    BY <1>9, <2>1 DEF Forgotten, Ages
<1>18. CASE cmd = "next"
  <2> DEFINE allowed == command_type = "get" /\ is_granted(check_expiration(p))
  <2>1. ProcessNext(p, now)
    BY <1>3, <1>18
  <2>2. check_expiration(p) = p
    BY DEF p, check_expiration, is_granted
  <2>3. /\ needs_up' = Waiting /\ has_up' = Waiting /\ wink_permission' = Waiting
        /\ permission' = p
        /\ command_type' = IF command_type = "get" /\ ~allowed THEN "get" ELSE "none"
        /\ result' = IF allowed THEN "next" ELSE "not_allowed"
        /\ used' = now.get /\ ages' = Forgotten(now)
    BY <2>1, <2>2 DEF ProcessNext, Answer, NewU2f
  <2>4. U2fCounted([needs_up |-> needs_up', has_up |-> has_up'], ages')
    BY <1>16, <1>17, <2>3
  <2>5. result' = "next" => used' < STATEFUL_DURATION
    <3>1. now.get \in 0 .. OLD
      BY <1>9 DEF Ages
    <3>2. result' = "next" => allowed
      BY <2>3
    <3> QED
      BY <1>10, <2>2, <2>3, <3>1, <3>2, Durations DEF is_granted
  <2>6. pc' = "reply" /\ result' \in {"next", "not_allowed"} /\ ages'.get = Aged(ages.get, d)
    BY <1>2, <1>4, <1>17, <1>18, <2>3
  <2>7. command_type' = "get" => command_type = "get"
    BY <2>3
  <2> QED
    BY <2>3, <2>4, <2>5, <2>6, <2>7 DEF Received, PermissionsFresh, p
<1>19. CASE cmd = "get"
  <2>1. Answer(NewU2f, p, "none", Waiting, 0, "none", OLD, [Forgotten(now) EXCEPT !.get = 0])
    BY <1>3, <1>19
  <2>2. /\ needs_up' = Waiting /\ has_up' = Waiting /\ wink_permission' = Waiting
        /\ permission' = p /\ command_type' = "none" /\ result' = "none"
        /\ ages' = [Forgotten(now) EXCEPT !.get = 0]
    BY <2>1 DEF Answer, NewU2f
  <2>3. ages' \in Ages /\ ages'.asked = OLD /\ ages'.touch = OLD /\ ages'.get = 0
    BY <1>9, <1>17, <2>2 DEF Ages
  <2>4. U2fCounted([needs_up |-> needs_up', has_up |-> has_up'], ages')
    BY <1>16, <2>2, <2>3
  <2> QED
    BY <1>4, <1>7, <1>19, <2>2, <2>3, <2>4 DEF Received, PermissionsFresh, p
<1> QED
  BY <1>4, <1>5, <1>12, <1>13, <1>14, <1>15, <1>18, <1>19

\* A packet is received and processed, or the reception timed out.
LEMMA EndRecvStep ==
  ASSUME DeviceInv, NEW d \in 0 .. 1, EndRecv(d) PROVE DeviceInv'
<1>1. /\ Running /\ TypeInv /\ UsbInv /\ CheckInv /\ ClockInv /\ pc = "receiving"
  BY DEF DeviceInv, EndRecv, Running
<1>2. Received(d) /\ pc' \in {"notify", "reply"}
  BY <1>1, ReceivedIs
<1>3. /\ Calling /\ Receiving /\ ~Calling' /\ ~Receiving' /\ Running'
      /\ Checking' <=> pc' = "notify"
      /\ Replying' <=> pc' = "reply"
  BY <1>1, <1>2 DEF Calling, Checking, Receiving, Replying, Running
<1>4. /\ UNCHANGED <<panic, cancelled>>
      /\ buttons' = FALSE /\ touched' = FALSE /\ pressed' = FALSE /\ status' = "none"
      /\ request' = IF status = "received" THEN usb.buffer ELSE NoPacket
      /\ usb' = NoButtons(Finished(usb))
  BY DEF EndRecv, check
<1>5. Released(usb') /\ ~Scheduled("button")'
  BY <1>1, <1>3, <1>4, FinishedIs DEF Scheduled
<1>6. panic' = "no" /\ ~cancelled'
  BY <1>1, <1>3, <1>4 DEF UsbInv, CheckInv
<1>7. UsbInv' /\ usb' \in UsbStates
  BY <1>3, <1>4, <1>5, <1>6, ReleasedOwesNothing
<1>8. /\ usb'.delayed_out = usb.delayed_out /\ usb'.buffer = NoPacket
      /\ ~IsCancel(NoPacket)
  BY <1>5 DEF Released, IsCancel
<1>9. status = "received" => usb.buffer \in Packets /\ usb.buffer # NoPacket
  BY <1>1 DEF UsbInv, TypeInv, UsbStates
<1>10. TypeInv'
  <2>1. request' \in Packets \union {NoPacket}
    BY <1>4, <1>9
  <2>2. ages' \in Ages /\ result' \in {"none", "u2f", "refused", "next", "not_allowed"}
    BY <1>2 DEF Received, U2fCounted
  <2> QED
    BY <1>1, <1>2, <1>3, <1>4, <1>7, <2>1, <2>2 DEF TypeInv
<1>11. CheckInv'
  <2>1. Checking' => request' # NoPacket /\ result' = "none"
    BY <1>2, <1>3, <1>4, <1>9 DEF Received
  <2>2. Checking' /\ IsCancel(usb'.delayed_out) => usb'.delayed_out.cid \in cancels'
    <3>1. Checking' => status = "received" /\ usb.buffer.cmd = "get"
      BY <1>2, <1>3 DEF Received
    <3>2. cancels' = IF /\ status = "received" /\ usb.buffer.cmd = "get"
                        /\ usb.delayed_out # NoPacket /\ usb.delayed_out.cmd = "cancel"
                     THEN {usb.delayed_out.cid} ELSE {}
      BY DEF EndRecv
    <3> QED
      BY <1>8, <3>1, <3>2 DEF IsCancel
  <2> QED
    BY <1>3, <1>4, <1>5, <1>6, <1>8, <2>1, <2>2 DEF CheckInv
<1>12. ClockInv'
  <2> DEFINE w == Passed(wink_permission, d)
  <2>2. /\ Counted(needs_up', ages'.asked, REQUEST_DURATION, ages'.cleanup)
        /\ Counted(has_up', ages'.touch, PRESENCE_DURATION, ages'.cleanup)
        /\ ages' \in Ages
    BY <1>2 DEF Received, U2fCounted
  <2>3. Checking' => needs_up' = Waiting /\ has_up' = Waiting /\ wink_permission' = Waiting
    BY <1>2, <1>3 DEF Received
  <2>4. \/ wink_permission' = Waiting
        \/ wink_permission' = w /\ is_granted(w)
        \/ wink_permission' = WINK_DURATION
    BY <1>2 DEF Received, check_expiration
  <2>5. is_granted(w) => w \in Int /\ w >= 1 /\ w <= WINK_DURATION
    BY <1>1, <1>3, WinkPasses, Durations DEF is_granted
  <2>9. permission' # Waiting =>
          /\ permission' \in Int /\ permission' < HALF_PERIOD /\ permission' >= 1
          /\ command_type' = "get" => permission' + ages'.get <= STATEFUL_DURATION
    <3>1. permission # Waiting =>
            /\ permission \in Int /\ permission < HALF_PERIOD /\ permission >= -1
            /\ command_type = "get" /\ permission > 0
                 => permission + ages.get <= STATEFUL_DURATION
      BY <1>1, <1>3 DEF ClockInv
    <3>2. permission # Waiting => Passed(permission, d) = permission - d
      BY <3>1, PassedIs, Durations
    <3>3. permission' = check_expiration(Passed(permission, d))
      BY <1>2 DEF Received
    <3>4. permission = Waiting => permission' = Waiting
      BY <3>3 DEF Passed, check_expiration, is_granted
    <3>5. permission' # Waiting => permission' = permission - d /\ permission' > 0
      BY <3>2, <3>3, <3>4 DEF check_expiration, is_granted
    <3>6. command_type' = "get" =>
            /\ command_type = "get" /\ ages.get \in Nat /\ ages'.get \in Nat
            /\ ages'.get <= ages.get + d
      <4>1. ages.get \in 0 .. OLD
        BY <1>1 DEF TypeInv, Ages
      <4>2. command_type' = "get" => command_type = "get" /\ ages'.get = Aged(ages.get, d)
        BY <1>2 DEF Received
      <4> QED
        BY <4>1, <4>2, Durations DEF Aged
    <3> QED
      BY <3>1, <3>4, <3>5, <3>6, Durations
  <2>10. wink_permission' # Waiting =>
           /\ wink_permission' \in Int /\ wink_permission' <= WINK_DURATION
           /\ wink_permission' >= 1
    BY <2>4, <2>5, Durations
  <2>11. Checking' => command_type' = "none" /\ ages'.get = 0
    BY <1>2, <1>3 DEF Received
  <2>12. /\ Counted(needs_up, ages.asked, REQUEST_DURATION, ages.cleanup)'
         /\ Counted(has_up, ages.touch, PRESENCE_DURATION, ages.cleanup)'
    BY <2>2 DEF Counted
  <2> QED
    BY <1>3, <2>3, <2>9, <2>10, <2>11, <2>12 DEF ClockInv
<1>13. PresenceJustified' /\ PermissionsFresh'
  BY <1>2 DEF Received, PresenceJustified
<1>14. SentIsTaken' /\ KernelPanicsOnlyOnStale'
  BY <1>4, <1>6 DEF SentIsTaken, KernelPanicsOnlyOnStale
<1> QED
  BY <1>7, <1>10, <1>11, <1>12, <1>13, <1>14 DEF DeviceInv

-----------------------------------------------------------------------------
\* The invariant.

\* It holds when the device boots.
LEMMA DeviceInit == ASSUME Init PROVE DeviceInv
<1>1. usb \in UsbStates /\ usb = Idle
  BY DEF Init, Idle, UsbStates
<1>2. /\ Running /\ Receiving /\ ~Checking /\ ~Replying /\ ~Calling
  BY DEF Init, Running, Receiving, Checking, Replying, Calling
<1>3. \A x : ~Scheduled(x)
  BY <1>1 DEF Idle, Scheduled, In
<1>4. TypeInv
  <2>1. OLD \in 0 .. OLD /\ 0 \in 0 .. HALF_PERIOD
    BY Durations
  <2>2. ages \in Ages
    BY <2>1 DEF Init, Ages
  <2> QED
    BY <1>1, <1>2, <2>2 DEF Init, TypeInv
<1>5. UsbInv
  BY <1>1, <1>2, <1>3 DEF Init, UsbInv, Idle
<1>6. CheckInv
  BY <1>2, <1>3 DEF Init, CheckInv
<1>7. ClockInv
  <2>1. permission = RESET_DURATION /\ command_type = "reset"
    BY GrantedIs, Durations DEF Init
  <2>2. /\ Counted(needs_up, ages.asked, REQUEST_DURATION, ages.cleanup)
        /\ Counted(has_up, ages.touch, PRESENCE_DURATION, ages.cleanup)
    BY Durations, CountedWaiting DEF Init
  <2> QED
    BY <1>2, <2>1, <2>2, Durations DEF Init, ClockInv
<1>8. PresenceJustified /\ PermissionsFresh /\ SentIsTaken /\ KernelPanicsOnlyOnStale
  BY DEF Init, PresenceJustified, PermissionsFresh, SentIsTaken, KernelPanicsOnlyOnStale
<1> QED
  BY <1>4, <1>5, <1>6, <1>7, <1>8 DEF DeviceInv

\* Nothing changes.
LEMMA DeviceStutters == ASSUME DeviceInv, UNCHANGED vars PROVE DeviceInv'
<1>1. /\ UNCHANGED <<pc, usb, status, buttons, touched, request, cancelled, panic>>
      /\ UNCHANGED <<needs_up, has_up, permission, command_type, wink_permission>>
      /\ UNCHANGED <<result, used, ages, pressed, cancels>>
  BY DEF vars, call, check, permissions, history
<1> QED
  BY <1>1
  DEF DeviceInv, TypeInv, UsbInv, CheckInv, ClockInv, PresenceJustified, PermissionsFresh,
      SentIsTaken, KernelPanicsOnlyOnStale, Running, Calling, Checking, Replying, Receiving,
      Scheduled, Counted

\* Every step preserves it.
LEMMA DeviceStep == ASSUME DeviceInv, [Next]_vars PROVE DeviceInv'
<1>1. CASE App
  <2>1. CASE StartRecv
    <3>1. StartsFrom("receive", "receiving") /\ Start("receive", "receiving", usb)
      BY <2>1 DEF StartRecv, StartsFrom
    <3> QED
      BY <2>1, <3>1, StartStep DEF StartRecv
  <2>2. CASE StartReply
    <3>1. /\ StartsFrom("transmit_or_receive", "replying")
          /\ Start("transmit_or_receive", "replying", usb)
      BY <2>2 DEF StartReply, StartsFrom
    <3> QED
      BY <2>2, <3>1, StartStep DEF StartReply
  <2>3. CASE StartNotify
    <3>1. /\ StartsFrom("transmit_or_receive", "notifying")
          /\ Start("transmit_or_receive", "notifying", usb)
      BY <2>3 DEF StartNotify, StartKeepalive, StartsFrom
    <3> QED
      BY <2>3, <3>1, StartStep DEF StartNotify, StartKeepalive
  <2>4. CASE SendKeepalive
    <3>1. /\ StartsFrom("transmit_or_receive", "keeping")
          /\ Start("transmit_or_receive", "keeping", usb)
      BY <2>4 DEF SendKeepalive, StartKeepalive, StartsFrom
    <3> QED
      BY <2>4, <3>1, StartStep DEF SendKeepalive, StartKeepalive
  <2> QED
    BY <1>1, <2>1, <2>2, <2>3, <2>4, CallbackStep, EndRecvStep, EndReplyStep, LoopEndStep,
       EndKeepaliveStep, PollStep, FinishCheckStep DEF App
<1>2. CASE Environment
  BY <1>2, PacketInStep, HostTakesStep, HostSendsStep, ScheduleStep DEF Environment
<1>3. CASE Halted \/ UNCHANGED vars
  BY <1>3, DeviceStutters DEF Halted
<1> QED
  BY <1>1, <1>2, <1>3 DEF Next

\* The application, its calls of the USB driver, its checks of the user's
\* presence and its permissions stay consistent, whatever the kernel, the host,
\* the alarm and the user do between two steps of the application.
THEOREM DeviceInvariant == Spec => []DeviceInv
  BY DeviceInit, DeviceStep, PTL DEF Spec

\* check_user_presence and process_get_assertion: an assertion needs a touch
\* made during its own check, and a check is only cancelled by a CANCEL that
\* was sent on the channel of its request, after the request.
THEOREM PresenceIsJustified == Spec => []PresenceJustified
<1>1. DeviceInv => PresenceJustified
  BY DEF DeviceInv
<1> QED
  BY <1>1, DeviceInvariant, PTL

\* timed_permission.rs: comparing wrapping clock values never refuses a touch that
\* is fresh, and never serves one that is not as long as half a period of the clock
\* does not pass without a clean-up, however the host interleaves its winks with
\* the requests (a wink is granted anew while the device winks).
THEOREM PermissionsStayFresh == Spec => []PermissionsFresh
<1>1. DeviceInv => PermissionsFresh
  BY DEF DeviceInv
<1> QED
  BY <1>1, DeviceInvariant, PTL

\* send_or_recv_with_timeout: a send never succeeds for a packet that an
\* earlier send gave up.
THEOREM SentPacketsAreTaken == Spec => []SentIsTaken
<1>1. DeviceInv => SentIsTaken
  BY DEF DeviceInv
<1> QED
  BY <1>1, DeviceInvariant, PTL

\* usbc_ctap_hid.rs: an assertion of the driver can only fail after the host
\* took, during a call, a packet that an earlier send gave up.
THEOREM PanicsOnlyOnStale == Spec => []KernelPanicsOnlyOnStale
<1>1. DeviceInv => KernelPanicsOnlyOnStale
  BY DEF DeviceInv
<1> QED
  BY <1>1, DeviceInvariant, PTL

=============================================================================
