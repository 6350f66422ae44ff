------------------------------- MODULE Device -------------------------------
(***************************************************************************)
(* The application of the security key: the main loop and the user         *)
(* presence check of src/main.rs, with the timed permissions of            *)
(* src/ctap/timed_permission.rs, on the USB driver of module UsbHid.       *)
(*                                                                         *)
(* The application runs until it yields; a yield executes one scheduled    *)
(* callback.  The kernel, the host, the alarm and the user act at any      *)
(* time, also between two calls of the application.  A request is one      *)
(* packet (CtapHid models how packets become requests) and a command is    *)
(* known by what it does here: "u2f" needs a touch given beforehand, "get" *)
(* waits for one and then allows "next", "cancel" ends a wait, "wink"      *)
(* grants winking.                                                         *)
(*                                                                         *)
(* A ClockValue is only ever compared with the clock, so a permission      *)
(* holds the wrapping difference of its timeout and the clock: it          *)
(* decreases as time passes and wraps from -HALF_PERIOD to HALF_PERIOD-1.  *)
(***************************************************************************)
EXTENDS UsbHid

CONSTANTS
  Waiting,              \* TimedPermission::Waiting
  HALF_PERIOD,          \* half the range of the clock
  REQUEST_DURATION,     \* U2F_UP_PROMPT_TIMEOUT
  PRESENCE_DURATION,    \* TOUCH_TIMEOUT_MS
  STATEFUL_DURATION,    \* STATEFUL_COMMAND_TIMEOUT_DURATION
  RESET_DURATION,       \* RESET_TIMEOUT_DURATION
  WINK_DURATION,        \* WINK_TIMEOUT_DURATION
  TIMEOUT_ITERATIONS,   \* iterations of check_user_presence
  REPLY_PACKETS,        \* packets of a reply to "get" and "next"
  OLD                   \* bound on the ages that the histories record

\* The clock wraps after a time that is long against every timeout.
ASSUME DeviceAssumption ==
  /\ \A p \in Packets : p.cmd \in {"u2f", "get", "next", "cancel", "wink"}
  /\ Waiting \notin Int
  /\ HALF_PERIOD \in Nat
  /\ {REQUEST_DURATION, PRESENCE_DURATION, STATEFUL_DURATION, RESET_DURATION, WINK_DURATION}
       \subseteq 1 .. HALF_PERIOD - 1
  /\ TIMEOUT_ITERATIONS \in Nat \ {0} /\ REPLY_PACKETS \in Nat \ {0}
  /\ OLD \in Nat
  /\ OLD >= REQUEST_DURATION /\ OLD >= PRESENCE_DURATION /\ OLD >= STATEFUL_DURATION

VARIABLES
  pc,                   \* where the application is
  usb,                  \* the USB driver (module UsbHid)
  alarm,                \* "off", "armed" or "fired" (callback scheduled)
  expired,              \* timeout_expired, keepalive_expired
  status,               \* what the USB callback of the call reported
  buttons,              \* the buttons are enabled
  touched,              \* button_touched
  request,              \* pkt_request, or NoPacket
  iteration,            \* i of check_user_presence
  cancelled,            \* keepalive_response.is_err()
  left,                 \* packets of the reply still to send
  needs_up, has_up,     \* u2f_up_state
  permission,           \* stateful_command_permission
  command_type,         \* stateful_command_type: "none", "reset" or "get"
  wink_permission,
  panic,                \* the application panicked
  \* History of the run, read by the properties and by no action.
  result,               \* the outcome of the current request
  used,                 \* age of what the outcome was granted for
  ages,                 \* time since the last open request for a touch, the
                        \* last touch that answers one, the last "get", the
                        \* last time the U2F state was cleaned up
  pressed,              \* the user touched a button during the check
  cancels               \* channels with a CANCEL sent after the request

call == <<usb, alarm, expired, status>>
check == <<iteration, cancelled>>
permissions == <<needs_up, has_up, permission, command_type, wink_permission>>
history == <<result, used, ages, pressed, cancels>>
vars == <<pc, call, buttons, touched, request, check, left, permissions,
          panic, history>>
-----------------------------------------------------------------------------
\* timed_permission.rs and timer.rs

Wrap(t) == ((t + HALF_PERIOD) % (2 * HALF_PERIOD)) - HALF_PERIOD

\* wrapping_add and wrapping_sub, d after the clock value of the grant.
Granted(duration, d) == Wrap(duration - d)
Passed(p, d) == IF p = Waiting THEN Waiting ELSE Wrap(p - d)

is_granted(p) == p # Waiting /\ p > 0

\* Mutant: keeps an expired permission.
check_expiration_Keep(p) == p

check_expiration(p) == IF is_granted(p) THEN p ELSE Waiting

\* U2fUserPresenceState; a state is [needs_up, has_up].
Cleaned(u) == [needs_up |-> check_expiration(u.needs_up),
               has_up |-> check_expiration(u.has_up)]

grant_up(u) ==
  LET c == Cleaned(u)
  IN  IF is_granted(c.needs_up)
      THEN [needs_up |-> Waiting, has_up |-> Granted(PRESENCE_DURATION, 0)]
      ELSE c

consume_up(u) ==
  LET c == Cleaned(u)
  IN  IF is_granted(c.has_up)
      THEN [state |-> [c EXCEPT !.has_up = Waiting], served |-> TRUE]
      ELSE [state |-> [c EXCEPT !.needs_up = Granted(REQUEST_DURATION, 0)],
            served |-> FALSE]
-----------------------------------------------------------------------------
\* The histories of time, which no wrapping affects.

Oldest == [asked |-> OLD, touch |-> OLD, get |-> OLD, cleanup |-> HALF_PERIOD]

Older(d) == [a \in DOMAIN ages |-> IF ages[a] + d > Oldest[a] THEN Oldest[a] ELSE ages[a] + d]

\* A clean-up that comes HALF_PERIOD after the last one is too late: it may
\* keep what has long expired.
CleanedUp(old) == IF old.cleanup < HALF_PERIOD THEN [old EXCEPT !.cleanup = 0] ELSE old

\* A touch counts if it answers a request that is still open; grant_up cleans up.
Touching(old) ==
  CASE touched /\ old.asked < REQUEST_DURATION ->
         [CleanedUp(old) EXCEPT !.asked = OLD, !.touch = 0]
    [] touched /\ old.asked >= REQUEST_DURATION -> CleanedUp(old)
    [] ~touched -> old
-----------------------------------------------------------------------------
\* Calls of the USB driver, with their timeout (usb_ctap_hid.rs).

\* Sets the alarm and triggers the transfer.
Start(side, next, u) ==
  LET started == start_call(u, side)
  IN  /\ usb' = started.k
      /\ expired' = FALSE
      /\ status' = "none"
      /\ alarm' = "armed"
      /\ pc' = IF started.ok THEN next ELSE "halted"
      /\ panic' = IF started.ok THEN panic ELSE "error"

Waited == status # "none" \/ expired

\* Stops the alarm, cancels the transfer, drops the callbacks.
Finished(u) ==
  LET done == finish_call(u, status)
  IN  [done EXCEPT !.callbacks = Without(@, {"alarm"})]

FinishCall == usb' = Finished(usb) /\ alarm' = "off" /\ expired' = FALSE /\ status' = "none"

\* The callbacks the application waits for: yieldk_for.
Yielding == pc \in {"receiving", "notifying", "polling", "keeping", "replying"}

Done == \/ pc = "polling" /\ (touched \/ expired)
        \/ pc # "polling" /\ Waited

RunCallback ==
  /\ Yielding /\ ~Done
  /\ usb.callbacks # <<>>
  /\ usb' = [usb EXCEPT !.callbacks = Tail(@)]
  /\ LET c == Head(usb.callbacks)
     IN  /\ expired' = (expired \/ c = "alarm")
         /\ touched' = (touched \/ c = "button")
         /\ status' = CASE c = "received" -> "received"
                        [] c = "transmitted" -> "sent"
                        [] OTHER -> status
  /\ UNCHANGED <<pc, alarm, buttons, request, check, left, permissions, panic, history>>
-----------------------------------------------------------------------------
\* main: one iteration of the loop receives, processes and replies.

StartRecv ==
  /\ pc = "receive"
  /\ Start("receive", "receiving", usb)
  /\ buttons' = TRUE
  /\ touched' = FALSE
  /\ UNCHANGED <<request, check, left, permissions, history>>

\* Callbacks of the buttons are dropped with their subscription.
NoButtons(u) == [u EXCEPT !.callbacks = Without(@, {"button"})]

\* What the requests do to the permissions and what they answer; packets = 0
\* means that nothing is sent.  u is the U2F state, p and w the permissions,
\* now the ages of the histories.
Answer(u, p, ty, w, packets, outcome, age, now) ==
  /\ needs_up' = u.needs_up /\ has_up' = u.has_up
  /\ permission' = p
  /\ command_type' = ty
  /\ wink_permission' = w
  /\ left' = packets
  /\ result' = outcome
  /\ used' = age
  /\ ages' = now

\* Ctap1Command::process_command, for the commands that need a touch.
ProcessU2f(u, p, now) ==
  LET c == consume_up(u)
  IN  IF c.served
      THEN Answer(c.state, p, command_type, Waiting, 1, "u2f", now.touch,
                  [CleanedUp(now) EXCEPT !.touch = OLD])
      ELSE Answer(c.state, p, command_type, Waiting, 1, "refused", now.touch,
                  [CleanedUp(now) EXCEPT !.asked = 0])

NewU2f == [needs_up |-> Waiting, has_up |-> Waiting]

\* A CTAP2 command forgets the requests and touches of CTAP1.
Forgotten(now) == [now EXCEPT !.asked = OLD, !.touch = OLD, !.cleanup = 0]

\* process_get_next_assertion, of an assertion with one more credential.
ProcessNext(p, now) ==
  LET allowed == command_type = "get" /\ is_granted(check_expiration(p))
  IN  Answer(NewU2f, check_expiration(p),
             IF command_type = "get" /\ ~allowed THEN "get" ELSE "none", Waiting,
             IF allowed THEN REPLY_PACKETS ELSE 1,
             IF allowed THEN "next" ELSE "not_allowed", now.get, Forgotten(now))

\* The packet received, if any, d after the last reading of the clock.
EndRecv(d) ==
  /\ pc = "receiving" /\ Done
  /\ usb' = NoButtons(Finished(usb))
  /\ alarm' = "off" /\ expired' = FALSE /\ status' = "none"
  /\ buttons' = FALSE
  /\ touched' = FALSE
  /\ pressed' = FALSE
  /\ cancels' = IF /\ status = "received" /\ usb.buffer.cmd = "get"
                   /\ usb.delayed_out # NoPacket /\ usb.delayed_out.cmd = "cancel"
                THEN {usb.delayed_out.cid} ELSE {}
  /\ LET received == status = "received"
         up == [needs_up |-> Passed(needs_up, d), has_up |-> Passed(has_up, d)]
         u == IF touched THEN grant_up(up) ELSE up
         p == check_expiration(Passed(permission, d))
         w == check_expiration(Passed(wink_permission, d))
         now == Touching(Older(d))
         cmd == IF received THEN usb.buffer.cmd ELSE "none"
     IN  /\ request' = IF received THEN usb.buffer ELSE NoPacket
         /\ pc' = IF cmd = "get" THEN "notify" ELSE "reply"
         /\ CASE cmd = "none" -> Answer(u, p, command_type, w, 0, "none", OLD, now)
              [] cmd = "cancel" -> Answer(u, p, command_type, Waiting, 0, "none", OLD, now)
              [] cmd = "wink" ->
                   Answer(u, p, command_type, Granted(WINK_DURATION, 0), 1, "none", OLD, now)
              [] cmd = "u2f" -> ProcessU2f(u, p, now)
              [] cmd = "next" -> ProcessNext(p, now)
              [] cmd = "get" -> Answer(NewU2f, p, "none", Waiting, 0, "none", OLD,
                                       [Forgotten(now) EXCEPT !.get = 0])
  /\ UNCHANGED <<check, panic>>

\* The next packet of the reply.
StartReply ==
  /\ pc = "reply" /\ left > 0
  /\ Start("transmit_or_receive", "replying", usb)
  /\ UNCHANGED <<buttons, touched, request, check, left, permissions, history>>

\* A timeout gives up the reply; a packet received instead is dropped.
EndReply ==
  /\ pc = "replying" /\ Done
  /\ FinishCall
  /\ pc' = "reply"
  /\ left' = IF status = "none" THEN 0 ELSE left - 1
  /\ UNCHANGED <<buttons, touched, request, check, permissions, panic, history>>

\* The end of the loop, d after the last reading of the clock if there was a
\* request.  is_up_needed cleans the U2F state up, unless the device winks.
LoopEnd(d) ==
  /\ pc = "reply" /\ left = 0
  /\ request = NoPacket => d = 0
  /\ LET u == [needs_up |-> Passed(needs_up, d), has_up |-> Passed(has_up, d)]
         w == Passed(wink_permission, d)
         c == IF is_granted(w) THEN u ELSE Cleaned(u)
         now == IF is_granted(w) THEN Older(d) ELSE CleanedUp(Older(d))
     IN  Answer(c, Passed(permission, d), command_type, w, 0, "none", OLD, now)
  /\ pc' = "receive"
  /\ request' = NoPacket
  /\ iteration' = 0 /\ cancelled' = FALSE
  /\ pressed' = FALSE /\ cancels' = {}
  /\ UNCHANGED <<call, buttons, touched, panic>>
-----------------------------------------------------------------------------
\* check_user_presence

\* send_keepalive_up_needed: before the check and after every wait.
StartKeepalive(at, next) ==
  /\ pc = at
  /\ Start("transmit_or_receive", next, usb)
  /\ UNCHANGED <<buttons, touched, request, check, left, permissions, history>>

StartNotify == StartKeepalive("notify", "notifying")
SendKeepalive == StartKeepalive("keepalive", "keeping")

\* Mutant: a CANCEL of any channel.
Cancel_Any == status = "received" /\ usb.buffer.cmd = "cancel"

\* Only a CANCEL of the same channel matters.
Cancel == status = "received" /\ usb.buffer.cid = request.cid /\ usb.buffer.cmd = "cancel"

EndNotify ==
  /\ pc = "notifying" /\ Done
  /\ FinishCall
  /\ cancelled' = Cancel
  /\ iteration' = 0
  /\ touched' = FALSE
  /\ buttons' = ~Cancel
  /\ pc' = IF Cancel THEN "checked" ELSE "poll"
  /\ UNCHANGED <<request, left, permissions, panic, history>>

\* An iteration waits for a touch or the alarm.
StartPoll ==
  /\ pc = "poll"
  /\ alarm' = "armed"
  /\ expired' = FALSE
  /\ pc' = "polling"
  /\ UNCHANGED <<usb, status, buttons, touched, request, check, left, permissions, panic,
                 history>>

\* Mutant: does not count the iterations.
NextPoll_Forever(over) ==
  /\ UNCHANGED iteration
  /\ pc' = IF over THEN "checked" ELSE "poll"

\* The end of an iteration.
NextPoll(over) ==
  /\ iteration' = iteration + 1
  /\ pc' = IF over \/ iteration + 1 = TIMEOUT_ITERATIONS THEN "checked" ELSE "poll"

\* stop_alarm says that the alarm is over while its callback was not executed:
\* the assertion fails.
EndPoll ==
  /\ pc = "polling" /\ Done
  /\ alarm' = "off"
  /\ usb' = [usb EXCEPT !.callbacks = Without(@, {"alarm"})]
  /\ CASE alarm = "fired" /\ ~expired ->
            pc' = "halted" /\ panic' = "alarm" /\ UNCHANGED iteration
       [] expired -> pc' = "keepalive" /\ UNCHANGED <<panic, iteration>>
       [] OTHER -> NextPoll(touched) /\ UNCHANGED panic
  /\ UNCHANGED <<expired, status, buttons, touched, request, cancelled, left, permissions,
                 history>>

EndKeepalive ==
  /\ pc = "keeping" /\ Done
  /\ FinishCall
  /\ cancelled' = Cancel
  /\ NextPoll(touched \/ Cancel)
  /\ UNCHANGED <<buttons, touched, request, left, permissions, panic, history>>

\* The check is over and process_get_assertion goes on, d after the clock
\* value with which it was called.
FinishCheck(d) ==
  /\ pc = "checked"
  /\ buttons' = FALSE
  /\ touched' = FALSE
  /\ usb' = NoButtons(usb)
  /\ pc' = "reply"
  /\ LET ok == touched /\ ~cancelled
     IN  Answer(NewU2f, IF ok THEN Granted(STATEFUL_DURATION, d) ELSE Passed(permission, d),
                IF ok THEN "get" ELSE "none", Waiting, IF ok THEN REPLY_PACKETS ELSE 1,
                CASE cancelled -> "cancelled" [] ok -> "get" [] OTHER -> "timeout",
                OLD, Older(d))
  /\ UNCHANGED <<alarm, expired, status, request, check, panic, pressed, cancels>>
-----------------------------------------------------------------------------
\* The controller, the host, the alarm and the user.

Kernel(k) ==
  /\ usb' = k
  /\ panic' = IF k.panic THEN "kernel" ELSE panic
  /\ pc' = IF k.panic THEN "halted" ELSE pc

Running == pc # "halted"

PacketIn ==
  /\ Running
  /\ usb.in_buffer = "none" /\ usb.tx_packet # "none"
  /\ Kernel(packet_in(usb))
  /\ UNCHANGED <<alarm, expired, status, buttons, touched, request, check, left, permissions,
                 history>>

HostTakes ==
  /\ Running
  /\ usb.in_buffer # "none"
  /\ Kernel(packet_transmitted(usb))
  /\ UNCHANGED <<alarm, expired, status, buttons, touched, request, check, left, permissions,
                 history>>

HostSends(p) ==
  /\ Running
  /\ usb.delayed_out = NoPacket
  /\ Kernel(packet_out(usb, p))
  /\ cancels' = IF p.cmd = "cancel" /\ result = "none" /\ request # NoPacket
                THEN cancels \union {p.cid} ELSE cancels
  /\ UNCHANGED <<alarm, expired, status, buttons, touched, request, check, left, permissions,
                 result, used, ages, pressed>>

AlarmFires ==
  /\ Running
  /\ alarm = "armed"
  /\ alarm' = "fired"
  /\ usb' = [usb EXCEPT !.callbacks = Append(@, "alarm")]
  /\ UNCHANGED <<pc, expired, status, buttons, touched, request, check, left, permissions,
                 panic, history>>

\* Of several touches before the callback is executed only one is recorded.
UserTouches ==
  /\ Running
  /\ buttons /\ ~touched
  /\ \A i \in DOMAIN usb.callbacks : usb.callbacks[i] # "button"
  /\ usb' = [usb EXCEPT !.callbacks = Append(@, "button")]
  /\ pressed' = (request # NoPacket)
  /\ UNCHANGED <<pc, alarm, expired, status, buttons, touched, request, check, left, permissions,
                 panic, result, used, ages, cancels>>

Halted == ~Running /\ UNCHANGED vars
-----------------------------------------------------------------------------
Init ==
  /\ pc = "receive"
  /\ usb = Idle
  /\ alarm = "off" /\ expired = FALSE /\ status = "none"
  /\ buttons = FALSE /\ touched = FALSE
  /\ request = NoPacket
  /\ iteration = 0 /\ cancelled = FALSE /\ left = 0
  /\ needs_up = Waiting /\ has_up = Waiting
  /\ permission = Granted(RESET_DURATION, 0)
  /\ command_type = "reset"
  /\ wink_permission = Waiting
  /\ panic = "no"
  /\ result = "none" /\ used = OLD
  /\ ages = [asked |-> OLD, touch |-> OLD, get |-> OLD, cleanup |-> 0]
  /\ pressed = FALSE /\ cancels = {}

App ==
  \/ RunCallback
  \/ StartRecv \/ \E d \in 0..1 : EndRecv(d)
  \/ StartReply \/ EndReply
  \/ \E d \in 0..1 : LoopEnd(d)
  \/ StartNotify \/ EndNotify \/ StartPoll \/ EndPoll \/ SendKeepalive \/ EndKeepalive
  \/ \E d \in 0..1 : FinishCheck(d)

Environment ==
  \/ PacketIn \/ HostTakes \/ AlarmFires \/ UserTouches
  \/ \E p \in Packets : HostSends(p)

Next == App \/ Environment \/ Halted

\* The processor runs the application and the hardware clock the alarm; the
\* host and the user owe nothing.
Spec == Init /\ [][Next]_vars /\ WF_vars(App) /\ WF_vars(AlarmFires)
-----------------------------------------------------------------------------
\* An assertion of "get" is only returned after a touch made during its own
\* check (not before it, nor for an earlier request), the check is only
\* cancelled by a CANCEL that the host sent on the channel of the request
\* after the request, and a cancelled check never counts as presence.
PresenceJustified ==
  /\ result = "get" => pressed /\ ~cancelled
  /\ result = "cancelled" => request.cid \in cancels

\* A U2F request is refused only if no touch that answered an open request was
\* made less than PRESENCE_DURATION ago and left unused, and served only if one
\* was, in real time, although the code compares clock values that wrap: unless
\* the device went half a period of the clock without cleaning the U2F state up,
\* which only one wink after the other makes it do (main.rs, the end of the
\* loop).  "next" is only served less than STATEFUL_DURATION after its "get" was
\* received, although the permission is granted after the wait for the touch,
\* with the clock value from before it.
PermissionsFresh ==
  /\ result = "refused" => used >= PRESENCE_DURATION
  /\ result = "u2f" /\ ages.cleanup < HALF_PERIOD => used < PRESENCE_DURATION
  /\ result = "next" => used < STATEFUL_DURATION

\* "wrapping clock values never randomly wink or grant user presence for U2F", as
\* the comment of the main loop has it: every U2F request that is served has its
\* own touch, made less than PRESENCE_DURATION ago.
NeverRandomPresence == result = "u2f" => used < PRESENCE_DURATION

\* When a send reports that the packet was sent, the host took this packet,
\* not one that an earlier send gave up.
SentIsTaken == status = "sent" => usb.taken = "current"

\* The assertions of the kernel only fail after the host took, during a call,
\* a packet that an earlier send gave up.
KernelPanicsOnlyOnStale == panic = "kernel" => usb.taken = "abandoned"

\* The assertions of the USB driver of the kernel: a packet for an application
\* that waits finds the reception pending, and no packet is queued when the
\* host takes one.
KernelAssertionsHold == panic # "kernel"

\* The device always returns to receiving, unless it panicked, whatever host
\* and user do: no wait for a touch, for a packet or for a transfer lasts
\* forever.
Responsive == []<>(pc \in {"receiving", "halted"})
=============================================================================
