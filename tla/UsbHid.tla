------------------------------- MODULE UsbHid -------------------------------
(***************************************************************************)
(* USB transfers of the application: the kernel driver for CTAP            *)
(* (patches/tock/02-usb.patch: usb_ctap.rs and usbc_ctap_hid.rs) and the   *)
(* calls with which the application sends and receives packets             *)
(* (third_party/libtock-drivers/src/usb_ctap_hid.rs).                      *)
(*                                                                         *)
(* The state of the driver is a record k; an operator returns the state    *)
(* after the function of the same name:                                    *)
(*   side, waiting   of the application's grant: which call is in use and  *)
(*                   whether the kernel still owes it a completion;        *)
(*   allowed         whether buffer and callback of the call are set;      *)
(*   tx_packet       the packet queued for the host;                       *)
(*   pending_in, pending_out   whether a transfer to, from the host is     *)
(*                   pending;                                              *)
(*   delayed_out     a packet the controller holds back until a call       *)
(*                   wants it;                                             *)
(*   in_buffer       the packet the controller offers to the host;         *)
(*   buffer          the packet received for the current call;             *)
(*   callbacks       callbacks scheduled and not yet executed;             *)
(*   panic           an assertion of the kernel failed.                    *)
(* A packet for the host is only told apart by whether the call that       *)
(* queued it is the "current" one or returned ("abandoned").  taken        *)
(* records which one the host took last while the application waited.      *)
(***************************************************************************)
EXTENDS Integers, Sequences

CONSTANTS Packets,   \* packets the host may send
          NoPacket

ASSUME PacketsAssumption == NoPacket \notin Packets

Idle ==
    [side |-> "none", waiting |-> FALSE, allowed |-> FALSE,
     tx_packet |-> "none", pending_in |-> FALSE, pending_out |-> FALSE,
     delayed_out |-> NoPacket, in_buffer |-> "none", buffer |-> NoPacket,
     callbacks |-> <<>>, panic |-> FALSE, taken |-> "none"]
-----------------------------------------------------------------------------
(* The callbacks left when the kernel drops some.                            *)
Without(callbacks, dropped) ==
    LET kept[i \in 0 .. Len(callbacks)] ==
            IF i = 0 THEN <<>>
            ELSE IF callbacks[i] \in dropped THEN kept[i - 1]
            ELSE Append(kept[i - 1], callbacks[i])
    IN  kept[Len(callbacks)]

(* usb_ctap.rs: what the application's grant does with a packet.            *)
can_receive_packet(k) == k.waiting /\ k.side # "none" /\ k.allowed

packet_received(k, p) ==
    IF can_receive_packet(k)
    THEN [k EXCEPT !.waiting = FALSE, !.buffer = p, !.callbacks = Append(@, "received")]
    ELSE k

app_packet_transmitted(k) ==
    IF k.waiting /\ k.side = "transmit_or_receive"
    THEN [k EXCEPT !.waiting = FALSE, !.callbacks = Append(@, "transmitted")]
    ELSE k
-----------------------------------------------------------------------------
(* usbc_ctap_hid.rs: transfers.                                             *)
cancel_in_transaction(k) == [k EXCEPT !.tx_packet = "none", !.pending_in = FALSE]
cancel_out_transaction(k) == [k EXCEPT !.pending_out = FALSE]
cancel_transaction(k) == cancel_out_transaction(cancel_in_transaction(k))

transmit_packet(k) == [k EXCEPT !.pending_in = TRUE, !.tx_packet = "current"]

(* A packet from the host goes to the application, or is held back.         *)
send_packet_to_client(k, p) ==
    IF ~can_receive_packet(k) THEN [k EXCEPT !.delayed_out = p]
    ELSE IF ~k.pending_out THEN [k EXCEPT !.panic = TRUE]
    ELSE packet_received(cancel_in_transaction([k EXCEPT !.pending_out = FALSE]), p)

(* Mutant: does not mark the transfer as pending.                           *)
receive_packet_Unmarked(k) ==
    IF k.pending_out THEN k
    ELSE IF k.delayed_out = NoPacket THEN k
    ELSE send_packet_to_client([k EXCEPT !.delayed_out = NoPacket], k.delayed_out)

receive_packet(k) ==
    IF k.pending_out THEN k
    ELSE LET ready == [k EXCEPT !.pending_out = TRUE, !.delayed_out = NoPacket]
         IN  IF k.delayed_out = NoPacket THEN ready
             ELSE send_packet_to_client(ready, k.delayed_out)

(* The controller asks for a packet to offer to the host.                   *)
packet_in(k) == [k EXCEPT !.in_buffer = k.tx_packet, !.tx_packet = "none"]

(* The controller has a packet from the host.                               *)
packet_out(k, p) == send_packet_to_client(k, p)

(* Mutant: reports whatever packet the host took.                           *)
packet_transmitted_Any(k) ==
    app_packet_transmitted(cancel_out_transaction(
        [k EXCEPT !.in_buffer = "none", !.pending_in = FALSE,
                  !.taken = IF k.waiting THEN k.in_buffer ELSE @]))

(* The host took the packet on offer.                                       *)
packet_transmitted(k) ==
    LET gone == [k EXCEPT !.in_buffer = "none",
                          !.taken = IF k.waiting THEN k.in_buffer ELSE @]
    IN  IF k.tx_packet # "none" THEN [gone EXCEPT !.panic = TRUE]
        ELSE app_packet_transmitted(
                 cancel_out_transaction([gone EXCEPT !.pending_in = FALSE]))
-----------------------------------------------------------------------------
(* System calls.  A call that fails leaves ok FALSE.                        *)
Failed(k) == [k |-> k, ok |-> FALSE]
Succeeded(k) == [k |-> k, ok |-> TRUE]

(* allow and subscribe: they fix the side until both are cleared.           *)
allow_and_subscribe(k, side) ==
    IF k.side \in {"none", side}
    THEN Succeeded([k EXCEPT !.side = side, !.allowed = TRUE])
    ELSE Failed(k)

(* check_side runs when the last of buffer and callback is cleared.         *)
unsubscribe(k) ==
    [k EXCEPT !.allowed = FALSE,
              !.side = IF k.waiting THEN @ ELSE "none",
              !.callbacks = Without(@, {"received", "transmitted"})]

command_receive(k) ==
    IF k.waiting THEN Failed(k) ELSE Succeeded(receive_packet([k EXCEPT !.waiting = TRUE]))

command_transmit_or_receive(k) ==
    LET ready == receive_packet([k EXCEPT !.waiting = TRUE])
    IN  IF k.waiting THEN Failed(k)
        ELSE IF ~ready.waiting THEN Succeeded(ready)
        ELSE IF ready.pending_in THEN Failed(ready)
        ELSE Succeeded(transmit_packet(ready))

command_cancel(k) ==
    IF k.waiting THEN cancel_transaction([k EXCEPT !.waiting = FALSE]) ELSE k
-----------------------------------------------------------------------------
(* usb_ctap_hid.rs: the two halves of recv_with_timeout and                 *)
(* send_or_recv_with_timeout, before and after the application waits.  The  *)
(* second one cancels the transfer if no callback was executed, whatever    *)
(* the kernel did in the meantime.                                          *)
start_call(k, side) ==
    LET ready == allow_and_subscribe(k, side)
    IN  IF ~ready.ok THEN ready
        ELSE IF side = "receive" THEN command_receive(ready.k)
        ELSE command_transmit_or_receive(ready.k)

finish_call(k, status) ==
    LET done == unsubscribe(IF status = "none" THEN command_cancel(k) ELSE k)
    IN  [done EXCEPT !.buffer = NoPacket, !.taken = "none",
                     !.in_buffer = IF @ = "current" THEN "abandoned" ELSE @]
=============================================================================
