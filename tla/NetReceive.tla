---------------------------- MODULE NetReceive ----------------------------
(* Frames on their way into the guest: the delivery slot and the ring of      *)
(* queued frames of network-nat.c, the interrupt line of the network podule,  *)
(* and the receive half of the guest's driver EtherRPCEm, which acknowledges  *)
(* the interrupt first and then takes frames until there are none.  The       *)
(* emulator thread polls the host's sockets between any two instructions of   *)
(* the guest, so a frame may arrive between any two steps of the driver.      *)
EXTENDS Naturals, Sequences

CONSTANTS
    PKT_QUEUE_SIZE,     \* entries of the ring behind the slot
    MaxFragments,       \* fragments of the largest datagram of the relay
    MaxArrivals,        \* bound: frames that arrive in a behaviour
    NoFrame,
    NetUpsets           \* of "mbufs" (the Mbuf manager has none), "kill"
                        \* (the driver is killed and started again), "reset",
                        \* "resume" (a suspend file is loaded)

(* A frame is numbered in the order of arrival.  Its payload is wanted by a   *)
(* protocol module, wanted by none, or does not fit the driver's mbuf.        *)
FrameKind == {"wanted", "unwanted", "big"}
Frame == [id : 1 .. MaxArrivals, kind : FrameKind]

ASSUME NetAssumption ==
    /\ PKT_QUEUE_SIZE \in Nat \ {0} /\ MaxFragments \in Nat /\ MaxArrivals \in Nat
    /\ NoFrame \notin Frame

VARIABLES
    buffer,         \* nat.buffer, NoFrame when buffer_len is 0
    pkt_queue,      \* nat.pkt_queue
    pkt_queue_head, pkt_queue_tail, pkt_queue_count,
    irq_status,     \* nat.irq_status is not 0: a driver has registered
    irq,            \* the podule's interrupt line
    driver,         \* of EtherRPCEm: "none", "idle", "receive" (in rx_loop)
                    \* or "protocol" (a protocol module runs, interrupts on)
    arrived,        \* frames that have arrived so far
    handed,         \* ids of the frames that protocol modules were given
    left,           \* fragments of a datagram that are still to be delivered
    torn            \* a datagram was delivered in part

netVars == <<buffer, pkt_queue, pkt_queue_head, pkt_queue_tail, pkt_queue_count,
             irq_status, irq, driver, arrived, handed, left, torn>>
ringVars == <<pkt_queue, pkt_queue_head, pkt_queue_tail, pkt_queue_count>>

(* The slot, the ring and the line as one value, which the functions of       *)
(* network-nat.c take and return here.                                        *)
nat == [buffer |-> buffer, queue |-> pkt_queue, head |-> pkt_queue_head,
        tail |-> pkt_queue_tail, count |-> pkt_queue_count, irq |-> irq]

SetNat(n) ==
    /\ buffer' = n.buffer /\ pkt_queue' = n.queue
    /\ pkt_queue_head' = n.head /\ pkt_queue_tail' = n.tail
    /\ pkt_queue_count' = n.count /\ irq' = n.irq

EmptyNat ==
    [buffer |-> NoFrame, queue |-> [i \in 0 .. PKT_QUEUE_SIZE - 1 |-> NoFrame],
     head |-> 0, tail |-> 0, count |-> 0, irq |-> FALSE]

NetInit ==
    /\ buffer = NoFrame /\ pkt_queue = EmptyNat.queue
    /\ pkt_queue_head = 0 /\ pkt_queue_tail = 0 /\ pkt_queue_count = 0
    /\ irq_status = FALSE /\ irq = FALSE /\ driver = "none"
    /\ arrived = 0 /\ handed = <<>> /\ left = 0 /\ torn = FALSE
-----------------------------------------------------------------------------
(* network-nat.c *)

rx_space_OneMore(n) == 1 + (PKT_QUEUE_SIZE - n.count)

rx_space(n) ==
    (IF n.buffer = NoFrame THEN 1 ELSE 0) + (PKT_QUEUE_SIZE - n.count)

(* A frame goes to the slot if nothing is before it, and else into the ring;  *)
(* it is dropped when the ring is full or no driver has registered.  The      *)
(* interrupt is raised for the slot alone.                                    *)
rx_deliver(n, f) ==
    IF ~irq_status THEN n
    ELSE IF n.buffer = NoFrame /\ n.count = 0
      THEN [n EXCEPT !.buffer = f, !.irq = TRUE]
    ELSE IF n.count >= PKT_QUEUE_SIZE THEN n
    ELSE [n EXCEPT !.queue[n.head] = f,
                   !.head = (n.head + 1) % PKT_QUEUE_SIZE, !.count = @ + 1]

deliver_queued_packet_NoIrq(n) ==
    IF n.count = 0 \/ n.buffer # NoFrame THEN n
    ELSE [n EXCEPT !.buffer = n.queue[n.tail],
                   !.tail = (n.tail + 1) % PKT_QUEUE_SIZE, !.count = @ - 1]

deliver_queued_packet_Newest(n) ==
    IF n.count = 0 \/ n.buffer # NoFrame THEN n
    ELSE [n EXCEPT !.buffer = n.queue[(n.head + PKT_QUEUE_SIZE - 1) % PKT_QUEUE_SIZE],
                   !.head = (n.head + PKT_QUEUE_SIZE - 1) % PKT_QUEUE_SIZE,
                   !.count = @ - 1, !.irq = TRUE]

(* The oldest queued frame moves up to a slot that has fallen empty. *)
deliver_queued_packet(n) ==
    IF n.count = 0 \/ n.buffer # NoFrame THEN n
    ELSE [n EXCEPT !.buffer = n.queue[n.tail],
                   !.tail = (n.tail + 1) % PKT_QUEUE_SIZE,
                   !.count = @ - 1, !.irq = TRUE]

network_nat_inject_space == IF irq_status THEN rx_space(nat) ELSE 0

(* The frame that the receive call takes, if any, and what it leaves.  The    *)
(* frame leaves the slot whether or not it can be given to the guest.         *)
Promoted == IF buffer = NoFrame THEN deliver_queued_packet(nat) ELSE nat
Taken == Promoted.buffer
Rest_KeepsBig ==
    IF Taken.kind = "big" THEN [Promoted EXCEPT !.irq = TRUE]
    ELSE deliver_queued_packet([Promoted EXCEPT !.buffer = NoFrame])
Rest == deliver_queued_packet([Promoted EXCEPT !.buffer = NoFrame])

(* The frames of one call are delivered before the guest or another source    *)
(* of frames gets to run: left counts those to come.                          *)
Delivered == left = 0

NewFrame(kind) == [id |-> arrived + 1, kind |-> kind]

(* A frame from SLiRP, from another machine or from the relay. *)
Arrives(kind) ==
    /\ Delivered /\ arrived < MaxArrivals
    /\ arrived' = arrived + 1
    /\ SetNat(rx_deliver(nat, NewFrame(kind)))
    /\ UNCHANGED <<irq_status, driver, handed, left, torn>>

(* inject_fragmented_udp of the relay: the fragments of one datagram, all of  *)
(* them or none, by what the receive side says it has room for;               *)
ArrivesInFragments(k) ==
    /\ Delivered /\ k > 1 /\ arrived + k <= MaxArrivals
    /\ network_nat_inject_space >= k
    /\ left' = k
    /\ UNCHANGED <<buffer, ringVars, irq_status, irq, driver, arrived, handed, torn>>

(* and each of them in turn, up to one that is dropped, which none should be. *)
network_nat_inject_packet(kind) ==
    LET dropped == rx_deliver(nat, NewFrame(kind)) = nat
    IN /\ ~Delivered
       /\ left' = IF dropped THEN 0 ELSE left - 1
       /\ torn' = (torn \/ dropped)
       /\ arrived' = arrived + 1
       /\ SetNat(rx_deliver(nat, NewFrame(kind)))
       /\ UNCHANGED <<irq_status, driver, handed>>
-----------------------------------------------------------------------------
(* EtherRPCEm *)

(* The driver's own interrupt, with no other running: it lowers the line and  *)
(* sets its semaphore.                                                        *)
device_irq ==
    /\ Delivered /\ driver = "idle" /\ irq
    /\ irq' = FALSE /\ driver' = "receive"
    /\ UNCHANGED <<buffer, ringVars, irq_status, arrived, handed, left, torn>>

(* The interrupt again while a protocol module runs: the semaphore is set, so *)
(* lowering the line is all it does.                                          *)
device_irq_again ==
    /\ Delivered /\ driver = "protocol" /\ irq
    /\ irq' = FALSE
    /\ UNCHANGED <<buffer, ringVars, irq_status, driver, arrived, handed, left, torn>>

(* One turn of rx_loop with both mbufs at hand: the receive SWI, and what is  *)
(* done with its frame.  A frame that does not fit reads as nothing waiting.  *)
receive_frames ==
    /\ Delivered /\ driver = "receive"
    /\ IF Taken = NoFrame \/ Taken.kind = "big"
         THEN driver' = "idle" /\ UNCHANGED handed
         ELSE IF Taken.kind = "unwanted" THEN UNCHANGED <<driver, handed>>
         ELSE driver' = "protocol" /\ handed' = Append(handed, Taken.id)
    /\ IF Taken = NoFrame THEN UNCHANGED <<buffer, ringVars, irq>> ELSE SetNat(Rest)
    /\ UNCHANGED <<irq_status, arrived, left, torn>>

(* The same with no mbuf to be had: the loop ends and the frame stays. *)
rx_exhausted ==
    /\ "mbufs" \in NetUpsets /\ Delivered
    /\ driver = "receive" /\ driver' = "idle"
    /\ UNCHANGED <<buffer, ringVars, irq_status, irq, arrived, handed, left, torn>>

(* External: the protocol module returns. *)
ProtocolReturns ==
    /\ Delivered /\ driver = "protocol" /\ driver' = "receive"
    /\ UNCHANGED <<buffer, ringVars, irq_status, irq, arrived, handed, left, torn>>

(* Module initialisation: the vector is claimed, the interrupt enabled, and   *)
(* the emulator told to deliver.                                              *)
DriverInit ==
    /\ Delivered /\ driver = "none" /\ driver' = "idle"
    /\ irq_status' = TRUE
    /\ UNCHANGED <<buffer, ringVars, irq, arrived, handed, left, torn>>

(* Module finalisation.  The line is left as it is. *)
DriverFinal ==
    /\ "kill" \in NetUpsets /\ Delivered
    /\ driver = "idle" /\ driver' = "none"
    /\ irq_status' = FALSE
    /\ UNCHANGED <<buffer, ringVars, irq, arrived, handed, left, torn>>
-----------------------------------------------------------------------------
(* network_nat_reset and network_nat_init, from resetrpc: the driver goes     *)
(* with the machine, and irq_status does not.                                 *)
network_nat_reset ==
    /\ "reset" \in NetUpsets /\ Delivered
    /\ driver # "none" /\ driver' = "none"
    /\ SetNat(EmptyNat)
    /\ UNCHANGED <<irq_status, arrived, handed, left, torn>>

(* The machine is suspended and resumed: the slot, the ring and the line are  *)
(* reset and not restored, the driver is in guest memory and goes on where it *)
(* was, and network_nat_loadstate brings irq_status back.                     *)
network_nat_loadstate ==
    /\ "resume" \in NetUpsets /\ Delivered
    /\ buffer # NoFrame
    /\ SetNat(EmptyNat)
    /\ UNCHANGED <<irq_status, driver, arrived, handed, left, torn>>

NetNext ==
    \/ \E kind \in FrameKind : Arrives(kind) \/ network_nat_inject_packet(kind)
    \/ \E k \in 2 .. MaxFragments : ArrivesInFragments(k)
    \/ device_irq \/ device_irq_again \/ receive_frames \/ rx_exhausted
    \/ ProtocolReturns \/ DriverInit \/ DriverFinal
    \/ network_nat_reset \/ network_nat_loadstate

NetSpec == NetInit /\ [][NetNext]_netVars
-----------------------------------------------------------------------------
(* What every variable may hold; the ring's indices agree with its count, and *)
(* the entries between them are frames.                                       *)
NetTypeOK ==
    /\ buffer \in Frame \cup {NoFrame}
    /\ pkt_queue \in [0 .. PKT_QUEUE_SIZE - 1 -> Frame \cup {NoFrame}]
    /\ pkt_queue_head \in 0 .. PKT_QUEUE_SIZE - 1
    /\ pkt_queue_tail \in 0 .. PKT_QUEUE_SIZE - 1
    /\ pkt_queue_count \in 0 .. PKT_QUEUE_SIZE
    /\ pkt_queue_head = (pkt_queue_tail + pkt_queue_count) % PKT_QUEUE_SIZE
    /\ irq_status \in BOOLEAN /\ irq \in BOOLEAN /\ torn \in BOOLEAN
    /\ driver \in {"none", "idle", "receive", "protocol"}
    /\ arrived \in Nat /\ left \in Nat /\ arrived + left <= MaxArrivals

(* Fragments are delivered all or none: whatever room rx_space reports is     *)
(* room that rx_deliver really has, so a datagram that was let in is whole.   *)
NeverTorn == ~torn

(* No frame waits in the slot unannounced: while the driver is there, its     *)
(* interrupt is raised or it is inside its loop and will ask again.           *)
FrameIsAnnounced ==
    buffer # NoFrame /\ driver # "none" => irq \/ driver \in {"receive", "protocol"}

(* Protocol modules are given the frames in the order of their arrival, none  *)
(* twice, although they come through the slot or the ring and the driver may  *)
(* be interrupted by its own interrupt.                                       *)
HandedInOrder ==
    \A i \in 1 .. Len(handed) - 1 : handed[i] < handed[i + 1]

(* The slot does not stay taken for ever while the driver is there: one frame *)
(* that cannot be delivered does not end the machine's networking.            *)
SlotIsFreed == []<>(buffer = NoFrame \/ driver = "none")
=============================================================================
