----------------------------- MODULE NetSwitch -----------------------------
(* The wire between the machines of one host, and its uplink.  Every emulator *)
(* process claims a slot (net_slot.c), binds the loopback port of that slot   *)
(* and floods its guest's frames to the ports that have a receiver            *)
(* (net_switch.c).  One of them holds the Access+ relay                       *)
(* (broadcast_relay.c): it sends on to the real network what its guest and    *)
(* the others send there, and brings in what arrives.  Each process is one    *)
(* emulator thread; network_nat_init takes three steps, between which the     *)
(* others run, start and end.                                                 *)
EXTENDS Naturals, Sequences, FiniteSetsExt

CONSTANTS
    Emu,            \* emulator processes of this host
    NET_SLOT_MAX,
    Nobody,         \* no process, no slot
    Lan,            \* the real network, as the sender of a frame
    MaxFrames,      \* bound: frames that are sent in a behaviour
    SocketRoom,     \* frames a socket holds; a further one is lost
    WireUpsets      \* of "end" (a process ends, and may start again),
                    \* "reset", "probe" (another process tries the port just
                    \* when it is bound), "nosocket" (a socket to claim the
                    \* relay with cannot be had)

ASSUME WireAssumption ==
    /\ NET_SLOT_MAX \in Nat \ {0} /\ MaxFrames \in Nat /\ SocketRoom \in Nat
    /\ Lan \notin Emu /\ Nobody \notin Emu \cup Nat

Slots == 0 .. NET_SLOT_MAX - 1

VARIABLES
    stage,          \* "off", "switch" and "relay" (steps of network_nat_init), "up"
    net_slot, slot_socket,
    switch_slot,    \* the port that is bound, Nobody when switch_fd is -1
    inbox,          \* frames in that socket
    switch_peers,   \* slots that had a receiver when last probed
    relay_owner,    \* the process that has RELAY_OWNER_PORT
    relay_enabled,
    unclaimed,      \* the processes that relay because they could not even try
    guest_ip,       \* whose address relay.guest_ip is
    frames,         \* every frame so far
    relayed         \* how often a running process relayed a frame, or brought it in

wireVars == <<stage, net_slot, slot_socket, switch_slot, inbox, switch_peers, relay_owner,
              relay_enabled, unclaimed, guest_ip, frames, relayed>>
initVars == <<stage, net_slot, slot_socket, switch_slot, relay_owner, unclaimed>>

(* A frame is broadcast, for a machine of the real network, or for one of     *)
(* this host; ip is whose address its datagram is for, if it is unicast.      *)
(* masked: SLiRP sent it on as well, under a source port of its own.          *)
Sent == 1 .. Len(frames)

WireInit ==
    /\ stage = [p \in Emu |-> "off"]
    /\ net_slot = [p \in Emu |-> Nobody] /\ slot_socket = [p \in Emu |-> FALSE]
    /\ switch_slot = [p \in Emu |-> Nobody] /\ inbox = [p \in Emu |-> <<>>]
    /\ switch_peers = [p \in Emu |-> {}]
    /\ relay_owner = Nobody /\ relay_enabled = [p \in Emu |-> FALSE] /\ unclaimed = {}
    /\ guest_ip = [p \in Emu |-> Nobody]
    /\ frames = <<>> /\ relayed = <<>>
-----------------------------------------------------------------------------
(* network_nat_init *)

FreeSlots == {s \in Slots : \A p \in Emu : ~(slot_socket[p] /\ net_slot[p] = s)}

(* A new process takes the first slot that is free.  With none left it        *)
(* shares the first one's addresses, without holding it.                      *)
net_slot_acquire(p) ==
    /\ stage[p] = "off"
    /\ stage' = [stage EXCEPT ![p] = "switch"]
    /\ net_slot' = [net_slot EXCEPT ![p] = IF FreeSlots = {} THEN 0 ELSE Min(FreeSlots)]
    /\ slot_socket' = [slot_socket EXCEPT ![p] = FreeSlots # {}]
    /\ UNCHANGED <<switch_slot, inbox, switch_peers, relay_owner, relay_enabled,
                   unclaimed, guest_ip, frames, relayed>>

(* The old socket goes, with what is waiting in it, and the slot's port is    *)
(* bound anew.  That fails while another process has it bound.                *)
net_switch_init(p) ==
    /\ stage[p] = "switch"
    /\ stage' = [stage EXCEPT ![p] = "relay"]
    /\ inbox' = [inbox EXCEPT ![p] = <<>>]
    /\ \/ /\ \A q \in Emu \ {p} : switch_slot[q] # net_slot[p]
          /\ switch_slot' = [switch_slot EXCEPT ![p] = net_slot[p]]
       \/ /\ \/ \E q \in Emu \ {p} : switch_slot[q] = net_slot[p]
             \/ "probe" \in WireUpsets /\ \E q \in Emu \ {p} : stage[q] = "up"
          /\ switch_slot' = [switch_slot EXCEPT ![p] = Nobody]
    /\ UNCHANGED <<net_slot, slot_socket, switch_peers, relay_owner, relay_enabled,
                   unclaimed, guest_ip, frames, relayed>>

claim_relay_ownership_Shared(p) == relay_owner' = p /\ unclaimed' = unclaimed \ {p}

(* A TCP port that one socket can have, a socket of this very process that    *)
(* an earlier reset left open included.  A process that gets no socket at all *)
(* goes on as if it had claimed it.                                           *)
claim_relay_ownership(p) ==
    \/ /\ relay_owner = Nobody
       /\ relay_owner' = p /\ unclaimed' = unclaimed \ {p}
    \/ /\ "nosocket" \in WireUpsets
       /\ relay_owner' = relay_owner
       /\ unclaimed' = IF relay_owner = p THEN unclaimed ELSE unclaimed \cup {p}

(* The relay is enabled if the claim succeeds and the host has a network;     *)
(* otherwise everything stays as it was before, which after a reset may be    *)
(* enabled.                                                                   *)
broadcast_relay_init(p) ==
    /\ stage[p] = "relay"
    /\ stage' = [stage EXCEPT ![p] = "up"]
    /\ \/ /\ claim_relay_ownership(p)
          /\ relay_enabled' = [relay_enabled EXCEPT ![p] = TRUE]
          /\ guest_ip' = [guest_ip EXCEPT ![p] = Nobody]
       \/ UNCHANGED <<relay_owner, relay_enabled, unclaimed, guest_ip>>
    /\ UNCHANGED <<net_slot, slot_socket, switch_slot, inbox, switch_peers, frames, relayed>>

(* resetrpc runs network_nat_init again in the same process. *)
resetrpc(p) ==
    /\ "reset" \in WireUpsets
    /\ stage[p] = "up" /\ stage' = [stage EXCEPT ![p] = "switch"]
    /\ UNCHANGED <<net_slot, slot_socket, switch_slot, inbox, switch_peers, relay_owner,
                   relay_enabled, unclaimed, guest_ip, frames, relayed>>

(* External: a process ends, and the system closes its sockets. *)
EmulatorEnds(p) ==
    /\ "end" \in WireUpsets
    /\ stage[p] # "off" /\ stage' = [stage EXCEPT ![p] = "off"]
    /\ net_slot' = [net_slot EXCEPT ![p] = Nobody]
    /\ slot_socket' = [slot_socket EXCEPT ![p] = FALSE]
    /\ switch_slot' = [switch_slot EXCEPT ![p] = Nobody]
    /\ inbox' = [inbox EXCEPT ![p] = <<>>]
    /\ switch_peers' = [switch_peers EXCEPT ![p] = {}]
    /\ relay_owner' = IF relay_owner = p THEN Nobody ELSE relay_owner
    /\ relay_enabled' = [relay_enabled EXCEPT ![p] = FALSE]
    /\ unclaimed' = unclaimed \ {p}
    /\ guest_ip' = [guest_ip EXCEPT ![p] = Nobody]
    /\ relayed' = [f \in Sent |-> [relayed[f] EXCEPT ![p] = 0]]
    /\ UNCHANGED frames
-----------------------------------------------------------------------------
(* Frames *)

(* The answer that is kept for up to a second, or a new one. *)
switch_refresh_peers(p) ==
    {switch_peers[p], {s \in Slots \ {switch_slot[p]} : \E q \in Emu \ {p} : switch_slot[q] = s}}

SendsTo(p, s) == s # switch_slot[p]

(* Frame f to every port that is thought to have a receiver, but the          *)
(* sender's own.                                                              *)
net_switch_tx(p, f) ==
    IF switch_slot[p] = Nobody THEN UNCHANGED <<switch_peers, inbox>>
    ELSE \E peers \in switch_refresh_peers(p) :
            /\ switch_peers' = [switch_peers EXCEPT ![p] = peers]
            /\ inbox' = [q \in Emu |->
                            IF /\ switch_slot[q] \in peers /\ SendsTo(p, switch_slot[q])
                               /\ Len(inbox[q]) < SocketRoom
                            THEN Append(inbox[q], f) ELSE inbox[q]]

(* The relay sends on broadcasts and what is for the real network. *)
broadcast_relay_tx(p, f) == relay_enabled[p] /\ f.to \in {"all", "lan"}

(* It learns the address of whoever sent a frame that it sees. *)
Learned(p, f) ==
    IF relay_enabled[p] /\ f.from # Lan THEN [guest_ip EXCEPT ![p] = f.from] ELSE guest_ip

Once(p) == [q \in Emu |-> IF q = p THEN 1 ELSE 0]
Never == [q \in Emu |-> 0]

(* A guest's frame goes to the wire, to the relay, and unless that took it    *)
(* over, to SLiRP, whose NAT sends what is for the real network.              *)
network_nat_tx(p, to) ==
    LET f == [from |-> p, to |-> to, ip |-> Nobody, masked |-> to = "lan" /\ ~relay_enabled[p]]
    IN /\ stage[p] = "up" /\ Len(frames) < MaxFrames
       /\ frames' = Append(frames, f)
       /\ net_switch_tx(p, Len(frames'))
       /\ relayed' = Append(relayed, IF broadcast_relay_tx(p, f) THEN Once(p) ELSE Never)
       /\ guest_ip' = Learned(p, f)
       /\ UNCHANGED <<initVars, relay_enabled>>

(* A frame of the wire is offered to the relay, and then to the guest, whose  *)
(* side of it is NetReceive.                                                  *)
net_switch_poll(p) ==
    LET n == Head(inbox[p])
        f == frames[n]
    IN /\ stage[p] = "up" /\ inbox[p] # <<>>
       /\ inbox' = [inbox EXCEPT ![p] = Tail(@)]
       /\ relayed' = IF broadcast_relay_tx(p, f) THEN [relayed EXCEPT ![n][p] = @ + 1]
                     ELSE relayed
       /\ guest_ip' = Learned(p, f)
       /\ UNCHANGED <<initVars, switch_peers, relay_enabled, frames>>

(* poll_socket: a datagram of the real network, to everybody or an answer,    *)
(* which is addressed to this guest's hardware and to the address learned.    *)
broadcast_relay_poll(p, broadcast) ==
    LET ip == IF guest_ip[p] = Nobody THEN p ELSE guest_ip[p]
        f == [from |-> Lan, to |-> IF broadcast THEN "all" ELSE p,
              ip |-> IF broadcast THEN Nobody ELSE ip, masked |-> FALSE]
    IN /\ stage[p] = "up" /\ relay_enabled[p] /\ Len(frames) < MaxFrames
       /\ frames' = Append(frames, f)
       /\ net_switch_tx(p, Len(frames'))
       /\ relayed' = Append(relayed, Once(p))
       /\ UNCHANGED <<initVars, relay_enabled, guest_ip>>

WireNext ==
    \E p \in Emu :
        \/ net_slot_acquire(p) \/ net_switch_init(p) \/ broadcast_relay_init(p)
        \/ resetrpc(p) \/ EmulatorEnds(p)
        \/ \E to \in {"all", "lan"} \cup (Emu \ {p}) : network_nat_tx(p, to)
        \/ net_switch_poll(p)
        \/ \E broadcast \in BOOLEAN : broadcast_relay_poll(p, broadcast)

WireSpec == WireInit /\ [][WireNext]_wireVars
-----------------------------------------------------------------------------
(* What every variable may hold. *)
WireTypeOK ==
    /\ stage \in [Emu -> {"off", "switch", "relay", "up"}]
    /\ net_slot \in [Emu -> Slots \cup {Nobody}] /\ slot_socket \in [Emu -> BOOLEAN]
    /\ switch_slot \in [Emu -> Slots \cup {Nobody}] /\ switch_peers \in [Emu -> SUBSET Slots]
    /\ relay_owner \in Emu \cup {Nobody} /\ relay_enabled \in [Emu -> BOOLEAN]
    /\ unclaimed \subseteq Emu
    /\ guest_ip \in [Emu -> Emu \cup {Nobody}]
    /\ DOMAIN inbox = Emu /\ \A p \in Emu : inbox[p] \in Seq(Sent)
    /\ Len(relayed) = Len(frames) /\ \A f \in Sent : relayed[f] \in [Emu -> Nat]

(* Of the processes that could claim the relay exactly one relays, through    *)
(* every order of starts, resets and ends: the data sockets would let several *)
(* bind, and "both then relay every packet".                                  *)
OneRelay ==
    \A p, q \in Emu : relay_enabled[p] /\ relay_enabled[q]
                          => p = q \/ p \in unclaimed \/ q \in unclaimed

(* "It cannot loop", as far as the processes that run now have relayed it: no *)
(* process sends a frame to the real network twice, or back to it, and two    *)
(* send the same one only if one of them had no socket to claim the relay     *)
(* with.                                                                      *)
RelayedOnce ==
    \A f \in Sent : \A p, q \in Emu :
        relayed[f][p] > 0 /\ relayed[f][q] > 0
            => /\ relayed[f][p] = 1
               /\ p = q \/ p \in unclaimed \/ q \in unclaimed

(* Four statements that do not hold of the code, see the README.              *)

(* "Exactly one process can hold it; the rest run without a relay"            *)
(* (broadcast_relay.c): whoever relays has the port.                          *)
OnlyTheHolderRelays == \A p \in Emu : relay_enabled[p] => relay_owner = p

(* No datagram is sent both by the relay and by SLiRP: "passing it to SLiRP   *)
(* as well would send a duplicate out of SLiRP's NAT with a masqueraded       *)
(* source port" (network-nat.c).                                              *)
NeverMasked == \A f \in Sent : frames[f].masked => \A p \in Emu : relayed[f][p] = 0

(* An answer that is addressed to a guest's hardware is for its address: what *)
(* broadcast_relay_tx learns "for responses" is the guest's own.              *)
AnswerIsTheGuests == \A f \in Sent : frames[f].ip # Nobody => frames[f].ip = frames[f].to

(* A process that holds a slot is on the wire: that its port cannot be bound  *)
(* "should not happen - the slot was claimed by binding a port of its own".   *)
HolderIsOnTheWire ==
    \A p \in Emu : stage[p] = "up" /\ slot_socket[p] => switch_slot[p] = net_slot[p]
=============================================================================
