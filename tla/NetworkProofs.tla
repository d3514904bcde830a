--------------------------- MODULE NetworkProofs ----------------------------
(* What holds of the wire between the machines (NetSwitch), for any number of *)
(* processes and frames, of the frames that come in for the guest             *)
(* (NetReceive), for any size of the ring, and of the datagrams that the      *)
(* relay puts together (RelayReassembly), for any number of slots.            *)
EXTENDS NetSwitch, NetReceive, RelayReassembly, WellFoundedInduction, TLAPS

(* What appending does to a sequence. *)
LEMMA AppendFacts ==
    ASSUME NEW S, NEW s \in Seq(S), NEW e \in S
    PROVE  /\ Append(s, e) \in Seq(S) /\ Len(Append(s, e)) = Len(s) + 1 /\ Len(s) \in Nat
           /\ \A i \in 1 .. Len(s) : Append(s, e)[i] = s[i]
           /\ Append(s, e)[Len(s) + 1] = e
  OBVIOUS

(* An entry of a sequence is replaced. *)
LEMMA EntryReplaced ==
    ASSUME NEW S, NEW s \in Seq(S), NEW i \in 1 .. Len(s), NEW e \in S
    PROVE  /\ [s EXCEPT ![i] = e] \in Seq(S) /\ Len([s EXCEPT ![i] = e]) = Len(s)
           /\ \A j \in 1 .. Len(s) : [s EXCEPT ![i] = e][j] = IF j = i THEN e ELSE s[j]
  OBVIOUS

(* Sequences with the same entries are the same. *)
LEMMA SameSequence ==
    ASSUME NEW S, NEW s \in Seq(S), NEW t \in Seq(S), Len(s) = Len(t),
           \A i \in 1 .. Len(s) : s[i] = t[i]
    PROVE  s = t
  OBVIOUS

-----------------------------------------------------------------------------
(* The wire between the machines *)

Inbox(p) == 1 .. Len(inbox[p])

FrameType == [from : Emu \cup {Lan}, to : {"all", "lan"} \cup Emu,
              ip : Emu \cup {Nobody}, masked : BOOLEAN]

(* The part of RelayInv that says what the variables hold. *)
RelayTypes ==
    /\ frames \in Seq(FrameType)
    /\ relayed \in Seq([Emu -> Nat]) /\ Len(relayed) = Len(frames)
    /\ inbox \in [Emu -> Seq(Nat)]
    /\ relay_enabled \in [Emu -> BOOLEAN] /\ guest_ip \in [Emu -> Emu \cup {Nobody}]

(* One process has the relay port, and only that process relays, but for      *)
(* those that had no socket to claim it with.                                 *)
RelayIsOwned == \A p \in Emu : relay_enabled[p] => relay_owner = p \/ p \in unclaimed

(* Nobody relays a frame twice, nor without having the relay. *)
RelayedByOwner ==
    \A f \in Sent : \A p \in Emu :
        relayed[f][p] <= 1 /\ (relayed[f][p] > 0 => relay_enabled[p])

(* What waits in a socket was sent, waits there once, and the process has not *)
(* relayed it yet.                                                            *)
WaitsOnce ==
    \A p \in Emu :
        /\ \A i \in Inbox(p) : inbox[p][i] \in Sent /\ relayed[inbox[p][i]][p] = 0
        /\ \A i, j \in Inbox(p) : inbox[p][i] = inbox[p][j] => i = j

RelayInv == RelayTypes /\ RelayIsOwned /\ RelayedByOwner /\ WaitsOnce

LEMMA RelayInit == WireInit => RelayInv
  BY DEF WireInit, RelayInv, RelayTypes, RelayIsOwned, RelayedByOwner, WaitsOnce, Inbox, Sent

(* A step that leaves frames, relays and sockets alone. *)
LEMMA RelayQuiet ==
    ASSUME RelayInv, UNCHANGED <<frames, relayed, inbox, relay_enabled, guest_ip, relay_owner,
                               unclaimed>>
    PROVE  RelayInv'
  BY DEF RelayInv, RelayTypes, RelayIsOwned, RelayedByOwner, WaitsOnce, Inbox, Sent

LEMMA InitStepKeepsRelay ==
    ASSUME RelayInv, NEW p \in Emu, net_switch_init(p)
    PROVE  RelayInv'
<1>1. RelayTypes'
  BY DEF RelayInv, RelayTypes, net_switch_init
<1>2. RelayIsOwned' /\ RelayedByOwner'
  BY DEF RelayInv, RelayTypes, RelayIsOwned, RelayedByOwner, net_switch_init, Sent
<1>3. WaitsOnce'
  BY DEF RelayInv, RelayTypes, WaitsOnce, net_switch_init, Sent, Inbox
<1>4. QED
  BY <1>1, <1>2, <1>3 DEF RelayInv

LEMMA ClaimKeepsRelay ==
    ASSUME RelayInv, NEW p \in Emu, broadcast_relay_init(p)
    PROVE  RelayInv'
<1>1. RelayTypes'
  BY ZenonT(40) DEF RelayInv, RelayTypes, broadcast_relay_init
<1>2. RelayIsOwned'
  BY WireAssumption
  DEF RelayInv, RelayTypes, RelayIsOwned, broadcast_relay_init, claim_relay_ownership
<1>3. RelayedByOwner' /\ WaitsOnce'
  BY ZenonT(40) DEF RelayInv, RelayTypes, RelayedByOwner, WaitsOnce, broadcast_relay_init, Sent, Inbox
<1>4. QED
  BY <1>1, <1>2, <1>3 DEF RelayInv

LEMMA EndKeepsRelay ==
    ASSUME RelayInv, NEW p \in Emu, EmulatorEnds(p)
    PROVE  RelayInv'
<1>1. relayed' = [f \in 1 .. Len(frames) |-> [relayed[f] EXCEPT ![p] = 0]]
  BY DEF EmulatorEnds, Sent
<1>2. \A f \in Sent : relayed[f] \in [Emu -> Nat] /\ [relayed[f] EXCEPT ![p] = 0] \in [Emu -> Nat]
  BY DEF RelayInv, RelayTypes, Sent
<1>3. relayed' \in Seq([Emu -> Nat]) /\ Len(relayed') = Len(frames)
  BY <1>1, <1>2 DEF Sent, RelayInv, RelayTypes
<1>4. RelayTypes'
  BY <1>3 DEF RelayInv, RelayTypes, EmulatorEnds
<1>5. RelayIsOwned'
  BY DEF RelayInv, RelayTypes, RelayIsOwned, EmulatorEnds
<1>6. ASSUME NEW f \in Sent, NEW q \in Emu
      PROVE  relayed'[f][q] = IF q = p THEN 0 ELSE relayed[f][q]
  BY <1>1, <1>2, <1>6 DEF Sent
<1>7. Sent' = Sent
  BY DEF EmulatorEnds, Sent
<1>8. RelayedByOwner'
  BY <1>6, <1>7 DEF RelayInv, RelayTypes, RelayedByOwner, EmulatorEnds
<1>9. WaitsOnce'
  <2>1. \A q \in Emu : inbox'[q] = IF q = p THEN <<>> ELSE inbox[q]
    BY DEF RelayInv, RelayTypes, EmulatorEnds
  <2>2. QED
    BY <2>1, <1>6, <1>7 DEF RelayInv, WaitsOnce, Inbox
<1>10. QED
  BY <1>4, <1>5, <1>8, <1>9 DEF RelayInv

(* The sockets of the others after p has sent frame n, the newest.  Its own   *)
(* is not among those that are sent to.                                       *)
LEMMA SentToOthers ==
    ASSUME RelayTypes, WaitsOnce, NEW p \in Emu, NEW n \in Nat, n = Len(frames) + 1,
           net_switch_tx(p, n)
    PROVE  /\ inbox' \in [Emu -> Seq(Nat)] /\ inbox'[p] = inbox[p]
           /\ \A q \in Emu : inbox'[q] = inbox[q] \/ inbox'[q] = Append(inbox[q], n)
<1>1. CASE switch_slot[p] = Nobody
  BY <1>1 DEF net_switch_tx, RelayTypes
<1>2. CASE switch_slot[p] # Nobody
  <2>1. PICK peers \in switch_refresh_peers(p) :
          inbox' = [q \in Emu |->
                      IF /\ switch_slot[q] \in peers /\ SendsTo(p, switch_slot[q])
                         /\ Len(inbox[q]) < SocketRoom
                      THEN Append(inbox[q], n) ELSE inbox[q]]
    BY <1>2 DEF net_switch_tx
  <2>2. \A q \in Emu : inbox[q] \in Seq(Nat) /\ Append(inbox[q], n) \in Seq(Nat)
    BY DEF RelayTypes
  <2>3. QED
    BY <2>1, <2>2 DEF SendsTo, RelayTypes
<1>3. QED
  BY <1>1, <1>2

(* A new frame, which at most its sender has relayed so far. *)
LEMMA NewFrameKeepsRelay ==
    ASSUME RelayInv, NEW p \in Emu, NEW f \in FrameType, NEW by \in {Once(p), Never},
           by = Once(p) => relay_enabled[p],
           frames' = Append(frames, f), relayed' = Append(relayed, by),
           net_switch_tx(p, Len(frames')),
           guest_ip' \in [Emu -> Emu \cup {Nobody}],
           UNCHANGED <<relay_owner, unclaimed, relay_enabled>>
    PROVE  RelayInv'
<1>n. DEFINE n == Len(frames) + 1
<1>1. n \in Nat /\ Len(frames') = n /\ Sent' = Sent \cup {n} /\ n \notin Sent
  BY DEF RelayInv, RelayTypes, Sent
<1>2. by \in [Emu -> Nat] /\ \A q \in Emu : by[q] <= 1 /\ (by[q] > 0 => q = p /\ by = Once(p))
  BY DEF Once, Never
<1>3. relayed' \in Seq([Emu -> Nat]) /\ Len(relayed') = n
  BY <1>1, <1>2 DEF RelayInv, RelayTypes
<1>4. /\ relayed'[n] = by
      /\ \A g \in Sent : relayed'[g] = relayed[g]
  BY <1>1, <1>2 DEF RelayInv, RelayTypes, Sent
<1>5. /\ inbox' \in [Emu -> Seq(Nat)] /\ inbox'[p] = inbox[p]
      /\ \A q \in Emu : inbox'[q] = inbox[q] \/ inbox'[q] = Append(inbox[q], n)
  BY <1>1, SentToOthers DEF RelayInv
<1>6. RelayTypes'
  BY <1>1, <1>3, <1>5 DEF RelayInv, RelayTypes
<1>7. RelayIsOwned'
  BY DEF RelayInv, RelayIsOwned
<1>8. RelayedByOwner'
  BY <1>1, <1>2, <1>4, ZenonT(40) DEF RelayInv, RelayedByOwner
<1>9. WaitsOnce'
  <2>1. ASSUME NEW q \in Emu, NEW i \in Inbox(q)'
        PROVE  \/ i \in Inbox(q) /\ inbox'[q][i] = inbox[q][i]
               \/ q # p /\ i = Len(inbox[q]) + 1 /\ inbox'[q][i] = n
    <3>1. inbox[q] \in Seq(Nat) /\ i \in 1 .. Len(inbox'[q])
      BY <2>1 DEF Inbox, RelayInv, RelayTypes
    <3>2. CASE inbox'[q] = inbox[q]
      BY <3>1, <3>2 DEF Inbox
    <3>3. CASE inbox'[q] = Append(inbox[q], n)
      <4>1. q # p
        BY <1>5, <3>1, <3>3, SMTT(30)
      <4>2. QED
        BY <1>1, <3>1, <3>3, <4>1 DEF Inbox
    <3>4. QED
      BY <1>5, <3>2, <3>3
  <2>2. ASSUME NEW q \in Emu, NEW i \in Inbox(q)'
        PROVE  inbox'[q][i] \in Sent' /\ relayed'[inbox'[q][i]][q] = 0
    <3>1. CASE i \in Inbox(q) /\ inbox'[q][i] = inbox[q][i]
      <4>1. inbox[q][i] \in Sent /\ relayed[inbox[q][i]][q] = 0
        BY <3>1, ZenonT(20) DEF RelayInv, WaitsOnce
      <4>2. QED
        BY <3>1, <4>1, <1>1, <1>4, ZenonT(40)
    <3>2. CASE q # p /\ inbox'[q][i] = n
      BY <3>2, <1>1, <1>2, <1>4 DEF Once, Never
    <3>3. QED
      BY <2>1, <2>2, <3>1, <3>2, ZenonT(40)
  <2>3. ASSUME NEW q \in Emu, NEW i \in Inbox(q)', NEW j \in Inbox(q)', inbox'[q][i] = inbox'[q][j]
        PROVE  i = j
    BY <2>1, <2>3, <1>1 DEF RelayInv, WaitsOnce
  <2>4. QED
    BY <2>2, <2>3, ZenonT(40) DEF WaitsOnce
<1>10. QED
  BY <1>6, <1>7, <1>8, <1>9, ZenonT(20) DEF RelayInv

LEMMA TransmitKeepsRelay ==
    ASSUME RelayInv, NEW p \in Emu, NEW to \in {"all", "lan"} \cup (Emu \ {p}), network_nat_tx(p, to)
    PROVE  RelayInv'
<1>f. DEFINE f == [from |-> p, to |-> to, ip |-> Nobody, masked |-> to = "lan" /\ ~relay_enabled[p]]
             by == IF broadcast_relay_tx(p, f) THEN Once(p) ELSE Never
<1>1. f \in FrameType
  BY DEF FrameType
<1>2. by \in {Once(p), Never} /\ (by = Once(p) => relay_enabled[p])
  <2>1. Once(p)[p] = 1 /\ Never[p] = 0
    BY DEF Once, Never
  <2>2. QED
    BY <2>1 DEF broadcast_relay_tx
<1>3. guest_ip' \in [Emu -> Emu \cup {Nobody}]
  BY DEF network_nat_tx, Learned, RelayInv, RelayTypes
<1>4. /\ frames' = Append(frames, f) /\ relayed' = Append(relayed, by)
      /\ net_switch_tx(p, Len(frames')) /\ UNCHANGED <<relay_owner, unclaimed, relay_enabled>>
  BY SMTT(30) DEF network_nat_tx, initVars
<1>5. QED
  BY <1>1, <1>2, <1>3, <1>4, NewFrameKeepsRelay, ZenonT(20)

LEMMA BroughtInKeepsRelay ==
    ASSUME RelayInv, NEW p \in Emu, NEW broadcast \in BOOLEAN, broadcast_relay_poll(p, broadcast)
    PROVE  RelayInv'
<1>f. DEFINE ip == IF guest_ip[p] = Nobody THEN p ELSE guest_ip[p]
             f == [from |-> Lan, to |-> IF broadcast THEN "all" ELSE p,
                   ip |-> IF broadcast THEN Nobody ELSE ip, masked |-> FALSE]
<1>1. f \in FrameType
  BY ZenonT(20) DEF FrameType, RelayInv, RelayTypes
<1>2. /\ frames' = Append(frames, f) /\ relayed' = Append(relayed, Once(p))
      /\ net_switch_tx(p, Len(frames')) /\ relay_enabled[p]
      /\ UNCHANGED <<relay_owner, unclaimed, relay_enabled, guest_ip>>
  BY DEF broadcast_relay_poll, initVars
<1>3. QED
  BY <1>1, <1>2, NewFrameKeepsRelay, ZenonT(20) DEF RelayInv, RelayTypes

(* A frame taken from the socket, and relayed if the process has the relay. *)
LEMMA PollKeepsRelay ==
    ASSUME RelayInv, NEW p \in Emu, net_switch_poll(p)
    PROVE  RelayInv'
<1>n. DEFINE n == inbox[p][1]
             f == frames[n]
<1>1. /\ inbox[p] \in Seq(Nat) /\ inbox[p] # <<>> /\ n = Head(inbox[p]) /\ 1 \in Inbox(p)
      /\ inbox' = [inbox EXCEPT ![p] = Tail(@)]
  BY DEF net_switch_poll, RelayInv, RelayTypes, Inbox
<1>2. n \in Sent /\ relayed[n][p] = 0 /\ f \in FrameType /\ relayed[n] \in [Emu -> Nat]
  BY <1>1, SMTT(30) DEF RelayInv, RelayTypes, WaitsOnce, Sent
<1>r. DEFINE row == [relayed[n] EXCEPT ![p] = 1]
<1>3. \/ relay_enabled[p] /\ relayed' = [relayed EXCEPT ![n] = row]
      \/ relayed' = relayed
  BY <1>1, <1>2, SMTT(30) DEF net_switch_poll, broadcast_relay_tx
<1>4. /\ guest_ip' \in [Emu -> Emu \cup {Nobody}]
      /\ UNCHANGED <<relay_owner, unclaimed, relay_enabled, frames>>
  BY <1>1, <1>2 DEF net_switch_poll, Learned, initVars, RelayInv, RelayTypes, FrameType
<1>e. /\ [relayed EXCEPT ![n] = row] \in Seq([Emu -> Nat])
      /\ Len([relayed EXCEPT ![n] = row]) = Len(frames)
      /\ \A g \in Sent : [relayed EXCEPT ![n] = row][g] = IF g = n THEN row ELSE relayed[g]
  <2>1. /\ row \in [Emu -> Nat] /\ n \in 1 .. Len(relayed)
        /\ relayed \in Seq([Emu -> Nat]) /\ Sent = 1 .. Len(relayed)
        /\ Len(relayed) = Len(frames)
    BY <1>2, ZenonT(40) DEF RelayInv, RelayTypes, Sent
  <2> HIDE DEF row, n
  <2>2. QED
    BY <2>1, EntryReplaced, SMTT(30)
<1>5. relayed' \in Seq([Emu -> Nat]) /\ Len(relayed') = Len(frames)
  BY <1>3, <1>e, ZenonT(40) DEF RelayInv, RelayTypes
<1>6. ASSUME NEW g \in Sent, NEW q \in Emu
      PROVE  \/ relayed'[g][q] = relayed[g][q]
             \/ g = n /\ q = p /\ relayed'[g][q] = 1 /\ relay_enabled[p]
  <2>1. relayed'[g] = relayed[g] \/ (g = n /\ relay_enabled[p] /\ relayed'[g] = row)
    BY <1>3, <1>6, <1>e, ZenonT(40)
  <2>2. QED
    BY <1>2, <1>6, <2>1
<1>7. Sent' = Sent
  BY <1>4 DEF Sent
<1>8. RelayTypes'
  <2>1. inbox' \in [Emu -> Seq(Nat)]
    BY <1>1 DEF RelayInv, RelayTypes
  <2>2. QED
    BY <1>4, <1>5, <2>1 DEF RelayInv, RelayTypes
<1>9. RelayIsOwned' /\ RelayedByOwner'
  BY <1>4, <1>6, <1>7 DEF RelayInv, RelayIsOwned, RelayedByOwner
<1>10. WaitsOnce'
  <2>1. ASSUME NEW i \in Inbox(p)'
        PROVE  i + 1 \in Inbox(p) /\ inbox'[p][i] = inbox[p][i + 1] /\ inbox[p][i + 1] # n
    <3>1. inbox'[p] = Tail(inbox[p])
      BY <1>1, ZenonT(20) DEF RelayInv, RelayTypes
    <3>2. i + 1 \in Inbox(p) /\ inbox'[p][i] = inbox[p][i + 1] /\ i + 1 # 1
      <4>1. i \in 1 .. Len(Tail(inbox[p]))
        BY <2>1, <3>1 DEF Inbox
      <4>2. i \in 1 .. Len(inbox[p]) - 1 /\ Tail(inbox[p])[i] = inbox[p][i + 1]
        BY <1>1, <4>1
      <4>3. QED
        <5>1. Len(inbox[p]) \in Nat
          BY <1>1
        <5>2. i \in Nat \ {0} /\ i + 1 \in 1 .. Len(inbox[p])
          BY <4>2, <5>1
        <5>3. QED
          BY <3>1, <4>2, <5>2 DEF Inbox
    <3>3. QED
      BY <1>1, <3>2, ZenonT(40) DEF RelayInv, WaitsOnce
  <2>2. ASSUME NEW q \in Emu, q # p
        PROVE  inbox'[q] = inbox[q]
    BY <1>1, <2>2, ZenonT(20) DEF RelayInv, RelayTypes
  <2>3. ASSUME NEW q \in Emu, NEW i \in Inbox(q)'
        PROVE  inbox'[q][i] \in Sent /\ relayed'[inbox'[q][i]][q] = 0
    <3>1. CASE q = p
      BY <2>1, <2>3, <3>1, <1>6, SMTT(30) DEF RelayInv, WaitsOnce
    <3>2. CASE q # p
      BY <2>2, <2>3, <3>2, <1>6 DEF RelayInv, WaitsOnce, Inbox
    <3>3. QED
      BY <3>1, <3>2, ZenonT(20)
  <2>4. ASSUME NEW q \in Emu, NEW i \in Inbox(q)', NEW j \in Inbox(q)', inbox'[q][i] = inbox'[q][j]
        PROVE  i = j
    <3>1. CASE q = p
      <4>1. i + 1 = j + 1
        BY <2>1, <2>4, <3>1 DEF RelayInv, WaitsOnce
      <4>2. QED
        BY <4>1, <2>4 DEF Inbox
    <3>2. CASE q # p
      BY <2>2, <2>4, <3>2, ZenonT(20) DEF RelayInv, WaitsOnce, Inbox
    <3>3. QED
      BY <3>1, <3>2
  <2>5. QED
    BY <1>7, <2>3, <2>4 DEF WaitsOnce
<1>11. QED
  BY <1>8, <1>9, <1>10 DEF RelayInv

LEMMA RelayStep == RelayInv /\ [WireNext]_wireVars => RelayInv'
<1> SUFFICES ASSUME RelayInv, [WireNext]_wireVars PROVE RelayInv'
  OBVIOUS
<1>1. CASE UNCHANGED wireVars
  BY <1>1, RelayQuiet DEF wireVars
<1>2. ASSUME NEW p \in Emu, net_slot_acquire(p) \/ resetrpc(p)
      PROVE  RelayInv'
  BY <1>2, RelayQuiet DEF net_slot_acquire, resetrpc
<1>3. QED
  BY <1>1, <1>2, InitStepKeepsRelay, ClaimKeepsRelay, EndKeepsRelay, TransmitKeepsRelay,
     BroughtInKeepsRelay, PollKeepsRelay DEF WireNext

(* Of the processes that could claim the relay, one at most relays, for any   *)
(* number of processes and slots and through every order of starts, resets    *)
(* and ends: claim_relay_ownership goes by a port that only one can bind, if  *)
(* it can try.                                                                *)
THEOREM RelayHasOneHolder == WireSpec => []OneRelay
<1>1. RelayInv => OneRelay
  BY DEF RelayInv, RelayIsOwned, OneRelay
<1>2. QED
  BY <1>1, RelayInit, RelayStep, PTL DEF WireSpec

(* No process relays a frame twice, and two relay the same one only if one of *)
(* them had no socket to claim the relay with; also where sockets overflow    *)
(* and peers were probed too long ago: broadcast_relay goes by the holder.    *)
THEOREM FrameIsRelayedOnce == WireSpec => []RelayedOnce
<1>1. RelayInv => RelayedOnce
  <2> SUFFICES ASSUME RelayInv, NEW f \in Sent, NEW p \in Emu, NEW q \in Emu,
                      relayed[f][p] > 0, relayed[f][q] > 0
               PROVE  /\ relayed[f][p] = 1
                      /\ p = q \/ p \in unclaimed \/ q \in unclaimed
    BY ZenonT(20) DEF RelayedOnce
  <2>1. p = q \/ p \in unclaimed \/ q \in unclaimed
    BY ZenonT(20) DEF RelayInv, RelayedByOwner, RelayIsOwned
  <2>2. relayed[f][p] \in Nat /\ relayed[f][p] <= 1
    BY DEF RelayInv, RelayTypes, RelayedByOwner, Sent
  <2>3. QED
    BY <2>1, <2>2
<1>2. QED
  BY <1>1, RelayInit, RelayStep, PTL DEF WireSpec

-----------------------------------------------------------------------------
(* Frames into the guest *)

(* A frame in the slot has its interrupt, or a driver that will ask again;    *)
(* also while no driver is there, for the next one.                           *)
Announced == buffer # NoFrame => irq \/ driver \in {"receive", "protocol"}

LEMMA PromotedIsRaised ==
    ASSUME NEW n, n = nat \/ n = [Promoted EXCEPT !.buffer = NoFrame], n.buffer = NoFrame
    PROVE  deliver_queued_packet(n).buffer # NoFrame => deliver_queued_packet(n).irq
  BY DEF deliver_queued_packet, nat, Promoted

LEMMA AnnouncedStep ==
    "mbufs" \notin NetUpsets /\ Announced /\ [NetNext]_netVars => Announced'
<1> SUFFICES ASSUME "mbufs" \notin NetUpsets, Announced, [NetNext]_netVars PROVE Announced'
  OBVIOUS
<1>1. CASE UNCHANGED netVars
  BY <1>1 DEF netVars, Announced
<1>2. ASSUME NEW kind \in FrameKind, Arrives(kind) \/ network_nat_inject_packet(kind)
      PROVE  Announced'
  <2>1. SetNat(rx_deliver(nat, NewFrame(kind))) /\ driver' = driver
    BY <1>2, SMTT(30) DEF Arrives, network_nat_inject_packet
  <2>2. \/ buffer' = buffer /\ irq' = irq
        \/ irq' = TRUE
    BY <2>1 DEF SetNat, rx_deliver, nat
  <2>3. QED
    BY <2>1, <2>2, SMTT(30) DEF Announced
<1>3. CASE receive_frames
  <2>1. CASE Taken = NoFrame
    <3>1. buffer = NoFrame
      BY <2>1 DEF Taken, Promoted, nat
    <3>2. QED
      BY <1>3, <2>1, <3>1, SMTT(30) DEF receive_frames, Announced
  <2>2. CASE Taken # NoFrame
    <3>1. buffer' = Rest.buffer /\ irq' = Rest.irq
      BY <1>3, <2>2 DEF receive_frames, SetNat
    <3>2. Rest.buffer # NoFrame => Rest.irq
      <4>1. [Promoted EXCEPT !.buffer = NoFrame].buffer = NoFrame
        BY DEF Promoted, nat, deliver_queued_packet
      <4>2. QED
        BY <4>1, PromotedIsRaised, ZenonT(40) DEF Rest
    <3>3. QED
      BY <3>1, <3>2, ZenonT(20) DEF Announced
  <2>3. QED
    BY <2>1, <2>2
<1>4. CASE network_nat_reset \/ network_nat_loadstate
  BY <1>4, ZenonT(40) DEF network_nat_reset, network_nat_loadstate, SetNat, EmptyNat, Announced
<1>5. CASE device_irq \/ device_irq_again \/ ProtocolReturns
  BY <1>5, ZenonT(20) DEF device_irq, device_irq_again, ProtocolReturns, Announced
<1>6. CASE rx_exhausted \/ DriverInit \/ DriverFinal
  BY <1>6 DEF rx_exhausted, DriverInit, DriverFinal, Announced
<1>7. ASSUME NEW k \in 2 .. MaxFragments, ArrivesInFragments(k)
      PROVE  Announced'
  BY <1>7 DEF ArrivesInFragments, Announced
<1>8. QED
  BY <1>1, <1>2, <1>3, <1>4, <1>5, <1>6, <1>7, SMTT(30) DEF NetNext

(* As long as the driver gets its mbufs, no frame waits in the slot           *)
(* unannounced, whatever is queued behind it, through resets, resumed         *)
(* machines and drivers that are killed and started again.                    *)
THEOREM WaitingFrameIsAnnounced ==
    ASSUME "mbufs" \notin NetUpsets PROVE NetSpec => []FrameIsAnnounced
<1>1. NetInit => Announced
  BY DEF NetInit, Announced
<1>2. Announced /\ [NetNext]_netVars => Announced'
  BY AnnouncedStep
<1>3. Announced => FrameIsAnnounced
  BY DEF Announced, FrameIsAnnounced
<1>4. QED
  BY <1>1, <1>2, <1>3, PTL DEF NetSpec

(* The ring: the entries in use, how far each is from the tail, and where the *)
(* next one goes.                                                             *)
Index == 0 .. PKT_QUEUE_SIZE - 1
InRing(n, k) == \/ n.tail <= k /\ k < n.tail + n.count
                \/ k + PKT_QUEUE_SIZE < n.tail + n.count
Behind(n, k) == IF n.tail <= k THEN k - n.tail ELSE k + PKT_QUEUE_SIZE - n.tail
End(n) == IF n.tail + n.count < PKT_QUEUE_SIZE THEN n.tail + n.count
          ELSE n.tail + n.count - PKT_QUEUE_SIZE

NatType == [buffer : Frame \cup {NoFrame}, queue : [Index -> Frame \cup {NoFrame}],
            head : Index, tail : Index, count : 0 .. PKT_QUEUE_SIZE, irq : BOOLEAN]

(* What the slot and the ring hold, when a frames have arrived: frames, in    *)
(* the order in which they came.                                              *)
RingOK(n, a) ==
    /\ n \in NatType /\ n.head = End(n)
    /\ \A k \in Index : InRing(n, k) => n.queue[k] \in Frame /\ n.queue[k].id <= a
    /\ \A j, k \in Index : InRing(n, j) /\ InRing(n, k) /\ Behind(n, j) < Behind(n, k)
                                => n.queue[j].id < n.queue[k].id
    /\ n.buffer # NoFrame => n.buffer.id <= a
    /\ n.buffer # NoFrame => \A k \in Index : InRing(n, k) => n.buffer.id < n.queue[k].id

(* What the protocol modules were given came before all of that. *)
HandedBefore(n, h, a) ==
    /\ h \in Seq(Nat)
    /\ \A i \in 1 .. Len(h) :
          /\ h[i] <= a
          /\ n.buffer # NoFrame => h[i] < n.buffer.id
          /\ \A k \in Index : InRing(n, k) => h[i] < n.queue[k].id
    /\ \A i \in 1 .. Len(h) - 1 : h[i] < h[i + 1]

(* The slot is filled first. *)
SlotFirst(n) == n.buffer = NoFrame => n.count = 0

NetInv ==
    /\ RingOK(nat, arrived) /\ HandedBefore(nat, handed, arrived) /\ SlotFirst(nat)
    /\ arrived \in Nat /\ left \in Nat /\ arrived + left <= MaxArrivals
    /\ irq_status \in BOOLEAN /\ driver \in {"none", "idle", "receive", "protocol"}
    /\ left > 0 => irq_status /\ rx_space(nat) >= left
    /\ torn = FALSE

LEMMA NextIndex ==
    ASSUME NEW x \in Index
    PROVE  (x + 1) % PKT_QUEUE_SIZE = IF x + 1 = PKT_QUEUE_SIZE THEN 0 ELSE x + 1
  BY NetAssumption, SMTT(30) DEF Index

(* An empty ring holds nothing. *)
LEMMA EmptyRing ==
    ASSUME NEW n, n.tail \in 0 .. PKT_QUEUE_SIZE - 1, n.count = 0, NEW k \in Index
    PROVE  ~InRing(n, k)
  BY NetAssumption DEF InRing, Index

LEMMA EmptyIsOK ==
    ASSUME NEW a \in Nat, NEW h, NEW n, HandedBefore(n, h, a)
    PROVE  RingOK(EmptyNat, a) /\ HandedBefore(EmptyNat, h, a) /\ SlotFirst(EmptyNat)
<1>1. EmptyNat \in NatType /\ EmptyNat.count = 0 /\ EmptyNat.tail = 0 /\ EmptyNat.head = 0
      /\ EmptyNat.buffer = NoFrame
  BY NetAssumption DEF EmptyNat, NatType, Index
<1>2. \A k \in Index : ~InRing(EmptyNat, k)
  BY <1>1, NetAssumption DEF InRing, Index
<1>3. QED
  BY <1>1, <1>2, NetAssumption, SMTT(30) DEF RingOK, HandedBefore, SlotFirst, End

(* The oldest queued frame moves up. *)
LEMMA PromoteIsOK ==
    ASSUME NEW n, NEW a \in Nat, NEW h, RingOK(n, a), HandedBefore(n, h, a)
    PROVE  /\ RingOK(deliver_queued_packet(n), a)
           /\ HandedBefore(deliver_queued_packet(n), h, a)
           /\ SlotFirst(deliver_queued_packet(n))
<1>m. DEFINE m == deliver_queued_packet(n)
<1>1. CASE n.count = 0 \/ n.buffer # NoFrame
  BY <1>1, ZenonT(20) DEF deliver_queued_packet, SlotFirst
<1>2. CASE n.count # 0 /\ n.buffer = NoFrame
  <2>1. n \in NatType /\ n.head = End(n)
    BY DEF RingOK
  <2>2. m = [n EXCEPT !.buffer = n.queue[n.tail], !.tail = (n.tail + 1) % PKT_QUEUE_SIZE,
                      !.count = @ - 1, !.irq = TRUE]
    BY <1>2 DEF deliver_queued_packet
  <2>3. /\ n.tail \in Index /\ n.count \in 1 .. PKT_QUEUE_SIZE
        /\ (n.tail + 1) % PKT_QUEUE_SIZE = IF n.tail + 1 = PKT_QUEUE_SIZE THEN 0 ELSE n.tail + 1
    BY <1>2, <2>1, NextIndex, SMTT(30) DEF NatType
  <2>4. InRing(n, n.tail) /\ n.queue[n.tail] \in Frame
    BY <2>3, NetAssumption, SMTT(30) DEF InRing, RingOK, Index
  <2>5. /\ m \in NatType /\ m.buffer = n.queue[n.tail] /\ m.queue = n.queue /\ m.head = n.head
        /\ m.tail = (IF n.tail + 1 = PKT_QUEUE_SIZE THEN 0 ELSE n.tail + 1)
        /\ m.count = n.count - 1
    <3>1. /\ n.queue[n.tail] \in Frame \cup {NoFrame} /\ (n.tail + 1) % PKT_QUEUE_SIZE \in Index
          /\ n.count - 1 \in 0 .. PKT_QUEUE_SIZE
      BY <2>3, <2>4, NetAssumption DEF Index
    <3>2. m \in NatType
      BY <2>1, <2>2, <3>1, ZenonT(40) DEF NatType
    <3>3. QED
      BY <2>1, <2>2, <2>3, <3>2, ZenonT(40) DEF NatType
  <2> HIDE DEF m
  <2>6. \A k \in Index : InRing(m, k) => /\ InRing(n, k) /\ Behind(n, n.tail) < Behind(n, k)
                                         /\ Behind(n, k) = Behind(m, k) + 1
    <3> TAKE k \in Index
    <3>1. /\ k \in 0 .. PKT_QUEUE_SIZE - 1 /\ n.tail \in 0 .. PKT_QUEUE_SIZE - 1
          /\ n.count \in 1 .. PKT_QUEUE_SIZE /\ PKT_QUEUE_SIZE \in Nat \ {0}
      BY <2>3, NetAssumption, ZenonT(20) DEF Index
    <3>2. CASE n.tail + 1 = PKT_QUEUE_SIZE
      <4>1. m.tail = 0 /\ m.count = n.count - 1
        BY <2>5, <3>2, SMTT(30)
      <4>2. QED
        BY <3>1, <3>2, <4>1 DEF InRing, Behind
    <3>3. CASE n.tail + 1 # PKT_QUEUE_SIZE
      <4>1. m.tail = n.tail + 1 /\ m.count = n.count - 1
        BY <2>5, <3>3, SMTT(30)
      <4>2. QED
        BY <3>1, <3>3, <4>1, SMTT(30) DEF InRing, Behind
    <3>4. QED
      BY <3>2, <3>3
  <2>7. m.head = End(m)
    BY <2>1, <2>3, <2>5, NetAssumption, SMTT(30) DEF End, Index
  <2>8. \A k \in Index : Behind(m, k) \in Nat /\ Behind(n, k) \in Nat
    BY <2>3, <2>5, NetAssumption, SMTT(30) DEF Behind, Index
  <2>9. \A k \in Index : InRing(m, k) => m.queue[k] \in Frame /\ m.queue[k].id <= a
    BY <2>5, <2>6, ZenonT(40) DEF RingOK
  <2>10. \A j, k \in Index : InRing(m, j) /\ InRing(m, k) /\ Behind(m, j) < Behind(m, k)
                                 => m.queue[j].id < m.queue[k].id
    BY <2>5, <2>6, <2>8, SMTT(30) DEF RingOK
  <2>11. \A k \in Index : InRing(m, k) => m.buffer.id < m.queue[k].id
    BY <2>3, <2>4, <2>5, <2>6, ZenonT(40) DEF RingOK
  <2>12. m.buffer.id <= a /\ m.buffer # NoFrame
    <3>1. m.buffer \in Frame /\ n.queue[n.tail].id <= a
      BY <2>3, <2>4, <2>5, SMTT(30) DEF RingOK
    <3>2. QED
      BY <3>1, <2>5, NetAssumption, ZenonT(40)
  <2>13. RingOK(m, a)
    BY <2>5, <2>7, <2>9, <2>10, <2>11, <2>12, ZenonT(40) DEF RingOK
  <2>14. HandedBefore(m, h, a)
    BY <2>3, <2>4, <2>5, <2>6, ZenonT(40) DEF HandedBefore
  <2>15. QED
    BY <2>12, <2>13, <2>14, SMTT(30) DEF SlotFirst, m
<1>3. QED
  BY <1>1, <1>2

(* A number that was within a is below the next. *)
LEMMA OneMore ==
    ASSUME NEW a \in Nat, NEW x \in Nat, x <= a
    PROVE  x <= a + 1 /\ x < a + 1
  OBVIOUS

LEMMA EntryOf ==
    ASSUME NEW h \in Seq(Nat), NEW i \in 1 .. Len(h)
    PROVE  h[i] \in Nat
  OBVIOUS

(* The frames held, and those handed on, are older than the next to arrive.   *)
LEMMA HeldIsOlder ==
    ASSUME NEW n, NEW a \in Nat, RingOK(n, a)
    PROVE  /\ \A k \in Index : InRing(n, k) =>
                 n.queue[k] \in Frame /\ n.queue[k].id <= a + 1 /\ n.queue[k].id < a + 1
           /\ n.buffer # NoFrame => n.buffer.id <= a + 1 /\ n.buffer.id < a + 1
<1>1. \A g \in Frame : g.id \in Nat
  BY DEF Frame
<1>2. n.buffer # NoFrame => n.buffer \in Frame
  BY ZenonT(20) DEF RingOK, NatType
<1>3. QED
  BY <1>1, <1>2, OneMore, ZenonT(40) DEF RingOK

LEMMA HandedIsOlder ==
    ASSUME NEW n, NEW a \in Nat, NEW h, HandedBefore(n, h, a)
    PROVE  \A i \in 1 .. Len(h) : h[i] <= a + 1 /\ h[i] < a + 1
  BY OneMore, EntryOf, ZenonT(40) DEF HandedBefore

(* A frame that arrives goes behind all the others, or is dropped; there is   *)
(* no room left only if rx_space says so.                                     *)
LEMMA DeliverIsOK ==
    ASSUME NEW n, NEW a \in Nat, NEW h, NEW f \in Frame, f.id = a + 1,
           RingOK(n, a), HandedBefore(n, h, a), SlotFirst(n)
    PROVE  /\ RingOK(rx_deliver(n, f), a + 1)
           /\ HandedBefore(rx_deliver(n, f), h, a + 1)
           /\ SlotFirst(rx_deliver(n, f))
           /\ irq_status /\ rx_space(n) >= 1 =>
                 /\ rx_deliver(n, f) # n
                 /\ rx_space(rx_deliver(n, f)) = rx_space(n) - 1
<1>m. DEFINE m == rx_deliver(n, f)
<1>1. n \in NatType /\ n.head = End(n)
  BY ZenonT(40) DEF RingOK
<1>2. /\ PKT_QUEUE_SIZE \in Nat \ {0} /\ n.tail \in 0 .. PKT_QUEUE_SIZE - 1
      /\ n.count \in 0 .. PKT_QUEUE_SIZE /\ n.head \in Index
  BY <1>1, NetAssumption DEF NatType, Index
<1>o. f.id <= a + 1
  OBVIOUS
<1>3. ASSUME m = n
      PROVE  RingOK(m, a + 1) /\ HandedBefore(m, h, a + 1) /\ SlotFirst(m)
  <2> HIDE DEF m
  <2>1. RingOK(n, a + 1)
    BY HeldIsOlder, ZenonT(40) DEF RingOK
  <2>2. HandedBefore(n, h, a + 1)
    BY HandedIsOlder, ZenonT(40) DEF HandedBefore
  <2>3. QED
    BY <1>3, <2>1, <2>2, ZenonT(40)
<1>4. CASE irq_status /\ n.buffer = NoFrame /\ n.count = 0
  <2>1. m = [n EXCEPT !.buffer = f, !.irq = TRUE]
    BY <1>4 DEF rx_deliver
  <2>2. /\ m \in NatType /\ m.buffer = f /\ m.tail = n.tail /\ m.count = 0
        /\ m.head = n.head /\ f # NoFrame
    BY <1>1, <1>4, <2>1, NetAssumption, ZenonT(40) DEF NatType
  <2> HIDE DEF m
  <2>3. \A k \in Index : ~InRing(m, k) /\ End(m) = End(n)
    <3>1. End(m) = End(n)
      BY <1>4, <2>2, ZenonT(40) DEF End
    <3>2. ASSUME NEW k \in Index PROVE ~InRing(m, k)
      BY <1>2, <2>2, EmptyRing, ZenonT(40)
    <3>3. QED
      BY <3>1, <3>2, Zenon
  <2>4. RingOK(m, a + 1)
    <3>1. m.head = End(m) /\ m.buffer.id <= a + 1
      BY <1>1, <1>2, <1>o, <2>2, <2>3, ZenonT(40)
    <3>2. QED
      BY <2>2, <2>3, <3>1, ZenonT(40) DEF RingOK
  <2>5. HandedBefore(m, h, a + 1)
    <3>1. \A i \in 1 .. Len(h) : h[i] <= a + 1 /\ h[i] < a + 1
      BY HandedIsOlder, Zenon
    <3>2. \A i \in 1 .. Len(h) : h[i] < m.buffer.id
      BY <2>2, <3>1, ZenonT(20)
    <3>3. QED
      BY <2>3, <3>1, <3>2, ZenonT(40) DEF HandedBefore
  <2>6. SlotFirst(m) /\ m # n /\ rx_space(m) = rx_space(n) - 1
    BY <1>2, <1>4, <2>2, SMTT(30) DEF SlotFirst, rx_space
  <2>7. QED
    BY <2>4, <2>5, <2>6 DEF m
<1>5. CASE irq_status /\ ~(n.buffer = NoFrame /\ n.count = 0) /\ n.count < PKT_QUEUE_SIZE
  <2>1. m = [n EXCEPT !.queue[n.head] = f, !.head = (n.head + 1) % PKT_QUEUE_SIZE, !.count = @ + 1]
    BY <1>2, <1>5, SMTT(30) DEF rx_deliver
  <2>2. /\ (n.head + 1) % PKT_QUEUE_SIZE = IF n.head + 1 = PKT_QUEUE_SIZE THEN 0 ELSE n.head + 1
        /\ (n.head + 1) % PKT_QUEUE_SIZE \in Index /\ n.count + 1 \in 0 .. PKT_QUEUE_SIZE
    BY <1>2, <1>5, NextIndex DEF Index
  <2>3. /\ m \in NatType /\ m.buffer = n.buffer /\ m.tail = n.tail /\ m.count = n.count + 1
        /\ m.head = (n.head + 1) % PKT_QUEUE_SIZE /\ m.queue = [n.queue EXCEPT ![n.head] = f]
    <3>q. DEFINE q == [n.queue EXCEPT ![n.head] = f]
    <3>1. q \in [Index -> Frame \cup {NoFrame}]
      BY <1>1 DEF NatType
    <3>2. m = [n EXCEPT !.queue = q, !.head = (n.head + 1) % PKT_QUEUE_SIZE, !.count = n.count + 1]
      BY <1>1, <2>1 DEF NatType
    <3> HIDE DEF q, m
    <3>3. m \in NatType
      BY <1>1, <2>2, <3>1, <3>2, ZenonT(40) DEF NatType
    <3>4. QED
      BY <1>1, <3>2, <3>3, ZenonT(20) DEF NatType, q
  <2>4. \A k \in Index : m.queue[k] = IF k = n.head THEN f ELSE n.queue[k]
    BY <1>1, <2>3, ZenonT(40) DEF NatType
  <2> HIDE DEF m
  <2>5. \A k \in Index : /\ InRing(m, k) => k = n.head \/ InRing(n, k)
                         /\ InRing(n, k) => k # n.head /\ Behind(n, k) < n.count
                         /\ Behind(m, k) = Behind(n, k) /\ Behind(n, k) \in Nat
    <3> SUFFICES ASSUME NEW k \in Index
                 PROVE  /\ InRing(m, k) => k = n.head \/ InRing(n, k)
                        /\ InRing(n, k) => k # n.head /\ Behind(n, k) < n.count
                        /\ Behind(m, k) = Behind(n, k) /\ Behind(n, k) \in Nat
      BY Zenon
    <3>1. k \in 0 .. PKT_QUEUE_SIZE - 1
      BY ZenonT(20) DEF Index
    <3>2. QED
      BY <1>1, <1>2, <1>5, <2>3, <3>1, SMTT(60) DEF InRing, Behind, End
  <2>6. Behind(n, n.head) = n.count
    BY <1>1, <1>2, <1>5 DEF Behind, End
  <2>7. m.head = End(m)
    BY <1>1, <1>2, <1>5, <2>2, <2>3 DEF End
  <2>8. \A k \in Index : InRing(n, k) =>
             n.queue[k] \in Frame /\ n.queue[k].id <= a + 1 /\ n.queue[k].id < f.id
    BY HeldIsOlder, ZenonT(40)
  <2>9. \A k \in Index : InRing(m, k) => m.queue[k] \in Frame /\ m.queue[k].id <= a + 1
    BY <1>o, <2>4, <2>5, <2>8, ZenonT(40)
  <2>10. \A j, k \in Index : InRing(m, j) /\ InRing(m, k) /\ Behind(m, j) < Behind(m, k)
                                 => m.queue[j].id < m.queue[k].id
    <3> SUFFICES ASSUME NEW j \in Index, NEW k \in Index,
                        InRing(m, j), InRing(m, k), Behind(m, j) < Behind(m, k)
                 PROVE  m.queue[j].id < m.queue[k].id
      BY Zenon
    <3>1. CASE k = n.head
      <4>1. j # n.head /\ InRing(n, j)
        BY <2>5, <3>1, SMTT(30)
      <4>2. QED
        BY <2>4, <2>8, <3>1, <4>1, ZenonT(40)
    <3>2. CASE k # n.head
      <4>1. InRing(n, k) /\ Behind(n, k) < n.count
        BY <2>5, <3>2, SMTT(30)
      <4>2. j # n.head
        BY <1>2, <2>5, <2>6, <4>1, SMTT(30)
      <4>3. InRing(n, j) /\ Behind(n, j) < Behind(n, k)
        BY <2>5, <4>2, SMTT(30)
      <4>4. QED
        BY <2>4, <3>2, <4>1, <4>2, <4>3, ZenonT(40) DEF RingOK
    <3>3. QED
      BY <3>1, <3>2, SMTT(30)
  <2>11. n.buffer # NoFrame => n.buffer.id <= a + 1 /\ n.buffer.id < f.id
    BY HeldIsOlder, ZenonT(40)
  <2>12. RingOK(m, a + 1)
    <3>1. m.buffer # NoFrame => m.buffer.id <= a + 1
      BY <2>3, <2>11, ZenonT(40)
    <3>2. m.buffer # NoFrame => \A k \in Index : InRing(m, k) => m.buffer.id < m.queue[k].id
      BY <2>3, <2>4, <2>5, <2>11, ZenonT(40) DEF RingOK
    <3>3. QED
      BY <2>3, <2>7, <2>9, <2>10, <3>1, <3>2, ZenonT(40) DEF RingOK
  <2>13. HandedBefore(m, h, a + 1)
    <3>1. \A i \in 1 .. Len(h) : h[i] <= a + 1 /\ h[i] < a + 1
      BY HandedIsOlder, Zenon
    <3>2. ASSUME NEW i \in 1 .. Len(h), NEW k \in Index, InRing(m, k) PROVE h[i] < m.queue[k].id
      <4>1. CASE k = n.head
        BY <2>4, <3>1, <4>1, ZenonT(40)
      <4>2. CASE k # n.head
        <5>1. InRing(n, k) /\ m.queue[k] = n.queue[k]
          BY <2>4, <2>5, <3>2, <4>2, ZenonT(40)
        <5>2. QED
          BY <5>1, ZenonT(40) DEF HandedBefore
      <4>3. QED
        BY <4>1, <4>2, ZenonT(20)
    <3>3. QED
      BY <3>1, <3>2, <2>3, ZenonT(40) DEF HandedBefore
  <2>14. SlotFirst(m) /\ m # n /\ rx_space(m) = rx_space(n) - 1
    BY <1>2, <1>5, <2>3, SMTT(30) DEF SlotFirst, rx_space
  <2>15. QED
    BY <2>12, <2>13, <2>14 DEF m
<1>6. CASE ~irq_status \/ (~(n.buffer = NoFrame /\ n.count = 0) /\ n.count >= PKT_QUEUE_SIZE)
  <2>1. m = n
    BY <1>6, ZenonT(20) DEF rx_deliver
  <2>2. ~(irq_status /\ rx_space(n) >= 1)
    BY <1>2, <1>6 DEF rx_space, SlotFirst
  <2>3. QED
    BY <1>3, <2>1, <2>2
<1>7. QED
  BY <1>2, <1>4, <1>5, <1>6, SMTT(30)

(* The frame in the slot is taken, and handed on or not. *)
LEMMA TakeIsOK ==
    ASSUME NEW n, NEW a \in Nat, NEW h, RingOK(n, a), HandedBefore(n, h, a), n.buffer # NoFrame
    PROVE  LET m == [n EXCEPT !.buffer = NoFrame]
           IN /\ RingOK(m, a) /\ HandedBefore(m, h, a)
              /\ HandedBefore(m, Append(h, n.buffer.id), a)
<1>m. DEFINE m == [n EXCEPT !.buffer = NoFrame]
<1>1. /\ n \in NatType /\ m \in NatType /\ m.buffer = NoFrame /\ m.queue = n.queue
      /\ m.head = n.head /\ m.tail = n.tail /\ m.count = n.count
      /\ n.buffer \in Frame /\ n.buffer.id \in Nat
  BY SMTT(30) DEF RingOK, NatType, Frame
<1> HIDE DEF m
<1>2. \A k \in Index : (InRing(m, k) <=> InRing(n, k)) /\ Behind(m, k) = Behind(n, k)
  BY <1>1, SMTT(30) DEF InRing, Behind
<1>3. RingOK(m, a)
  BY <1>1, <1>2, ZenonT(40) DEF RingOK, End
<1>4. HandedBefore(m, h, a)
  BY <1>1, <1>2, ZenonT(40) DEF HandedBefore
<1>5. HandedBefore(m, Append(h, n.buffer.id), a)
  <2>g. DEFINE g == Append(h, n.buffer.id)
  <2>1. h \in Seq(Nat) /\ Len(h) \in Nat
    BY SMTT(30) DEF HandedBefore
  <2>2. /\ g \in Seq(Nat) /\ Len(g) = Len(h) + 1 /\ g[Len(h) + 1] = n.buffer.id
        /\ \A i \in 1 .. Len(h) : g[i] = h[i]
    BY <1>1, <2>1, AppendFacts, SMTT(30)
  <2> HIDE DEF g
  <2>3. \A i \in 1 .. Len(g) : /\ g[i] <= a
                               /\ \A k \in Index : InRing(m, k) => g[i] < m.queue[k].id
    <3> TAKE i \in 1 .. Len(g)
    <3>1. CASE i \in 1 .. Len(h)
      BY <1>1, <1>2, <2>2, <3>1, ZenonT(40) DEF HandedBefore
    <3>2. CASE i = Len(h) + 1
      BY <1>1, <1>2, <2>2, <3>2, ZenonT(40) DEF RingOK
    <3>3. QED
      BY <2>1, <2>2, <3>1, <3>2, SMTT(30)
  <2>4. \A i \in 1 .. Len(g) - 1 : g[i] < g[i + 1]
    <3> TAKE i \in 1 .. Len(g) - 1
    <3>1. CASE i \in 1 .. Len(h) - 1
      <4>1. i \in 1 .. Len(h) /\ i + 1 \in 1 .. Len(h)
        BY <2>1, <3>1, SMTT(30)
      <4>2. QED
        BY <2>2, <3>1, <4>1, ZenonT(20) DEF HandedBefore
    <3>2. CASE i = Len(h)
      <4>1. i \in 1 .. Len(h)
        BY <2>1, <2>2, <3>2
      <4>2. QED
        BY <2>2, <3>2, <4>1, ZenonT(40) DEF HandedBefore
    <3>3. QED
      BY <2>1, <2>2, <3>1, <3>2
  <2>5. QED
    BY <1>1, <2>2, <2>3, <2>4, SMTT(30) DEF HandedBefore, g
<1>6. QED
  BY <1>3, <1>4, <1>5, ZenonT(20) DEF m

LEMMA NetStart == NetInit => NetInv
<1> SUFFICES ASSUME NetInit PROVE NetInv
  OBVIOUS
<1>1. nat = EmptyNat
  BY ZenonT(40) DEF NetInit, nat, EmptyNat
<1>2. HandedBefore(nat, handed, arrived)
  BY DEF NetInit, HandedBefore
<1>3. arrived = 0 /\ left = 0 /\ irq_status = FALSE /\ driver = "none" /\ torn = FALSE
  BY DEF NetInit
<1>4. RingOK(nat, arrived) /\ SlotFirst(nat)
  BY <1>1, <1>2, <1>3, EmptyIsOK, ZenonT(20)
<1>5. arrived \in Nat /\ left \in Nat /\ arrived + left <= MaxArrivals /\ ~(left > 0)
  BY <1>3, NetAssumption
<1>6. QED
  BY <1>2, <1>3, <1>4, <1>5, ZenonT(40) DEF NetInv

(* SetNat gives the slot, the ring and the line their new value. *)
LEMMA SetNatIs ==
    ASSUME NEW n, n \in NatType, SetNat(n)
    PROVE  nat' = n
  BY ZenonT(20) DEF SetNat, nat, NatType

LEMMA NatUnchanged ==
    ASSUME UNCHANGED <<buffer, ringVars, irq>>
    PROVE  nat' = nat
  BY DEF nat, ringVars

(* What is kept of the slot and the ring when only the line is lowered. *)
LEMMA LineLowered ==
    ASSUME NEW n, NEW a \in Nat, NEW h, RingOK(n, a), HandedBefore(n, h, a), SlotFirst(n),
           NEW m \in NatType, m.buffer = n.buffer, m.queue = n.queue,
           m.head = n.head, m.tail = n.tail, m.count = n.count
    PROVE  RingOK(m, a) /\ HandedBefore(m, h, a) /\ SlotFirst(m)
<1>1. \A k \in Index : (InRing(m, k) <=> InRing(n, k)) /\ Behind(m, k) = Behind(n, k)
  BY SMTT(30) DEF InRing, Behind
<1>2. RingOK(m, a)
  BY <1>1, ZenonT(40) DEF RingOK, End
<1>3. HandedBefore(m, h, a)
  BY <1>1, ZenonT(40) DEF HandedBefore
<1>4. QED
  BY <1>2, <1>3, SMTT(30) DEF SlotFirst

LEMMA NetStep == NetInv /\ [NetNext]_netVars => NetInv'
<1> SUFFICES ASSUME NetInv, [NetNext]_netVars PROVE NetInv'
  OBVIOUS
<1>0. ASSUME NEW n, RingOK(n, arrived), n.buffer # NoFrame
      PROVE  n.buffer.id \in Nat
  BY <1>0, SMTT(30) DEF RingOK, NatType, Frame
<1>1. CASE UNCHANGED netVars
  BY <1>1 DEF netVars, NetInv, nat, rx_space
<1>2. ASSUME NEW kind \in FrameKind, Arrives(kind) \/ network_nat_inject_packet(kind)
      PROVE  NetInv'
  <2>f. DEFINE f == NewFrame(kind)
               m == rx_deliver(nat, f)
  <2>1. arrived < MaxArrivals /\ arrived \in Nat
    BY <1>2, NetAssumption, SMTT(30) DEF Arrives, network_nat_inject_packet, Delivered, NetInv
  <2>2. f \in Frame /\ f.id = arrived + 1
    BY <2>1, NetAssumption, SMTT(30) DEF NewFrame, Frame
  <2> HIDE DEF f
  <2>3. /\ RingOK(m, arrived + 1) /\ HandedBefore(m, handed, arrived + 1) /\ SlotFirst(m)
        /\ irq_status /\ rx_space(nat) >= 1 => m # nat /\ rx_space(m) = rx_space(nat) - 1
    BY <2>1, <2>2, DeliverIsOK, SMTT(30) DEF NetInv
  <2>4. nat' = m /\ arrived' = arrived + 1 /\ UNCHANGED <<irq_status, driver, handed>>
    <3>1. SetNat(m) /\ arrived' = arrived + 1 /\ UNCHANGED <<irq_status, driver, handed>>
      BY <1>2, SMTT(30) DEF Arrives, network_nat_inject_packet, f
    <3> HIDE DEF m
    <3>2. QED
      BY <2>3, <3>1, SetNatIs, ZenonT(40) DEF RingOK
  <2> HIDE DEF m
  <2>5. CASE Arrives(kind)
    <3>1. left = 0 /\ left' = 0 /\ torn' = torn
      BY <2>5, SMTT(30) DEF Arrives, Delivered
    <3>2. QED
      BY <2>1, <2>3, <2>4, <3>1, NetAssumption, SMTT(30) DEF NetInv
  <2>6. CASE network_nat_inject_packet(kind)
    <3>1. left # 0 /\ left' = (IF m = nat THEN 0 ELSE left - 1) /\ torn' = (torn \/ m = nat)
      BY <2>6, ZenonT(20) DEF network_nat_inject_packet, Delivered, m, f
    <3>2. left \in Nat /\ left > 0 /\ irq_status /\ rx_space(nat) >= left /\ rx_space(nat) \in Int
      <4>1. rx_space(nat) \in Int
        BY NetAssumption DEF rx_space, NetInv, RingOK, NatType
      <4>2. QED
        BY <3>1, <4>1, SMTT(30) DEF NetInv
    <3>3. m # nat /\ rx_space(m) = rx_space(nat) - 1
      BY <2>3, <3>2
    <3>4. left' = left - 1 /\ torn' = FALSE /\ rx_space(nat') >= left'
      <4>1. left' = left - 1 /\ torn' = FALSE
        BY <3>1, <3>3, ZenonT(40) DEF NetInv
      <4>2. rx_space(nat') = rx_space(nat) - 1
        BY <2>4, <3>3
      <4>3. QED
        BY <3>2, <4>1, <4>2, SMTT(30)
    <3>5. rx_space(nat)' = rx_space(nat')
      BY DEF rx_space
    <3>6. QED
      BY <2>1, <2>3, <2>4, <3>2, <3>4, <3>5, NetAssumption, SMTT(30) DEF NetInv
  <2>7. QED
    BY <1>2, <2>5, <2>6, ZenonT(40)
<1>3. CASE receive_frames
  <2>1. left = 0 /\ UNCHANGED <<irq_status, arrived, left, torn>>
    BY <1>3, ZenonT(20) DEF receive_frames, Delivered
  <2>2. driver' \in {"none", "idle", "receive", "protocol"}
    BY <1>3, ZenonT(20) DEF receive_frames, NetInv
  <2>3. RingOK(Promoted, arrived) /\ HandedBefore(Promoted, handed, arrived)
    BY PromoteIsOK, SMTT(30) DEF Promoted, NetInv
  <2>4. CASE Taken = NoFrame
    <3>1. UNCHANGED <<buffer, ringVars, irq, handed>>
      BY <1>3, <2>4 DEF receive_frames
    <3>2. nat' = nat
      BY <3>1, NatUnchanged, SMTT(30)
    <3>3. QED
      BY <2>1, <2>2, <3>1, <3>2, SMTT(30) DEF NetInv
  <2>5. CASE Taken # NoFrame
    <3>m. DEFINE m == [Promoted EXCEPT !.buffer = NoFrame]
    <3>1. /\ RingOK(m, arrived) /\ HandedBefore(m, handed, arrived)
          /\ HandedBefore(m, Append(handed, Taken.id), arrived)
      BY <2>3, <2>5, TakeIsOK, ZenonT(40) DEF Taken, NetInv
    <3>2. Rest = deliver_queued_packet(m)
      BY DEF Rest
    <3>3. HandedBefore(m, handed', arrived)
      BY <1>3, <2>5, <3>1, ZenonT(40) DEF receive_frames
    <3> HIDE DEF m
    <3>4. RingOK(Rest, arrived) /\ HandedBefore(Rest, handed', arrived) /\ SlotFirst(Rest)
      BY <3>1, <3>2, <3>3, PromoteIsOK, ZenonT(20) DEF NetInv
    <3>5. nat' = Rest
      BY <1>3, <2>5, <3>4, SetNatIs, ZenonT(40) DEF receive_frames, RingOK
    <3>6. QED
      BY <2>1, <2>2, <3>4, <3>5 DEF NetInv
  <2>6. QED
    BY <2>4, <2>5, ZenonT(20)
<1>4. CASE network_nat_reset \/ network_nat_loadstate
  <2>1. /\ SetNat(EmptyNat) /\ left = 0 /\ UNCHANGED <<irq_status, arrived, handed, left, torn>>
        /\ driver' \in {"none", "idle", "receive", "protocol"}
    BY <1>4, SMTT(30) DEF network_nat_reset, network_nat_loadstate, Delivered, NetInv
  <2>2. /\ RingOK(EmptyNat, arrived) /\ HandedBefore(EmptyNat, handed, arrived)
        /\ SlotFirst(EmptyNat)
    BY EmptyIsOK, SMTT(30) DEF NetInv
  <2>3. nat' = EmptyNat
    BY <2>1, <2>2, SetNatIs, ZenonT(40) DEF RingOK
  <2>4. QED
    BY <2>1, <2>2, <2>3, SMTT(30) DEF NetInv
<1>5. CASE device_irq \/ device_irq_again
  <2>1. /\ left = 0 /\ UNCHANGED <<irq_status, arrived, handed, left, torn>>
        /\ driver' \in {"none", "idle", "receive", "protocol"}
    BY <1>5 DEF device_irq, device_irq_again, Delivered, NetInv
  <2>2. irq' = FALSE /\ UNCHANGED <<buffer, ringVars>>
    BY <1>5, ZenonT(40) DEF device_irq, device_irq_again
  <2>3. nat \in NatType
    BY SMTT(30) DEF NetInv, RingOK
  <2>4. /\ nat' \in NatType /\ nat'.buffer = nat.buffer /\ nat'.queue = nat.queue
        /\ nat'.head = nat.head /\ nat'.tail = nat.tail /\ nat'.count = nat.count
    BY <2>2, <2>3, ZenonT(40) DEF nat, ringVars, NatType
  <2>5. RingOK(nat', arrived) /\ HandedBefore(nat', handed, arrived) /\ SlotFirst(nat')
    BY <2>4, LineLowered, SMTT(30) DEF NetInv
  <2>6. QED
    BY <2>1, <2>5, SMTT(30) DEF NetInv
<1>6. CASE rx_exhausted \/ ProtocolReturns \/ DriverInit \/ DriverFinal
  <2>1. /\ left = 0 /\ UNCHANGED <<buffer, ringVars, irq, arrived, handed, left, torn>>
        /\ driver' \in {"none", "idle", "receive", "protocol"} /\ irq_status' \in BOOLEAN
    BY <1>6, ZenonT(40) DEF rx_exhausted, ProtocolReturns, DriverInit, DriverFinal, Delivered, NetInv
  <2>2. nat' = nat
    BY <2>1, NatUnchanged, ZenonT(40)
  <2>3. QED
    BY <2>1, <2>2, SMTT(30) DEF NetInv
<1>7. ASSUME NEW k \in 2 .. MaxFragments, ArrivesInFragments(k)
      PROVE  NetInv'
  <2>1. /\ left' = k /\ k \in Nat /\ arrived + k <= MaxArrivals /\ network_nat_inject_space >= k
        /\ UNCHANGED <<buffer, ringVars, irq_status, irq, driver, arrived, handed, torn>>
    BY <1>7, NetAssumption DEF ArrivesInFragments
  <2>2. irq_status /\ rx_space(nat) >= k
    BY <1>7, <2>1, NetAssumption, SMTT(30) DEF network_nat_inject_space
  <2>3. nat' = nat /\ rx_space(nat)' = rx_space(nat)
    BY <2>1, NatUnchanged, SMTT(30) DEF rx_space
  <2>4. QED
    BY <2>1, <2>2, <2>3, ZenonT(20) DEF NetInv
<1>8. QED
  BY <1>1, <1>2, <1>3, <1>4, <1>5, <1>6, <1>7, SMTT(30) DEF NetNext

(* For a ring of any size, and through everything that can happen to the      *)
(* driver: a datagram that was let in is delivered whole, since rx_space and  *)
(* rx_deliver agree on the room.                                              *)
THEOREM DatagramIsNeverTorn == NetSpec => []NeverTorn
<1>1. NetInv => NeverTorn
  BY ZenonT(40) DEF NetInv, NeverTorn
<1>2. QED
  BY <1>1, NetStart, NetStep, PTL DEF NetSpec

(* The protocol modules are given the frames in the order of arrival: the     *)
(* slot is the ring's head, through resets, resumes and restarted drivers.    *)
THEOREM FramesAreHandedInOrder == NetSpec => []HandedInOrder
<1>1. NetInv => HandedInOrder
  BY SMTT(30) DEF NetInv, HandedBefore, HandedInOrder
<1>2. QED
  BY <1>1, NetStart, NetStep, PTL DEF NetSpec

(* The variables hold what they may, and the ring's indices agree with its    *)
(* count, whatever rx_deliver and the driver do.                              *)
THEOREM NetTypeCorrect == NetSpec => []NetTypeOK
<1>1. NetInv => NetTypeOK
  <2> SUFFICES ASSUME NetInv PROVE NetTypeOK
    OBVIOUS
  <2>1. nat \in NatType /\ nat.head = End(nat)
    BY ZenonT(40) DEF NetInv, RingOK
  <2>2. /\ buffer \in Frame \cup {NoFrame} /\ pkt_queue \in [Index -> Frame \cup {NoFrame}]
        /\ pkt_queue_head \in Index /\ pkt_queue_tail \in Index
        /\ pkt_queue_count \in 0 .. PKT_QUEUE_SIZE /\ irq \in BOOLEAN
    BY <2>1, ZenonT(40) DEF nat, NatType
  <2>3. pkt_queue_head = IF pkt_queue_tail + pkt_queue_count < PKT_QUEUE_SIZE
                         THEN pkt_queue_tail + pkt_queue_count
                         ELSE pkt_queue_tail + pkt_queue_count - PKT_QUEUE_SIZE
    BY <2>1, ZenonT(20) DEF nat, End
  <2>4. pkt_queue_head = (pkt_queue_tail + pkt_queue_count) % PKT_QUEUE_SIZE
    BY <2>2, <2>3, NetAssumption DEF Index
  <2>5. QED
    BY <2>2, <2>4, ZenonT(40) DEF NetInv, NetTypeOK, Index
<1>2. QED
  BY <1>1, NetStart, NetStep, PTL DEF NetSpec

-----------------------------------------------------------------------------
(* The relay's reassembly *)

(* Every set of numbers that is not empty has a least one. *)
LEMMA LeastNat ==
    ASSUME NEW S \in SUBSET Nat, S # {}
    PROVE  \E i \in S : \A j \in S : i <= j
<1>1. PICK i \in S : \A j \in S : ~(<<j, i>> \in OpToRel(<, Nat))
  BY NatLessThanWellFounded, WFMin, ZenonT(40)
<1>2. \A j \in S : ~(j < i)
  BY <1>1, ZenonT(40) DEF OpToRel
<1>3. QED
  BY <1>2

LEMMA FirstIsMember ==
    ASSUME NEW S \in SUBSET ReasmSlot, S # {}
    PROVE  First(S) \in S
<1>1. \E i \in S : \A j \in S : i <= j
  BY LeastNat DEF ReasmSlot
<1>2. QED
  BY <1>1, ZenonT(20) DEF First

(* No two datagrams that are on their way have the same source, destination   *)
(* and identification.                                                        *)
KeysDiffer == \A d, e \in Datagram : Key[d] = Key[e] => d = e

(* The first n units of d, and what a slot holds: the beginning of one        *)
(* datagram, with no gap.                                                     *)
UpTo(d, n) == [k \in 1 .. n |-> <<d, k - 1>>]

SlotType == [in_use : BOOLEAN, key : {Key[d] : d \in Datagram} \cup {0},
             data : Seq(Datagram \X Nat), next_offset : Nat, started : Nat]

HoldsBeginning(s) ==
    s.in_use => \E d \in Datagram : s.key = Key[d] /\ s.data = UpTo(d, s.next_offset)

SlotsHold(slots) ==
    slots \in [ReasmSlot -> SlotType] /\ \A i \in ReasmSlot : HoldsBeginning(slots[i])

ReasmInv ==
    /\ emitted \in [Datagram -> Nat] /\ now \in Nat
    /\ SlotsHold(reasm) /\ SentIsWhole

LEMMA UpToAppended ==
    ASSUME NEW d \in Datagram, NEW n \in Nat
    PROVE  /\ UpTo(d, n) \in Seq(Datagram \X Nat)
           /\ Append(UpTo(d, n), <<d, n>>) = UpTo(d, n + 1)
           /\ UpTo(d, n + 1) \in Seq(Datagram \X Nat)
<1>u. DEFINE unit == <<d, n>>
             longer == Append(UpTo(d, n), unit)
<1>1. ASSUME NEW m \in Nat
      PROVE  UpTo(d, m) \in Seq(Datagram \X Nat) /\ Len(UpTo(d, m)) = m
  BY DEF UpTo
<1>2. unit \in Datagram \X Nat /\ UpTo(d, n + 1)[n + 1] = unit
  BY DEF UpTo
<1>3. \A k \in 1 .. n : UpTo(d, n + 1)[k] = UpTo(d, n)[k]
  BY DEF UpTo
<1>4. UpTo(d, n) \in Seq(Datagram \X Nat) /\ Len(UpTo(d, n)) = n
  BY <1>1
<1>5. UpTo(d, n + 1) \in Seq(Datagram \X Nat) /\ Len(UpTo(d, n + 1)) = n + 1
  BY <1>1
<1> HIDE DEF unit
<1>6. /\ longer \in Seq(Datagram \X Nat) /\ Len(longer) = n + 1
      /\ longer[n + 1] = unit /\ \A k \in 1 .. n : longer[k] = UpTo(d, n)[k]
  BY <1>2, <1>4, AppendFacts
<1>7. \A k \in 1 .. n + 1 : longer[k] = UpTo(d, n + 1)[k]
  BY <1>2, <1>3, <1>6
<1> HIDE DEF longer
<1>8. longer = UpTo(d, n + 1)
  BY <1>5, <1>6, <1>7, SameSequence, ZenonT(20)
<1>9. QED
  BY <1>4, <1>5, <1>8, SMTT(30) DEF longer, unit

LEMMA FreeHolds == Free \in SlotType /\ HoldsBeginning(Free)
  BY DEF Free, SlotType, HoldsBeginning

LEMMA ReasmStart == ReasmInit => ReasmInv
  BY FreeHolds DEF ReasmInit, ReasmInv, SlotsHold, SentIsWhole

(* Slots that have expired, and a datagram that begins. *)
LEMMA SlotsBefore ==
    ASSUME ReasmInv, NEW d \in Datagram
    PROVE  SlotsHold(Expired) /\ SlotsHold(Begun(Expired, d))
<1>1. SlotsHold(Expired)
  BY FreeHolds DEF ReasmInv, SlotsHold, Expired
<1>2. ASSUME NEW slots, SlotsHold(slots)
      PROVE  SlotsHold(Begun(slots, d))
  <2>n. DEFINE new == [in_use |-> TRUE, key |-> Key[d], data |-> <<>>, next_offset |-> 0, started |-> now]
  <2>1. new \in SlotType
    BY DEF SlotType, ReasmInv
  <2>2. HoldsBeginning(new)
    BY DEF HoldsBeginning, UpTo
  <2>3. Begun(slots, d) = [slots EXCEPT ![reasm_claim(slots, Key[d])] = new]
    BY ZenonT(20) DEF Begun
  <2> HIDE DEF new
  <2>4. QED
    BY <1>2, <2>1, <2>2, <2>3, ZenonT(40) DEF SlotsHold
<1>3. QED
  BY <1>1, <1>2, ZenonT(20)

(* Unit n of d follows what its slot holds. *)
LEMMA AppendedHolds ==
    ASSUME KeysDiffer, SentIsWhole, NEW slots, SlotsHold(slots), NEW d \in Datagram, NEW n \in Nat,
           NEW i \in Known(slots, Key[d]), n = slots[i].next_offset, Appended(slots, i, d, n)
    PROVE  SlotsHold(reasm') /\ SentIsWhole'
<1>d. DEFINE data == Append(slots[i].data, <<d, n>>)
             longer == [slots[i] EXCEPT !.data = data, !.next_offset = n + 1]
<1>1. i \in ReasmSlot /\ slots[i] \in SlotType /\ slots[i].in_use /\ slots[i].key = Key[d]
  BY ZenonT(20) DEF Known, SlotsHold
<1>2. slots[i].data = UpTo(d, n)
  <2>1. PICK e \in Datagram : slots[i].key = Key[e] /\ slots[i].data = UpTo(e, slots[i].next_offset)
    BY <1>1, ZenonT(40) DEF SlotsHold, HoldsBeginning
  <2>2. e = d
    BY <1>1, <2>1, ZenonT(40) DEF KeysDiffer
  <2>3. QED
    BY <2>1, <2>2, ZenonT(40)
<1>3. data = UpTo(d, n + 1) /\ data \in Seq(Datagram \X Nat)
  BY <1>2, UpToAppended, ZenonT(40)
<1>4. longer \in SlotType /\ HoldsBeginning(longer)
  <2>1. data \in Seq(Datagram \X Nat) /\ data = UpTo(d, n + 1) /\ n + 1 \in Nat
    BY <1>3
  <2> HIDE DEF data
  <2>2. longer \in SlotType
    BY <1>1, <2>1, ZenonT(40) DEF SlotType
  <2>3. longer.key = slots[i].key /\ longer.data = data /\ longer.next_offset = n + 1
    BY <1>1 DEF SlotType
  <2>4. HoldsBeginning(longer)
    BY <1>1, <2>1, <2>3, ZenonT(20) DEF HoldsBeginning
  <2>5. QED
    BY <2>2, <2>4, SMTT(30)
<1>5. \/ reasm' = [slots EXCEPT ![i] = Free]
      \/ reasm' = [slots EXCEPT ![i] = longer]
  BY <1>1, ZenonT(40) DEF Appended, SlotsHold
<1>6. SlotsHold(reasm')
  <2> HIDE DEF longer
  <2>1. QED
    BY <1>1, <1>4, <1>5, FreeHolds, ZenonT(40) DEF SlotsHold
<1>7. sent' = sent \/ (n + 1 = Units[d] /\ sent' = sent \cup {data})
  BY DEF Appended
<1>8. n + 1 = Units[d] => data = Whole(d)
  BY <1>3, ZenonT(40) DEF Whole, UpTo
<1>9. SentIsWhole'
  BY <1>7, <1>8, ZenonT(40) DEF SentIsWhole, Whole
<1>10. QED
  BY <1>6, <1>9, ZenonT(20)

LEMMA ReasmStep == KeysDiffer /\ ReasmInv /\ [ReasmNext]_reasmVars => ReasmInv'
<1> SUFFICES ASSUME KeysDiffer, ReasmInv, [ReasmNext]_reasmVars PROVE ReasmInv'
  OBVIOUS
<1>1. CASE UNCHANGED reasmVars
  BY <1>1, ZenonT(20) DEF reasmVars, ReasmInv, SentIsWhole, Whole
<1>2. ASSUME NEW d \in Datagram, Fragment(d)
      PROVE  ReasmInv'
  <2>n. DEFINE n == emitted[d]
               slots == IF n = 0 THEN Begun(Expired, d) ELSE Expired
               known == Known(slots, Key[d])
  <2>1. n \in Nat /\ emitted' \in [Datagram -> Nat] /\ now' \in Nat /\ relay_tx_fragment(d, n)
    BY <1>2 DEF Fragment, ReasmInv
  <2>2. SlotsHold(slots)
    BY SlotsBefore
  <2>3. CASE known = {}
    <3>1. reasm' = slots /\ sent' = sent
      BY <2>1, <2>3, SMTT(30) DEF relay_tx_fragment
    <3>2. SentIsWhole'
      BY <3>1, ZenonT(40) DEF ReasmInv, SentIsWhole, Whole
    <3>3. QED
      BY <2>1, <2>2, <3>1, <3>2, ZenonT(40) DEF ReasmInv
  <2>4. CASE known # {}
    <3>1. First(known) \in known
      BY <2>4, FirstIsMember, SMTT(30) DEF Known
    <3>2. CASE ~NextOffsetFits(slots[First(known)], n)
      <4>1. reasm' = [slots EXCEPT ![First(known)] = Free] /\ sent' = sent
        BY <2>1, <2>4, <3>2 DEF relay_tx_fragment
      <4> HIDE DEF slots
      <4>2. SlotsHold(reasm')
        BY <2>2, <4>1, FreeHolds, ZenonT(40) DEF SlotsHold
      <4>3. SentIsWhole'
        BY <4>1, ZenonT(40) DEF ReasmInv, SentIsWhole, Whole
      <4>4. QED
        BY <2>1, <4>2, <4>3, ZenonT(40) DEF ReasmInv
    <3>3. CASE NextOffsetFits(slots[First(known)], n)
      <4>1. Appended(slots, First(known), d, n)
        BY <2>1, <2>4, <3>3, ZenonT(20) DEF relay_tx_fragment
      <4>2. n = slots[First(known)].next_offset
        BY <3>3 DEF NextOffsetFits
      <4>3. SlotsHold(reasm') /\ SentIsWhole'
        <5> HIDE DEF slots, known, n
        <5>1. First(known) \in Known(slots, Key[d])
          BY <3>1, ZenonT(40) DEF known
        <5>2. QED
          BY <2>1, <2>2, <4>1, <4>2, <5>1, AppendedHolds, ZenonT(40) DEF ReasmInv
      <4>4. QED
        BY <2>1, <4>3, ZenonT(40) DEF ReasmInv
    <3>4. QED
      BY <3>2, <3>3, ZenonT(40)
  <2>5. QED
    BY <2>3, <2>4, ZenonT(20)
<1>3. ASSUME NEW d \in Datagram, FragmentLost(d) \/ EmitAgain(d)
      PROVE  ReasmInv'
  BY <1>3 DEF FragmentLost, EmitAgain, ReasmInv, SentIsWhole, Whole
<1>4. CASE TimePasses
  BY <1>4 DEF TimePasses, ReasmInv, SentIsWhole, Whole
<1>5. QED
  BY <1>1, <1>2, <1>3, <1>4, ZenonT(20) DEF ReasmNext

(* What the relay sends is a whole datagram of one guest, for any number of   *)
(* datagrams, slots and units, as long as no two datagrams share a key.       *)
THEOREM ReassembledIsWhole ==
    ASSUME KeysDiffer PROVE ReasmSpec => []SentIsWhole
<1>1. ReasmInv => SentIsWhole
  BY DEF ReasmInv
<1>2. ReasmInv /\ [ReasmNext]_reasmVars => ReasmInv'
  BY ReasmStep
<1>3. QED
  BY <1>1, <1>2, ReasmStart, PTL DEF ReasmSpec
=============================================================================
