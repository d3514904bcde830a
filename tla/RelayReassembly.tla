-------------------------- MODULE RelayReassembly --------------------------
(* The relay puts the guests' fragmented datagrams together and sends them as *)
(* one (broadcast_relay.c): REASM_SLOTS datagrams at a time, fragments in     *)
(* ascending order.  The fragments of one datagram are emitted in order, but  *)
(* those of several, from several machines of the wire, come interleaved, and *)
(* some are lost on the way.  A fragment is one unit of its datagram.         *)
EXTENDS Naturals, Sequences

CONSTANTS
    Datagram,       \* datagrams that the guests send
    Key,            \* its source, destination and IP identification
    Units,          \* fragments of each
    REASM_SLOTS, REASM_TIMEOUT,
    REASM_MAX_LEN,  \* in units
    MaxTime,        \* bound: seconds in a behaviour
    FragmentUpsets  \* of "lost" (a fragment does not arrive), "again" (a
                    \* datagram is emitted once more under its old key),
                    \* "rate" (the budget of this second is spent)

ASSUME FragmentAssumption ==
    /\ REASM_SLOTS \in Nat \ {0} /\ REASM_TIMEOUT \in Nat /\ MaxTime \in Nat
    /\ REASM_MAX_LEN \in Nat /\ Units \in [Datagram -> Nat]

VARIABLES
    emitted,        \* fragments of each datagram that its guest has emitted
    reasm,          \* the slots
    now,
    sent,           \* data of the datagrams sent to the real network
    to_slirp        \* datagrams with a fragment that was declined, and so went
                    \* to SLiRP, after the relay had taken the ones before it

reasmVars == <<emitted, reasm, now, sent, to_slirp>>

ReasmSlot == 1 .. REASM_SLOTS
Free == [in_use |-> FALSE, key |-> 0, data |-> <<>>, next_offset |-> 0, started |-> 0]

ReasmInit ==
    /\ emitted = [d \in Datagram |-> 0]
    /\ reasm = [i \in ReasmSlot |-> Free]
    /\ now = 0 /\ sent = {} /\ to_slirp = {}

(* reasm_expire, with every frame the relay looks at. *)
Expired ==
    [i \in ReasmSlot |-> IF reasm[i].in_use /\ now - reasm[i].started > REASM_TIMEOUT
                         THEN Free ELSE reasm[i]]

Known(slots, key) == {i \in ReasmSlot : slots[i].in_use /\ slots[i].key = key}
Unused(slots) == {i \in ReasmSlot : ~slots[i].in_use}
First(S) == CHOOSE i \in S : \A j \in S : i <= j

(* The slot of a datagram that begins: its own if it is known, one that is    *)
(* free, or that of the datagram that has waited longest.                     *)
reasm_claim(slots, key) ==
    IF Known(slots, key) # {} THEN First(Known(slots, key))
    ELSE IF Unused(slots) # {} THEN First(Unused(slots))
    ELSE First({i \in ReasmSlot : \A j \in ReasmSlot : slots[i].started <= slots[j].started})

(* What relay_tx_fragment does with unit n of datagram d: whether it takes    *)
(* it, the slots after it, and the datagrams sent.                            *)
Begun(slots, d) ==
    [slots EXCEPT ![reasm_claim(slots, Key[d])] =
        [in_use |-> TRUE, key |-> Key[d], data |-> <<>>, next_offset |-> 0, started |-> now]]

NextOffsetFits_Any(s, n) == TRUE
NextOffsetFits(s, n) == n = s.next_offset

(* A complete datagram leaves its slot, and is sent unless the budget of file *)
(* traffic is spent.                                                          *)
Appended(slots, i, d, n) ==
    LET data == Append(slots[i].data, <<d, n>>)
        last == n + 1 = Units[d]
        refused == n + 1 > REASM_MAX_LEN
    IN /\ reasm' = IF last \/ refused THEN [slots EXCEPT ![i] = Free]
                   ELSE [slots EXCEPT ![i].data = data, ![i].next_offset = n + 1]
       /\ \/ sent' = IF last /\ ~refused THEN sent \cup {data} ELSE sent
          \/ "rate" \in FragmentUpsets /\ last /\ ~refused /\ UNCHANGED sent
       /\ UNCHANGED to_slirp

relay_tx_fragment(d, n) ==
    LET slots == IF n = 0 THEN Begun(Expired, d) ELSE Expired
        known == Known(slots, Key[d])
    IN IF known = {} THEN reasm' = slots /\ UNCHANGED <<sent, to_slirp>>
       ELSE IF ~NextOffsetFits(slots[First(known)], n)
         THEN /\ reasm' = [slots EXCEPT ![First(known)] = Free]
              /\ to_slirp' = to_slirp \cup {d}
              /\ UNCHANGED sent
       ELSE Appended(slots, First(known), d, n)

(* A guest emits the next fragment of a datagram, and the relay gets it. *)
Fragment(d) ==
    /\ emitted[d] < Units[d]
    /\ emitted' = [emitted EXCEPT ![d] = @ + 1]
    /\ relay_tx_fragment(d, emitted[d])
    /\ UNCHANGED now

(* It is lost, in the socket of the relay's machine for example. *)
FragmentLost(d) ==
    /\ "lost" \in FragmentUpsets
    /\ emitted[d] < Units[d]
    /\ emitted' = [emitted EXCEPT ![d] = @ + 1]
    /\ UNCHANGED <<reasm, now, sent, to_slirp>>

EmitAgain(d) ==
    /\ "again" \in FragmentUpsets
    /\ emitted[d] > 0
    /\ emitted' = [emitted EXCEPT ![d] = 0]
    /\ UNCHANGED <<reasm, now, sent, to_slirp>>

TimePasses ==
    /\ now < MaxTime /\ now' = now + 1
    /\ UNCHANGED <<emitted, reasm, sent, to_slirp>>

ReasmNext ==
    \/ \E d \in Datagram : Fragment(d) \/ FragmentLost(d) \/ EmitAgain(d)
    \/ TimePasses

ReasmSpec == ReasmInit /\ [][ReasmNext]_reasmVars
-----------------------------------------------------------------------------
(* What every variable may hold. *)
ReasmTypeOK ==
    /\ now \in 0 .. MaxTime /\ emitted \in [Datagram -> Nat]
    /\ \A i \in ReasmSlot : /\ Len(reasm[i].data) = reasm[i].next_offset
                            /\ reasm[i].next_offset <= REASM_MAX_LEN

Whole(d) == [n \in 1 .. Units[d] |-> <<d, n - 1>>]

(* What is sent is one whole datagram of one guest, however the fragments of  *)
(* several were interleaved, lost, emitted again, displaced from their slot   *)
(* or expired.                                                                *)
SentIsWhole == \A data \in sent : \E d \in Datagram : data = Whole(d)

(* A statement that does not hold of the code, see the README: a datagram     *)
(* that is declined is one that SLiRP can deal with ("let SLiRP deal with the *)
(* datagram"), so it has all of it.                                           *)
DeclinedIsWhole == to_slirp = {}
=============================================================================
