--------------------------- MODULE P2PRoom_proofs ---------------------------
(* Proofs about P2PRoom. *)
EXTENDS P2PRoom, SequenceTheorems, TLAPS

----------------------------------------------------------------------------
(* The inductive invariant.                                                 *)

Conns == {"new", "connecting", "connected", "failed", "closed"}
Places == {"idle", "fetch", "next", "remote", "again", "flush", "local", "answer", "ice"}
PeerSlots ==
  [open : BOOLEAN, sig : {"stable", "have-local-offer", "have-remote-offer"}, described : BOOLEAN, conn : Conns,
   needed : BOOLEAN, offering : BOOLEAN, pending : BOOLEAN, attempts : Nat, stalled : BOOLEAN, terminal : BOOLEAN,
   recreated : BOOLEAN, seen : Conns]
PollCalls ==
  [at : Places, joins : BOOLEAN, since : Nat, todo : Seq(Kinds), vouched : BOOLEAN, slot : Nat, kind : Kinds]

Rooms == [dialer : BOOLEAN, closed : BOOLEAN, joined : BOOLEAN, armed : BOOLEAN, cursor : Nat]
Relays == [log : Seq(Kinds), present : BOOLEAN]

\* The ranges of the variables.
TypeOK ==
  /\ room \in Rooms /\ relay \in Relays
  /\ slots \in Seq(PeerSlots) /\ peer \in 0..Len(slots)
  /\ poll \in [Polls -> PollCalls]

\* A poll that waits for a connection waits for one that was made.
Waiting == {"remote", "again", "flush", "local", "ice"}
HoldsSlot(k) == poll[k].at \in Waiting => poll[k].slot \in 1..Len(slots)
\* The connection of this.peers is not closed.
PeerIsOpen == peer # 0 => slots[peer].open

RoomInv ==
  /\ TypeOK /\ \A k \in Polls : HoldsSlot(k)
  /\ PeerIsOpen /\ OnePerPeer /\ PollingGoesOn

----------------------------------------------------------------------------
(* Connections.                                                             *)

\* No connection is made or closed.
SameConnections ==
  /\ slots' \in Seq(PeerSlots) /\ Len(slots') = Len(slots) /\ peer' = peer
  /\ \A i \in 1..Len(slots) : slots'[i].open = slots[i].open
\* The connection of the peer is closed.
PeerCloses ==
  /\ slots' \in Seq(PeerSlots) /\ Len(slots') = Len(slots) /\ peer' = 0
  /\ \A i \in 1..Len(slots) : slots'[i].open => slots[i].open /\ i # peer
\* A connection is made, after that of the peer was closed.
PeerConnects ==
  /\ slots' \in Seq(PeerSlots) /\ Len(slots') = Len(slots) + 1 /\ peer' = Len(slots')
  /\ \A i \in 1..Len(slots) : slots'[i].open => slots[i].open /\ i # peer
  /\ slots'[Len(slots')].open

(* One slot changes and stays as open as it was. *)
LEMMA SlotChanges ==
  ASSUME TypeOK, NEW i \in 1..Len(slots), NEW x \in PeerSlots, x.open = slots[i].open,
         slots' = [slots EXCEPT ![i] = x], peer' = peer
  PROVE  SameConnections
<1>1. slots \in Seq(PeerSlots)
  BY DEF TypeOK
<1> QED
  BY <1>1, ExceptSeq DEF SameConnections

(* A slot is what the sequence of slots holds. *)
LEMMA SlotType ==
  ASSUME TypeOK, NEW i \in 1..Len(slots)
  PROVE  slots[i] \in PeerSlots
  BY DEF TypeOK

(* A connection that is new is open. *)
LEMMA NewSlotIsOpen ==
  ASSUME NEW initiator \in BOOLEAN
  PROVE  NewSlot(initiator) \in PeerSlots /\ NewSlot(initiator).open
  BY DEF NewSlot, PeerSlots, Conns

(* Shut closes one connection. *)
LEMMA ShutParts ==
  ASSUME NEW s \in Seq(PeerSlots), NEW i \in 0..Len(s)
  PROVE  /\ Shut(s, i) \in Seq(PeerSlots) /\ Len(Shut(s, i)) = Len(s)
         /\ \A j \in 1..Len(s) : Shut(s, i)[j].open => s[j].open /\ j # i
<1>1. CASE i = 0
  BY <1>1 DEF Shut
<1>2. CASE i # 0
  <2> DEFINE x == [NewSlot(FALSE) EXCEPT !.open = FALSE, !.conn = "closed", !.attempts = s[i].attempts,
                                         !.recreated = s[i].recreated]
  <2>1. s[i] \in PeerSlots
    BY <1>2
  <2>2. x \in PeerSlots /\ ~x.open
    BY <2>1 DEF NewSlot, PeerSlots, Conns
  <2>3. Shut(s, i) = [s EXCEPT ![i] = x]
    BY <1>2 DEF Shut
  <2> HIDE DEF x
  <2>4. /\ Shut(s, i) \in Seq(PeerSlots) /\ Len(Shut(s, i)) = Len(s)
        /\ \A j \in 1..Len(s) : Shut(s, i)[j] = IF j = i THEN x ELSE s[j]
    BY <1>2, <2>2, <2>3, ExceptSeq
  <2> QED
    BY <2>2, <2>4
<1> QED
  BY <1>1, <1>2

(* Where one connection replaces another, the other is closed. *)
LEMMA ConnectParts ==
  ASSUME TypeOK, NEW s \in Seq(PeerSlots), NEW x \in PeerSlots, x.open, Len(s) = Len(slots), Connect(s, x),
         \A i \in 1..Len(slots) : s[i].open => slots[i].open /\ i # peer
  PROVE  PeerConnects
<1>1. slots' = Append(s, x) /\ peer' = Len(slots) + 1
  BY DEF Connect
<1> QED
  BY <1>1, AppendProperties DEF PeerConnects

(* One connection to the peer stays one. *)
LEMMA ConnectionsKeep ==
  ASSUME TypeOK, PeerIsOpen, OnePerPeer, SameConnections \/ PeerCloses \/ PeerConnects
  PROVE  PeerIsOpen' /\ OnePerPeer' /\ peer' \in 0..Len(slots') /\ Len(slots) <= Len(slots')
<1>0. Len(slots) \in Nat /\ peer \in 0..Len(slots)
  BY DEF TypeOK
<1>1. CASE SameConnections
  BY <1>0, <1>1 DEF SameConnections, PeerIsOpen, OnePerPeer
<1>2. CASE PeerCloses
  BY <1>0, <1>2 DEF PeerCloses, PeerIsOpen, OnePerPeer
<1>3. CASE PeerConnects
  BY <1>0, <1>3 DEF PeerConnects, PeerIsOpen, OnePerPeer
<1> QED
  BY <1>1, <1>2, <1>3

(* A step that keeps the parts keeps the invariant. *)
LEMMA RoomKeeps ==
  ASSUME RoomInv, SameConnections \/ PeerCloses \/ PeerConnects, room' \in Rooms, relay' \in Relays,
         poll' \in [Polls -> PollCalls], \A k \in Polls : HoldsSlot(k)', PollingGoesOn'
  PROVE  RoomInv'
<1>1. TypeOK /\ PeerIsOpen /\ OnePerPeer
  BY DEF RoomInv
<1>2. PeerIsOpen' /\ OnePerPeer' /\ peer' \in 0..Len(slots')
  BY <1>1, ConnectionsKeep
<1>3. slots' \in Seq(PeerSlots)
  BY DEF SameConnections, PeerCloses, PeerConnects
<1> QED
  BY <1>2, <1>3 DEF RoomInv, TypeOK

(* A step that leaves the polls and the connections alone keeps the polling going. *)
LEMMA OtherKeeps ==
  ASSUME RoomInv, SameConnections, UNCHANGED poll, room' \in Rooms, relay' \in Relays,
         room'.closed = room.closed, room.armed => room'.armed \/ room.closed
  PROVE  RoomInv'
<1>0. TypeOK /\ PollingGoesOn /\ \A k \in Polls : HoldsSlot(k)
  BY DEF RoomInv
<1>1. \A k \in Polls : HoldsSlot(k)'
  BY <1>0 DEF HoldsSlot, SameConnections
<1>2. \A k \in Polls : Hangs(k)' => Hangs(k)
  BY <1>0 DEF HoldsSlot, SameConnections, Hangs, Waiting
<1>3. PollingGoesOn'
  BY <1>0, <1>2 DEF PollingGoesOn
<1>4. poll' \in [Polls -> PollCalls]
  BY <1>0 DEF TypeOK
<1> QED
  BY <1>1, <1>3, <1>4, RoomKeeps

(* A step of a poll that leaves it running, or schedules the next one, or is of a poll that was hanging. *)
LEMMA PollKeeps ==
  ASSUME RoomInv, SameConnections \/ PeerCloses \/ PeerConnects, room' \in Rooms, relay' \in Relays,
         NEW k \in Polls, NEW c \in PollCalls, poll' = [poll EXCEPT ![k] = c],
         c.at \in Waiting => c.slot \in 1..Len(slots'),
         \/ c.at # "idle" /\ (c.at \in Waiting => slots'[c.slot].open)
         \/ room'.armed = ~room'.closed
         \/ Hangs(k) /\ SameConnections /\ UNCHANGED room
  PROVE  RoomInv'
<1>0. TypeOK /\ PeerIsOpen /\ OnePerPeer /\ \A j \in Polls : HoldsSlot(j)
  BY DEF RoomInv
<1>1. poll' \in [Polls -> PollCalls] /\ poll'[k] = c /\ \A j \in Polls \ {k} : poll'[j] = poll[j]
  BY <1>0 DEF TypeOK
<1>2. Len(slots) \in Nat /\ Len(slots') \in Nat /\ Len(slots) <= Len(slots')
  BY <1>0, ConnectionsKeep DEF TypeOK, SameConnections, PeerCloses, PeerConnects
<1>3. \A j \in Polls : HoldsSlot(j)'
  BY <1>0, <1>1, <1>2 DEF HoldsSlot
<1>4. PollingGoesOn'
  <2>1. CASE c.at # "idle" /\ (c.at \in Waiting => slots'[c.slot].open)
    BY <1>1, <2>1 DEF PollingGoesOn, Hangs, Waiting
  <2>2. CASE room'.armed = ~room'.closed
    BY <2>2 DEF PollingGoesOn
  <2>3. CASE Hangs(k) /\ SameConnections /\ UNCHANGED room
    <3>1. \A j \in Polls \ {k} : Hangs(j)' => Hangs(j)
      BY <1>0, <1>1, <2>3 DEF HoldsSlot, SameConnections, Hangs, Waiting
    <3>2. PollingGoesOn
      BY DEF RoomInv
    <3> QED
      BY <1>1, <2>3, <3>1, <3>2 DEF PollingGoesOn
  <2> QED
    BY <2>1, <2>2, <2>3
<1> QED
  BY <1>1, <1>3, <1>4, RoomKeeps

----------------------------------------------------------------------------
(* The relay and the polls.                                                 *)

(* No connection changes where slots and peer do not. *)
LEMMA ConnectionsStay ==
  ASSUME TypeOK, UNCHANGED <<slots, peer>>
  PROVE  SameConnections
BY DEF TypeOK, SameConnections

(* A signal that reaches the relay. *)
LEMMA PostKeeps ==
  ASSUME RoomInv, NEW kind \in Kinds, Post(kind)
  PROVE  RoomInv'
<1>1. TypeOK
  BY DEF RoomInv
<1>2. SameConnections
  BY <1>1, ConnectionsStay DEF Post
<1>3. relay.log \in Seq(Kinds)
  BY <1>1 DEF TypeOK, Relays
<1>4. Append(relay.log, kind) \in Seq(Kinds)
  BY <1>3, AppendProperties
<1>5. relay' \in Relays /\ room' \in Rooms /\ room' = room /\ poll' = poll
  BY <1>1, <1>4 DEF TypeOK, Relays, Post
<1> QED
  BY <1>2, <1>5, OtherKeeps

(* The roster of the relay. *)
LEMMA RosterKeeps ==
  ASSUME RoomInv, Roster
  PROVE  RoomInv'
<1>1. TypeOK
  BY DEF RoomInv
<1>2. SameConnections
  BY <1>1, ConnectionsStay DEF Roster
<1>3. relay' \in Relays /\ room' \in Rooms /\ room' = room /\ poll' = poll
  BY <1>1 DEF TypeOK, Relays, Roster
<1> QED
  BY <1>2, <1>3, OtherKeeps

(* The timer starts a poll. *)
LEMMA TimerFiresKeeps ==
  ASSUME RoomInv, NEW k \in Polls, TimerFires(k)
  PROVE  RoomInv'
<1> DEFINE c == [Idle EXCEPT !.at = "fetch", !.since = room.cursor]
<1>1. TypeOK
  BY DEF RoomInv
<1>2. SameConnections
  BY <1>1, ConnectionsStay DEF TimerFires
<1>3. << >> \in Seq(Kinds) /\ room.cursor \in Nat
  BY <1>1 DEF TypeOK, Rooms
<1>4. c \in PollCalls /\ c.at = "fetch"
  BY <1>3 DEF Idle, PollCalls, Places, Kinds
<1>5. poll' = [poll EXCEPT ![k] = c]
  BY DEF TimerFires
<1>6. relay' \in Relays /\ room' \in Rooms
  BY <1>1 DEF TypeOK, Rooms, TimerFires
<1> HIDE DEF c
<1> QED
  BY <1>2, <1>4, <1>5, <1>6, PollKeeps DEF Waiting

(* After a poll the next one is scheduled, unless the room is closed. *)
LEMMA EndedParts ==
  ASSUME room \in Rooms, NEW failed \in BOOLEAN, NEW joins \in BOOLEAN
  PROVE  Ended(room, failed, joins) \in Rooms /\ Ended(room, failed, joins).armed = ~Ended(room, failed, joins).closed
BY DEF Ended, Scheduled, Rooms

(* A poll that ends, well or not. *)
LEMMA PollEndsKeeps ==
  ASSUME RoomInv, NEW k \in Polls, FetchFails(k) \/ PollEnds(k)
  PROVE  RoomInv'
<1>1. TypeOK
  BY DEF RoomInv
<1>2. SameConnections
  BY <1>1, ConnectionsStay DEF FetchFails, PollEnds
<1>3. Idle \in PollCalls /\ Idle.at = "idle"
  BY DEF Idle, PollCalls, Places, Kinds
<1>4. poll' = [poll EXCEPT ![k] = Idle]
  BY DEF FetchFails, PollEnds
<1>5. room \in Rooms /\ relay' \in Relays /\ poll[k].joins \in BOOLEAN
  BY <1>1 DEF TypeOK, FetchFails, PollEnds, PollCalls
<1>6. room' \in Rooms /\ room'.armed = ~room'.closed
  BY <1>5, EndedParts DEF FetchFails, PollEnds
<1> QED
  BY <1>2, <1>3, <1>4, <1>5, <1>6, PollKeeps DEF Waiting

(* The other peer is new on the roster: it is connected to. *)
LEMMA ConnectsAnew ==
  ASSUME TypeOK, peer = 0, NEW x \in PeerSlots, x.open, Connect(slots, x)
  PROVE  PeerConnects
<1>1. slots \in Seq(PeerSlots)
  BY DEF TypeOK
<1>2. \A i \in 1..Len(slots) : slots[i].open => slots[i].open /\ i # peer
  OBVIOUS
<1> QED
  BY <1>1, <1>2, ConnectParts

(* The connection of the peer is closed. *)
LEMMA ShutCloses ==
  ASSUME TypeOK, slots' = Shut(slots, peer), peer' = 0
  PROVE  PeerCloses
BY ShutParts DEF TypeOK, PeerCloses

(* The response of the relay. *)
LEMMA FetchedKeeps ==
  ASSUME RoomInv, NEW k \in Polls, Fetched(k)
  PROVE  RoomInv'
<1> DEFINE rest == SubSeq(relay.log, poll[k].since + 1, Len(relay.log))
           c == [poll[k] EXCEPT !.at = "next", !.vouched = relay.present, !.todo = rest]
<1>1. TypeOK
  BY DEF RoomInv
<1>2. SameConnections \/ PeerCloses \/ PeerConnects
  <2>1. CASE relay.present /\ peer = 0
    <3>1. Connect(slots, NewSlot(room.dialer)) /\ room.dialer \in BOOLEAN
      BY <1>1, <2>1 DEF Fetched, TypeOK, Rooms
    <3>2. NewSlot(room.dialer) \in PeerSlots /\ NewSlot(room.dialer).open
      BY <3>1, NewSlotIsOpen
    <3> DEFINE x == NewSlot(room.dialer)
    <3>3. x \in PeerSlots /\ x.open /\ Connect(slots, x)
      BY <3>1, <3>2
    <3> HIDE DEF x
    <3> QED
      BY <1>1, <2>1, <3>3, ConnectsAnew
  <2>2. CASE ~relay.present /\ peer # 0
    BY <1>1, <2>2, ShutCloses DEF Fetched
  <2>3. CASE ~(relay.present /\ peer = 0) /\ ~(~relay.present /\ peer # 0)
    BY <1>1, <2>3, ConnectionsStay DEF Fetched
  <2> QED
    BY <2>1, <2>2, <2>3
<1>3. relay.log \in Seq(Kinds) /\ poll[k] \in PollCalls /\ relay.present \in BOOLEAN
  BY <1>1 DEF TypeOK, Relays
<1>4. rest \in Seq(Kinds)
  <2>1. Len(relay.log) \in Nat /\ poll[k].since \in Nat
    BY <1>3 DEF PollCalls
  <2>2. \A i \in poll[k].since + 1 .. Len(relay.log) : relay.log[i] \in Kinds
    BY <1>3, <2>1
  <2> QED
    BY <2>1, <2>2, SubSeqProperties
<1> HIDE DEF rest
<1>5. c \in PollCalls /\ c.at = "next"
  BY <1>3, <1>4 DEF PollCalls, Places
<1>6. poll' = [poll EXCEPT ![k] = c]
  BY <1>1 DEF Fetched, TypeOK, PollCalls, rest
<1>7. relay' \in Relays /\ room' \in Rooms
  BY <1>1 DEF TypeOK, Fetched
<1> HIDE DEF c
<1> QED
  BY <1>2, <1>5, <1>6, <1>7, PollKeeps DEF Waiting

----------------------------------------------------------------------------
(* The handler of a signal.                                                 *)

(* The next signal of the response is taken. *)
LEMMA TakenParts ==
  ASSUME TypeOK, NEW k \in Polls, poll[k].todo # << >>
  PROVE  Taken(k) \in PollCalls /\ Taken(k).at = poll[k].at
<1> DEFINE p == poll[k]
           rest == Tail(p.todo)
           kind == Head(p.todo)
           since == p.since + 1
<1>1. p \in PollCalls
  BY DEF TypeOK
<1>2. p.todo \in Seq(Kinds) /\ p.since \in Nat
  BY <1>1 DEF PollCalls
<1>3. kind \in Kinds /\ rest \in Seq(Kinds)
  BY <1>2, HeadTailProperties
<1>4. since \in Nat
  BY <1>2
<1>5. Taken(k) = [p EXCEPT !.todo = rest, !.since = since, !.kind = kind]
  BY DEF Taken
<1> HIDE DEF p, rest, kind, since
<1>6. Taken(k) \in PollCalls /\ Taken(k).at = p.at
  BY <1>1, <1>3, <1>4, <1>5 DEF PollCalls
<1> QED
  BY <1>6 DEF p

(* What onSignal() does first: the poll holds the connection it was given, which stays as open as it was. *)
LEMMA HandleParts ==
  ASSUME TypeOK, NEW k \in Polls, poll[k].todo # << >>, NEW s \in Seq(PeerSlots), NEW i \in 1..Len(s), Handle(k, s, i)
  PROVE  /\ slots' \in Seq(PeerSlots) /\ Len(slots') = Len(s)
         /\ \A j \in 1..Len(s) : slots'[j].open = s[j].open
         /\ \E c \in PollCalls : poll' = [poll EXCEPT ![k] = c] /\ c.at # "idle" /\ c.slot = i
<1> DEFINE turn(at) == [Taken(k) EXCEPT !.slot = i, !.at = at]
           x == [s[i] EXCEPT !.pending = TRUE]
<1>3. Len(s) \in Nat /\ i \in Nat
  OBVIOUS
<1>4. \A at \in Places : turn(at) \in PollCalls /\ turn(at).at = at /\ turn(at).slot = i
  <2> DEFINE p == Taken(k)
  <2>1. p \in PollCalls
    BY TakenParts
  <2> HIDE DEF p
  <2>2. \A at \in Places : [p EXCEPT !.slot = i, !.at = at] \in PollCalls
    BY <1>3, <2>1 DEF PollCalls
  <2>3. \A at \in Places : [p EXCEPT !.slot = i, !.at = at].at = at /\ [p EXCEPT !.slot = i, !.at = at].slot = i
    BY <2>1 DEF PollCalls
  <2> QED
    BY <2>2, <2>3 DEF p
<1>5. x \in PeerSlots /\ x.open = s[i].open
  <2> DEFINE y == s[i]
  <2>1. y \in PeerSlots
    BY ElementOfSeq
  <2> HIDE DEF y
  <2>2. [y EXCEPT !.pending = TRUE] \in PeerSlots /\ [y EXCEPT !.pending = TRUE].open = y.open
    BY <2>1 DEF PeerSlots
  <2> QED
    BY <2>2 DEF y
<1>6. \E at \in {"ice", "next", "remote"} : poll' = [poll EXCEPT ![k] = turn(at)]
  BY DEF Handle
<1>7. slots' = s \/ slots' = [s EXCEPT ![i] = x]
  BY DEF Handle
<1> HIDE DEF turn, x
<1>8. slots' \in Seq(PeerSlots) /\ Len(slots') = Len(s) /\ \A j \in 1..Len(s) : slots'[j].open = s[j].open
  <2>1. CASE slots' = s
    BY <2>1
  <2>2. CASE slots' = [s EXCEPT ![i] = x]
    BY <1>5, <2>2, ExceptSeq
  <2> QED
    BY <1>7, <2>1, <2>2
<1>9. \E c \in PollCalls : poll' = [poll EXCEPT ![k] = c] /\ c.at # "idle" /\ c.slot = i
  <2>1. PICK at \in {"ice", "next", "remote"} : poll' = [poll EXCEPT ![k] = turn(at)]
    BY <1>6
  <2>2. turn(at) \in PollCalls /\ turn(at).at = at /\ turn(at).slot = i
    BY <1>4 DEF Places
  <2> QED
    BY <2>1, <2>2
<1> QED
  BY <1>8, <1>9

(* A signal is taken from the response. *)
LEMMA SignalKeeps ==
  ASSUME RoomInv, NEW k \in Polls, Signal(k)
  PROVE  RoomInv'
<1>1. TypeOK /\ PeerIsOpen
  BY DEF RoomInv
<1>2. poll[k] \in PollCalls /\ poll[k].todo \in Seq(Kinds) /\ poll[k].since \in Nat /\ room \in Rooms /\ poll[k].todo # << >>
  BY <1>1 DEF TypeOK, PollCalls, Signal
<1>3. room' \in Rooms /\ relay' \in Relays
  <2>1. room.cursor \in Nat
    BY <1>2 DEF Rooms
  <2> DEFINE cursor == IF poll[k].since + 1 > room.cursor THEN poll[k].since + 1 ELSE room.cursor
  <2>2. cursor \in Nat /\ room' = [room EXCEPT !.cursor = cursor]
    BY <1>2, <2>1 DEF Signal
  <2> HIDE DEF cursor
  <2> QED
    BY <1>1, <1>2, <2>2 DEF Rooms, TypeOK, Signal
<1>4. slots \in Seq(PeerSlots) /\ Len(slots) \in Nat
  BY <1>1 DEF TypeOK
<1>5. CASE peer # 0
  <2>1. Handle(k, slots, peer) /\ peer' = peer /\ peer \in 1..Len(slots) /\ slots[peer].open
    BY <1>1, <1>5 DEF Signal, TypeOK, PeerIsOpen
  <2>2. /\ slots' \in Seq(PeerSlots) /\ Len(slots') = Len(slots)
        /\ \A j \in 1..Len(slots) : slots'[j].open = slots[j].open
        /\ \E c \in PollCalls : poll' = [poll EXCEPT ![k] = c] /\ c.at # "idle" /\ c.slot = peer
    BY <1>1, <1>2, <1>4, <2>1, HandleParts
  <2>3. SameConnections
    BY <2>1, <2>2 DEF SameConnections
  <2>4. PICK c \in PollCalls : poll' = [poll EXCEPT ![k] = c] /\ c.at # "idle" /\ c.slot = peer
    BY <2>2
  <2>5. slots'[c.slot].open /\ c.slot \in 1..Len(slots')
    BY <2>1, <2>2, <2>4
  <2> QED
    BY <1>3, <2>3, <2>4, <2>5, PollKeeps
<1>6. CASE peer = 0 /\ poll[k].vouched
  <2> DEFINE x == NewSlot(FALSE)
             s == Append(slots, x)
  <2>1. x \in PeerSlots /\ x.open
    BY NewSlotIsOpen
  <2>2. Handle(k, s, Len(slots) + 1) /\ peer' = Len(slots) + 1
    BY <1>6 DEF Signal
  <2> HIDE DEF x
  <2>3. s \in Seq(PeerSlots) /\ Len(s) = Len(slots) + 1 /\ s[Len(slots) + 1] = x /\ \A j \in 1..Len(slots) : s[j] = slots[j]
    BY <1>4, <2>1, AppendProperties
  <2> HIDE DEF s
  <2>4. Len(slots) + 1 \in 1..Len(s)
    BY <1>4, <2>3
  <2>5. /\ slots' \in Seq(PeerSlots) /\ Len(slots') = Len(s)
        /\ \A j \in 1..Len(s) : slots'[j].open = s[j].open
        /\ \E c \in PollCalls : poll' = [poll EXCEPT ![k] = c] /\ c.at # "idle" /\ c.slot = Len(slots) + 1
    BY <1>1, <1>2, <2>2, <2>3, <2>4, HandleParts
  <2>6. PeerConnects
    <3>1. \A j \in 1..Len(slots) : j \in 1..Len(s) /\ j # peer
      BY <1>4, <1>6, <2>3
    <3>2. \A j \in 1..Len(slots) : slots'[j].open => slots[j].open /\ j # peer
      BY <2>3, <2>5, <3>1
    <3>3. Len(slots') = Len(slots) + 1
      BY <2>3, <2>5
    <3>4. slots' \in Seq(PeerSlots) /\ peer' = Len(slots')
      BY <2>2, <2>5, <3>3
    <3>5. slots'[Len(slots')].open
      BY <2>1, <2>3, <2>4, <2>5, <3>3
    <3> QED
      BY <3>2, <3>3, <3>4, <3>5 DEF PeerConnects
  <2>7. PICK c \in PollCalls : poll' = [poll EXCEPT ![k] = c] /\ c.at # "idle" /\ c.slot = Len(slots) + 1
    BY <2>5
  <2>8. slots'[c.slot].open /\ c.slot \in 1..Len(slots')
    BY <2>1, <2>3, <2>4, <2>5, <2>7
  <2> QED
    BY <1>3, <2>6, <2>7, <2>8, PollKeeps
<1>7. CASE peer = 0 /\ ~poll[k].vouched
  <2> DEFINE c == Taken(k)
  <2>2. c \in PollCalls /\ c.at = "next"
    BY <1>1, <1>2, TakenParts DEF Signal
  <2>3. poll' = [poll EXCEPT ![k] = c]
    BY <1>7 DEF Signal
  <2>4. SameConnections
    BY <1>1, <1>7, ConnectionsStay DEF Signal
  <2> HIDE DEF c
  <2> QED
    BY <1>3, <2>2, <2>3, <2>4, PollKeeps DEF Waiting
<1> QED
  BY <1>5, <1>6, <1>7

(* A poll goes on to another place. *)
LEMMA GoesParts ==
  ASSUME TypeOK, NEW k \in Polls, NEW at \in Places, Goes(k, at)
  PROVE  \E c \in PollCalls : poll' = [poll EXCEPT ![k] = c] /\ c.at = at /\ c.slot = poll[k].slot
<1> DEFINE c == [poll[k] EXCEPT !.at = at]
<1>1. c \in PollCalls /\ c.at = at /\ c.slot = poll[k].slot
  BY DEF TypeOK, PollCalls
<1>2. poll' = [poll EXCEPT ![k] = c]
  BY DEF Goes
<1> HIDE DEF c
<1> QED
  BY <1>1, <1>2

(* A poll goes on, to a place that is not idle; it waits only for the connection it had, and while that is open. *)
LEMMA GoingKeeps ==
  ASSUME RoomInv, SameConnections \/ PeerCloses \/ PeerConnects, UNCHANGED <<room, relay>>,
         NEW k \in Polls, NEW at \in Places, Goes(k, at), at # "idle",
         at \in Waiting => poll[k].at \in Waiting /\ SameConnections
  PROVE  RoomInv'
<1>1. TypeOK /\ HoldsSlot(k)
  BY DEF RoomInv
<1>2. PICK c \in PollCalls : poll' = [poll EXCEPT ![k] = c] /\ c.at = at /\ c.slot = poll[k].slot
  BY <1>1, GoesParts
<1>3. room' \in Rooms /\ relay' \in Relays
  BY <1>1 DEF TypeOK
<1>4. c.at \in Waiting => c.slot \in 1..Len(slots')
  BY <1>1, <1>2 DEF HoldsSlot, SameConnections
<1>5. CASE at \notin Waiting
  BY <1>2, <1>3, <1>5, PollKeeps
<1>6. CASE at \in Waiting /\ slots[poll[k].slot].open
  <2>1. slots'[c.slot].open
    BY <1>1, <1>2, <1>6 DEF HoldsSlot, SameConnections
  <2> QED
    BY <1>2, <1>3, <1>4, <2>1, PollKeeps
<1>7. CASE at \in Waiting /\ ~slots[poll[k].slot].open
  <2>1. Hangs(k)
    BY <1>7 DEF Hangs, Waiting
  <2> QED
    BY <1>2, <1>3, <1>4, <1>7, <2>1, PollKeeps
<1> QED
  BY <1>5, <1>6, <1>7

(* setRemoteDescription() is over. *)
LEMMA RemoteSetKeeps ==
  ASSUME RoomInv, NEW k \in Polls, RemoteSet(k)
  PROVE  RoomInv'
<1> DEFINE i == poll[k].slot
           x == [slots[i] EXCEPT !.described = TRUE, !.sig = IF poll[k].kind = "offer" THEN "have-remote-offer" ELSE "stable"]
           at == IF room.closed THEN "next" ELSE "flush"
<1>1. TypeOK /\ HoldsSlot(k)
  BY DEF RoomInv
<1>2. i \in 1..Len(slots) /\ poll[k].at \in Waiting
  BY <1>1 DEF HoldsSlot, Waiting, RemoteSet
<1>3. slots[i] \in PeerSlots
  BY <1>1, <1>2, SlotType
<1>4. x \in PeerSlots /\ x.open = slots[i].open
  BY <1>3 DEF PeerSlots
<1>5. slots' = [slots EXCEPT ![i] = x] /\ peer' = peer
  BY DEF RemoteSet
<1>6. at \in Places /\ at # "idle" /\ Goes(k, at) /\ UNCHANGED <<room, relay>>
  BY DEF RemoteSet, Places
<1> HIDE DEF x, i, at
<1>7. SameConnections
  BY <1>1, <1>2, <1>4, <1>5, SlotChanges
<1> QED
  BY <1>2, <1>6, <1>7, GoingKeeps

(* The description was refused; an offer may rebuild the pair, whose connection was the one of the peer. *)
LEMMA RemoteRefusedKeeps ==
  ASSUME RoomInv, NEW k \in Polls, RemoteRefused(k)
  PROVE  RoomInv'
<1> DEFINE i == poll[k].slot
<1>1. TypeOK /\ HoldsSlot(k) /\ OnePerPeer
  BY DEF RoomInv
<1>2. i \in 1..Len(slots) /\ slots[i].open
  BY <1>1 DEF HoldsSlot, Waiting, RemoteRefused
<1>3. i = peer
  BY <1>1, <1>2 DEF OnePerPeer
<1>4. UNCHANGED <<room, relay>> /\ slots[i] \in PeerSlots /\ slots \in Seq(PeerSlots)
  BY <1>1, <1>2, SlotType DEF RemoteRefused, TypeOK
<1>5. CASE ~MayRecreate(k)
  <2>1. Goes(k, "next") /\ SameConnections
    BY <1>1, <1>5, ConnectionsStay DEF RemoteRefused
  <2> QED
    BY <1>4, <2>1, GoingKeeps DEF Places, Waiting
<1>6. CASE MayRecreate(k) /\ room.closed
  <2>1. Goes(k, "next") /\ PeerCloses
    BY <1>1, <1>3, <1>6, ShutCloses DEF RemoteRefused, Discarded
  <2> QED
    BY <1>4, <2>1, GoingKeeps DEF Places, Waiting
<1>7. CASE MayRecreate(k) /\ ~room.closed
  <2> DEFINE x == [NewSlot(FALSE) EXCEPT !.attempts = slots[i].attempts, !.recreated = TRUE]
             s == Shut(slots, i)
             c == [poll[k] EXCEPT !.at = "again", !.slot = Len(slots) + 1]
  <2>1. x \in PeerSlots /\ x.open
    BY <1>4 DEF NewSlot, PeerSlots, Conns
  <2>2. Connect(s, x) /\ poll' = [poll EXCEPT ![k] = c]
    BY <1>7 DEF RemoteRefused, Discarded
  <2>3. c \in PollCalls /\ c.at = "again" /\ c.slot = Len(slots) + 1
    <3>1. Len(slots) + 1 \in Nat /\ poll[k] \in PollCalls
      BY <1>1, <1>4 DEF TypeOK
    <3> QED
      BY <3>1 DEF PollCalls, Places
  <2>4. s \in Seq(PeerSlots) /\ Len(s) = Len(slots) /\ \A j \in 1..Len(slots) : s[j].open => slots[j].open /\ j # peer
    BY <1>2, <1>3, <1>4, ShutParts
  <2> HIDE DEF x, s, c
  <2>5. PeerConnects
    BY <1>1, <2>1, <2>2, <2>4, ConnectParts
  <2>6. slots' = Append(s, x)
    BY <2>2 DEF Connect
  <2>7. slots'[Len(slots) + 1] = x /\ Len(slots') = Len(slots) + 1
    BY <2>1, <2>4, <2>6, AppendProperties
  <2>8. c.slot \in 1..Len(slots') /\ slots'[c.slot].open /\ room' \in Rooms /\ relay' \in Relays
    BY <1>1, <1>4, <2>1, <2>3, <2>7 DEF TypeOK
  <2> QED
    BY <2>2, <2>3, <2>5, <2>8, PollKeeps
<1> QED
  BY <1>5, <1>6, <1>7

(* flushPendingCandidates(), which also a poll runs whose connection was closed meanwhile. *)
LEMMA FlushedKeeps ==
  ASSUME RoomInv, NEW k \in Polls, Flushed(k)
  PROVE  RoomInv'
<1> DEFINE i == poll[k].slot
           x == [slots[i] EXCEPT !.pending = FALSE]
           at == IF room.closed \/ poll[k].kind # "offer" THEN "next" ELSE "local"
<1>1. TypeOK /\ HoldsSlot(k)
  BY DEF RoomInv
<1>2. i \in 1..Len(slots) /\ poll[k].at \in Waiting
  BY <1>1 DEF HoldsSlot, Waiting, Flushed
<1>3. slots[i] \in PeerSlots
  BY <1>1, <1>2, SlotType
<1>4. x \in PeerSlots /\ x.open = slots[i].open
  BY <1>3 DEF PeerSlots
<1>5. slots' = [slots EXCEPT ![i] = x] /\ peer' = peer
  BY DEF Flushed, Applied
<1>6. at \in Places /\ at # "idle" /\ Goes(k, at) /\ UNCHANGED <<room, relay>>
  BY DEF Flushed, Places
<1> HIDE DEF x, i, at
<1>7. SameConnections
  BY <1>1, <1>2, <1>4, <1>5, SlotChanges
<1> QED
  BY <1>2, <1>6, <1>7, GoingKeeps

(* The answer is set as the local description, or the connection no longer wants one. *)
LEMMA LocalSetKeeps ==
  ASSUME RoomInv, NEW k \in Polls, LocalSet(k)
  PROVE  RoomInv'
<1> DEFINE i == poll[k].slot
           x == [slots[i] EXCEPT !.sig = "stable"]
<1>1. TypeOK /\ HoldsSlot(k)
  BY DEF RoomInv
<1>2. i \in 1..Len(slots)
  BY <1>1 DEF HoldsSlot, Waiting, LocalSet
<1>3. slots[i] \in PeerSlots
  BY <1>1, <1>2, SlotType
<1>4. x \in PeerSlots /\ x.open = slots[i].open
  BY <1>3 DEF PeerSlots
<1>5. (slots' = [slots EXCEPT ![i] = x] \/ slots' = slots) /\ peer' = peer /\ UNCHANGED <<room, relay>>
  BY DEF LocalSet
<1>6. Goes(k, "next") \/ Goes(k, "answer")
  BY DEF LocalSet
<1> HIDE DEF x, i
<1>7. SameConnections
  <2>1. CASE slots' = slots
    BY <1>1, <1>5, <2>1, ConnectionsStay
  <2>2. CASE slots' = [slots EXCEPT ![i] = x]
    BY <1>1, <1>2, <1>4, <1>5, <2>2, SlotChanges
  <2> QED
    BY <1>5, <2>1, <2>2
<1>8. CASE Goes(k, "next")
  BY <1>5, <1>7, <1>8, GoingKeeps DEF Places, Waiting
<1>9. CASE Goes(k, "answer")
  BY <1>5, <1>7, <1>9, GoingKeeps DEF Places, Waiting
<1> QED
  BY <1>6, <1>8, <1>9

(* The call that the handler awaited is over. *)
LEMMA SettledKeeps ==
  ASSUME RoomInv, NEW k \in Polls, Settled(k)
  PROVE  RoomInv'
<1>1. TypeOK
  BY DEF RoomInv
<1>2. SameConnections /\ Goes(k, "next") /\ UNCHANGED <<room, relay>>
  BY <1>1, ConnectionsStay DEF Settled
<1> QED
  BY <1>2, GoingKeeps DEF Places, Waiting

----------------------------------------------------------------------------
(* The callbacks of a connection and the ping interval.                     *)

(* A callback changes one slot, which stays as open as it was. *)
LEMMA SlotKeeps ==
  ASSUME RoomInv, NEW i \in 1..Len(slots), NEW x \in PeerSlots, x.open = slots[i].open, slots' = [slots EXCEPT ![i] = x],
         UNCHANGED <<peer, poll, relay>>, room' \in {room, Scheduled(room)}
  PROVE  RoomInv'
<1>1. TypeOK
  BY DEF RoomInv
<1>2. SameConnections
  BY <1>1, SlotChanges
<1>3. room' \in Rooms /\ room'.closed = room.closed /\ (room.armed => room'.armed \/ room.closed) /\ relay' \in Relays
  BY <1>1 DEF TypeOK, Rooms, Scheduled
<1> QED
  BY <1>2, <1>3, OtherKeeps

(* onnegotiationneeded. *)
LEMMA NegotiateKeeps ==
  ASSUME RoomInv, NEW i \in 1..Len(slots), Negotiate(i) \/ Offered(i)
  PROVE  RoomInv'
<1> DEFINE y == slots[i]
           x == [y EXCEPT !.needed = FALSE, !.offering = TRUE, !.sig = IF @ = "stable" THEN "have-local-offer" ELSE @]
           z == [y EXCEPT !.offering = FALSE]
<1>1. y \in PeerSlots
  BY SlotType DEF RoomInv
<1>2. /\ slots' = [slots EXCEPT ![i] = x] \/ slots' = [slots EXCEPT ![i] = z]
      /\ UNCHANGED <<room, peer, poll, relay>>
  BY DEF Negotiate, Offered
<1> HIDE DEF y
<1>3. x \in PeerSlots /\ x.open = y.open /\ z \in PeerSlots /\ z.open = y.open
  BY <1>1 DEF PeerSlots
<1>4. x.open = slots[i].open /\ z.open = slots[i].open
  BY <1>3 DEF y
<1> HIDE DEF x, z
<1>5. CASE slots' = [slots EXCEPT ![i] = x]
  BY <1>2, <1>3, <1>4, <1>5, SlotKeeps
<1>6. CASE slots' = [slots EXCEPT ![i] = z]
  BY <1>2, <1>3, <1>4, <1>6, SlotKeeps
<1> QED
  BY <1>2, <1>5, <1>6

(* onconnectionstatechange, and a connection that dies without it. *)
LEMMA StateChangeKeeps ==
  ASSUME RoomInv, NEW i \in 1..Len(slots), StateChange(i) \/ DiesSilently(i)
  PROVE  RoomInv'
<1> DEFINE y == slots[i]
<1>1. y \in PeerSlots
  BY SlotType DEF RoomInv
<1>2. CASE StateChange(i)
  <2> DEFINE to(c) == [Progressed(y, c) EXCEPT !.conn = c, !.needed = @ \/ c = "failed"]
  <2>1. PICK c \in MayBecome[y.conn] :
          slots' = [slots EXCEPT ![i] = to(c)] /\ room' = IF c = "failed" THEN Scheduled(room) ELSE room
    BY <1>2 DEF StateChange
  <2> DEFINE x == to(c)
  <2>2. slots' = [slots EXCEPT ![i] = x]
    BY <2>1
  <2> HIDE DEF y
  <2>3. y.conn \in Conns
    BY <1>1 DEF PeerSlots
  <2>4. c \in Conns
    BY <2>1, <2>3 DEF MayBecome, Conns
  <2>5. x \in PeerSlots /\ x.open = y.open
    <3> DEFINE p == Progressed(y, c)
    <3>1. p \in PeerSlots /\ p.open = y.open
      BY <1>1, <2>4 DEF Progressed, PeerSlots
    <3> HIDE DEF p
    <3>2. [p EXCEPT !.conn = c, !.needed = @ \/ c = "failed"] \in PeerSlots
      BY <2>4, <3>1 DEF PeerSlots
    <3>3. [p EXCEPT !.conn = c, !.needed = @ \/ c = "failed"].open = p.open
      BY <3>1 DEF PeerSlots
    <3> QED
      BY <3>1, <3>2, <3>3 DEF p
  <2>6. x.open = slots[i].open
    BY <2>5 DEF y
  <2>7. UNCHANGED <<peer, poll, relay>> /\ room' \in {room, Scheduled(room)}
    BY <1>2, <2>1 DEF StateChange
  <2> HIDE DEF x
  <2> QED
    BY <2>2, <2>5, <2>6, <2>7, SlotKeeps
<1>3. CASE DiesSilently(i)
  <2> DEFINE x == [y EXCEPT !.conn = "failed"]
  <2>1. slots' = [slots EXCEPT ![i] = x] /\ UNCHANGED <<room, peer, poll, relay>>
    BY <1>3 DEF DiesSilently
  <2> HIDE DEF y
  <2>2. x \in PeerSlots /\ x.open = y.open
    BY <1>1 DEF PeerSlots, Conns
  <2>3. x.open = slots[i].open
    BY <2>2 DEF y
  <2> HIDE DEF x
  <2> QED
    BY <2>1, <2>2, <2>3, SlotKeeps
<1> QED
  BY <1>2, <1>3

(* STALL_MS went by. *)
LEMMA StallsKeeps ==
  ASSUME RoomInv, Stalls
  PROVE  RoomInv'
<1> DEFINE y == slots[peer]
           x == [y EXCEPT !.stalled = TRUE]
<1>1. peer \in 1..Len(slots)
  BY DEF Stalls, RoomInv, TypeOK
<1>2. y \in PeerSlots
  BY <1>1, SlotType DEF RoomInv
<1>3. slots' = [slots EXCEPT ![peer] = x] /\ UNCHANGED <<room, peer, poll, relay>>
  BY DEF Stalls
<1> HIDE DEF y
<1>4. x \in PeerSlots /\ x.open = y.open
  BY <1>2 DEF PeerSlots
<1>5. x.open = slots[peer].open
  BY <1>4 DEF y
<1> HIDE DEF x
<1> QED
  BY <1>1, <1>3, <1>4, <1>5, SlotKeeps

(* The watchdog looks at the connection of the peer, or closes it, makes another and schedules a poll. *)
LEMMA WatchdogKeeps ==
  ASSUME RoomInv, Watchdog
  PROVE  RoomInv'
<1> DEFINE y == slots[peer]
           s == Live(y)
           tried == [s EXCEPT !.attempts = Counted(@), !.stalled = FALSE]
           given == [s EXCEPT !.terminal = TRUE]
           becomes(x) == slots' = [slots EXCEPT ![peer] = x] /\ UNCHANGED <<room, peer>>
           marked == [slots EXCEPT ![peer] = tried]
           closed == Discarded(marked, peer)
           made == Rebuilt(tried.attempts)
<1>0. TypeOK /\ peer \in 1..Len(slots) /\ slots \in Seq(PeerSlots)
  BY DEF Watchdog, RoomInv, TypeOK
<1>1. y \in PeerSlots
  BY <1>0, SlotType
<1>2. /\ \/ becomes(s) \/ becomes(given) \/ becomes(tried)
         \/ Connect(closed, made) /\ room' = Scheduled(room)
      /\ UNCHANGED <<poll, relay>>
  BY DEF Watchdog
<1> HIDE DEF y
<1>3. s \in PeerSlots /\ s.open = y.open
  BY <1>1 DEF Live, PeerSlots
<1> HIDE DEF s
<1>4. tried \in PeerSlots /\ tried.open = y.open /\ given \in PeerSlots /\ given.open = y.open
  <2>1. s.attempts + 1 \in Nat
    BY <1>3 DEF PeerSlots
  <2>2. tried \in PeerSlots /\ tried.open = s.open
    BY <1>3, <2>1 DEF PeerSlots, Counted
  <2>3. given \in PeerSlots /\ given.open = s.open
    BY <1>3 DEF PeerSlots
  <2> QED
    BY <1>3, <2>2, <2>3
<1>5. made \in PeerSlots /\ made.open
  <2>1. tried.attempts \in Nat
    BY <1>4 DEF PeerSlots
  <2> HIDE DEF tried
  <2> QED
    BY <2>1 DEF Rebuilt, NewSlot, PeerSlots, Conns
<1>6. s.open = slots[peer].open /\ tried.open = slots[peer].open /\ given.open = slots[peer].open
  BY <1>3, <1>4 DEF y
<1> HIDE DEF tried, given, made
<1>7. CASE becomes(s)
  BY <1>0, <1>2, <1>3, <1>6, <1>7, SlotKeeps
<1>8. CASE becomes(given)
  BY <1>0, <1>2, <1>4, <1>6, <1>8, SlotKeeps
<1>9. CASE becomes(tried)
  BY <1>0, <1>2, <1>4, <1>6, <1>9, SlotKeeps
<1>10. CASE Connect(closed, made) /\ room' = Scheduled(room)
  <2>1. marked \in Seq(PeerSlots) /\ Len(marked) = Len(slots) /\ \A j \in 1..Len(slots) : marked[j].open = slots[j].open
    BY <1>0, <1>4, <1>6, ExceptSeq
  <2> HIDE DEF marked
  <2>2. peer \in 0..Len(marked) /\ closed = Shut(marked, peer)
    BY <1>0, <2>1 DEF Discarded
  <2> HIDE DEF closed
  <2>3. closed \in Seq(PeerSlots) /\ Len(closed) = Len(slots)
        /\ \A j \in 1..Len(slots) : closed[j].open => slots[j].open /\ j # peer
    BY <2>1, <2>2, ShutParts
  <2>4. PeerConnects
    BY <1>0, <1>5, <1>10, <2>3, ConnectParts
  <2>5. room' \in Rooms /\ room'.armed = ~room'.closed
    BY <1>0, <1>10 DEF TypeOK, Rooms, Scheduled
  <2>6. relay' \in Relays /\ poll' = poll /\ poll \in [Polls -> PollCalls]
    BY <1>0, <1>2 DEF TypeOK
  <2>7. PollingGoesOn'
    BY <2>5 DEF PollingGoesOn
  <2>8. \A k \in Polls : HoldsSlot(k)'
    <3>1. \A k \in Polls : HoldsSlot(k)
      BY DEF RoomInv
    <3>2. Len(slots) \in Nat /\ Len(slots') = Len(slots) + 1
      BY <1>0, <2>4 DEF PeerConnects
    <3> QED
      BY <2>6, <3>1, <3>2 DEF HoldsSlot
  <2> QED
    BY <2>4, <2>5, <2>6, <2>7, <2>8, RoomKeeps
<1> QED
  BY <1>2, <1>7, <1>8, <1>9, <1>10

(* close(). *)
LEMMA CloseKeeps ==
  ASSUME RoomInv, Close
  PROVE  RoomInv'
<1>1. TypeOK /\ \A k \in Polls : HoldsSlot(k)
  BY DEF RoomInv
<1>2. PeerCloses
  BY <1>1, ShutCloses DEF Close
<1>3. room' \in Rooms /\ room'.closed /\ relay' \in Relays /\ poll' = poll
  BY <1>1 DEF Close, TypeOK, Rooms
<1>4. poll' \in [Polls -> PollCalls] /\ PollingGoesOn'
  BY <1>1, <1>3 DEF TypeOK, PollingGoesOn
<1>5. \A k \in Polls : HoldsSlot(k)'
  BY <1>1, <1>2, <1>3 DEF HoldsSlot, PeerCloses
<1> QED
  BY <1>2, <1>3, <1>4, <1>5, RoomKeeps

----------------------------------------------------------------------------
(* The theorems.                                                            *)

(* A room starts with its first poll under way. *)
LEMMA RoomStarts == Init => RoomInv
<1> SUFFICES ASSUME Init PROVE RoomInv
  OBVIOUS
<1> DEFINE first == CHOOSE k \in Polls : TRUE
           joining == [Idle EXCEPT !.at = "fetch", !.joins = TRUE]
<1>1. first \in Polls
  BY RoomBounds
<1>2. poll = [k \in Polls |-> IF k = first THEN joining ELSE Idle]
  BY DEF Init
<1>3. << >> \in Seq(Kinds) /\ << >> \in Seq(PeerSlots)
  OBVIOUS
<1>4. Idle \in PollCalls /\ joining \in PollCalls /\ Idle.at = "idle" /\ joining.at = "fetch"
  BY <1>3 DEF Idle, PollCalls, Places, Kinds
<1> HIDE DEF first, joining
<1>5. poll \in [Polls -> PollCalls] /\ poll[first].at = "fetch" /\ \A k \in Polls : poll[k].at \in {"idle", "fetch"}
  BY <1>1, <1>2, <1>4
<1>6. room \in Rooms /\ relay \in Relays /\ slots \in Seq(PeerSlots) /\ peer = 0 /\ Len(slots) = 0
  <2>1. room \in Rooms
    <3>1. room \in [dialer : BOOLEAN, closed : {FALSE}, joined : {FALSE}, armed : {FALSE}, cursor : {0}]
      BY DEF Init
    <3>2. {FALSE} \subseteq BOOLEAN /\ {0} \subseteq Nat
      OBVIOUS
    <3>3. [dialer : BOOLEAN, closed : {FALSE}, joined : {FALSE}, armed : {FALSE}, cursor : {0}] \subseteq Rooms
      BY <3>2, Zenon DEF Rooms
    <3> QED
      BY <3>1, <3>3
  <2>2. relay \in Relays
    BY <1>3 DEF Init, Relays
  <2>3. slots \in Seq(PeerSlots) /\ peer = 0 /\ Len(slots) = 0
    BY <1>3 DEF Init
  <2> QED
    BY <2>1, <2>2, <2>3
<1>7. TypeOK
  BY <1>5, <1>6 DEF TypeOK
<1>8. \A k \in Polls : HoldsSlot(k)
  BY <1>5 DEF HoldsSlot, Waiting
<1>9. PeerIsOpen /\ OnePerPeer
  BY <1>6 DEF PeerIsOpen, OnePerPeer
<1>10. PollingGoesOn
  BY <1>1, <1>5 DEF PollingGoesOn, Hangs
<1> QED
  BY <1>7, <1>8, <1>9, <1>10 DEF RoomInv

(* Every step keeps the invariant. *)
LEMMA RoomStep == RoomInv /\ [Next]_vars => RoomInv'
<1> SUFFICES ASSUME RoomInv, [Next]_vars PROVE RoomInv'
  OBVIOUS
<1>1. CASE UNCHANGED vars
  <2>1. SameConnections /\ room' \in Rooms /\ relay' \in Relays
    BY <1>1, ConnectionsStay DEF vars, RoomInv, TypeOK
  <2> QED
    BY <1>1, <2>1, OtherKeeps DEF vars
<1>2. ASSUME NEW kind \in Kinds, Post(kind) PROVE RoomInv'
  BY <1>2, PostKeeps
<1>3. CASE Roster
  BY <1>3, RosterKeeps
<1>4. CASE Stalls
  BY <1>4, StallsKeeps
<1>5. CASE Watchdog
  BY <1>5, WatchdogKeeps
<1>6. CASE Close
  BY <1>6, CloseKeeps
<1>7. ASSUME NEW k \in Polls, OnPoll(k) PROVE RoomInv'
  BY <1>7, TimerFiresKeeps, PollEndsKeeps, FetchedKeeps, SignalKeeps, RemoteSetKeeps, RemoteRefusedKeeps, FlushedKeeps,
     LocalSetKeeps, SettledKeeps DEF OnPoll
<1>8. ASSUME NEW i \in 1..Len(slots), OnSlot(i) PROVE RoomInv'
  BY <1>8, NegotiateKeeps, StateChangeKeeps DEF OnSlot
<1> QED
  BY <1>1, <1>2, <1>3, <1>4, <1>5, <1>6, <1>7, <1>8 DEF Next

(* The invariant of the room: besides the two properties below, a poll that waits for a connection holds one
   that was made, and the entry of this.peers is a connection that is not closed. *)
THEOREM RoomInvariance == Spec => []RoomInv
BY RoomStarts, RoomStep, PTL DEF Spec

(* P2PRoom never has two connections to a peer: whatever order the roster, the signals, the refused
   descriptions and the watchdog come in, one that is not closed is the one of this.peers. *)
THEOREM OneConnectionPerPeer == Spec => []OnePerPeer
BY RoomInvariance, PTL DEF RoomInv

(* Until close() the signalling loop is never lost: a timer is set or a poll is under way that no closed
   connection holds up, so that a poll whose call never settles does not end the loop. *)
THEOREM PollingNeverStops == Spec => []PollingGoesOn
BY RoomInvariance, PTL DEF RoomInv

----------------------------------------------------------------------------
(* The buffered candidates.                                                 *)

\* A room that is closed has let go of its connection.
ClosedHasNone == room.closed => peer = 0

BufferInv == RoomInv /\ ClosedHasNone /\ BufferIsFlushed

\* No slot comes to hold candidates that wait although there is a description.
NothingStuck ==
  \A i \in 1..Len(slots') :
    slots'[i].pending /\ slots'[i].described => i \in 1..Len(slots) /\ slots[i].pending /\ slots[i].described
\* The polls that flush go on doing so.
FlushesGoOn ==
  \A k \in Polls : poll[k].at = "flush" => poll'[k].at = "flush" /\ poll'[k].slot = poll[k].slot

(* Both together keep the buffer flushed. *)
LEMMA NothingWaits ==
  ASSUME BufferIsFlushed, NothingStuck, FlushesGoOn
  PROVE  BufferIsFlushed'
BY DEF BufferIsFlushed, NothingStuck, FlushesGoOn

(* A step that leaves the slots alone makes nothing wait. *)
LEMMA SlotsStay ==
  ASSUME slots' = slots
  PROVE  NothingStuck
BY DEF NothingStuck

(* One slot changes, and what waits in it waited before. *)
LEMMA SlotBuffers ==
  ASSUME TypeOK, NEW i \in 1..Len(slots), NEW x \in PeerSlots, slots' = [slots EXCEPT ![i] = x],
         x.pending /\ x.described => slots[i].pending /\ slots[i].described
  PROVE  NothingStuck
<1>1. slots \in Seq(PeerSlots)
  BY DEF TypeOK
<1>2. Len(slots') = Len(slots) /\ \A j \in 1..Len(slots) : slots'[j] = IF j = i THEN x ELSE slots[j]
  BY <1>1, ExceptSeq
<1> QED
  BY <1>2 DEF NothingStuck

(* A connection that is closed drops its buffer, the others keep theirs. *)
LEMMA ShutBuffers ==
  ASSUME NEW s \in Seq(PeerSlots), NEW i \in 0..Len(s)
  PROVE  \A j \in 1..Len(s) : Shut(s, i)[j].pending => Shut(s, i)[j] = s[j]
<1>1. CASE i = 0
  BY <1>1 DEF Shut
<1>2. CASE i # 0
  <2> DEFINE x == [NewSlot(FALSE) EXCEPT !.open = FALSE, !.conn = "closed", !.attempts = s[i].attempts,
                                         !.recreated = s[i].recreated]
  <2>1. s[i] \in PeerSlots
    BY <1>2
  <2>2. x \in PeerSlots /\ ~x.pending
    BY <2>1 DEF NewSlot, PeerSlots, Conns
  <2>3. Shut(s, i) = [s EXCEPT ![i] = x]
    BY <1>2 DEF Shut
  <2> HIDE DEF x
  <2>4. \A j \in 1..Len(s) : Shut(s, i)[j] = IF j = i THEN x ELSE s[j]
    BY <1>2, <2>2, <2>3, ExceptSeq
  <2> QED
    BY <2>2, <2>4
<1> QED
  BY <1>1, <1>2

(* A connection that is made has nothing that waits. *)
LEMMA ConnectBuffers ==
  ASSUME TypeOK, NEW s \in Seq(PeerSlots), NEW x \in PeerSlots, ~x.pending, Len(s) = Len(slots), slots' = Append(s, x),
         \A j \in 1..Len(slots) : s[j].pending /\ s[j].described => slots[j].pending /\ slots[j].described
  PROVE  NothingStuck
<1>1. Len(slots') = Len(slots) + 1 /\ slots'[Len(slots) + 1] = x /\ \A j \in 1..Len(slots) : slots'[j] = s[j]
  BY AppendProperties
<1>2. Len(slots) \in Nat
  BY DEF TypeOK
<1> QED
  BY <1>1, <1>2 DEF NothingStuck

(* Polls other than the one that moves are where they were. *)
LEMMA OnePollMoves ==
  ASSUME TypeOK, NEW k \in Polls, poll[k].at # "flush", NEW c, poll' = [poll EXCEPT ![k] = c]
  PROVE  FlushesGoOn
BY DEF TypeOK, FlushesGoOn

(* A step that leaves the connections alone, of a poll that does not flush. *)
LEMMA QuietKeeps ==
  ASSUME BufferInv, UNCHANGED <<slots, peer>>, room'.closed = room.closed,
         \/ UNCHANGED poll
         \/ \E k \in Polls : poll[k].at # "flush" /\ \E c : poll' = [poll EXCEPT ![k] = c]
  PROVE  ClosedHasNone' /\ BufferIsFlushed'
<1>1. FlushesGoOn
  BY OnePollMoves DEF BufferInv, RoomInv, FlushesGoOn
<1> QED
  BY <1>1, SlotsStay, NothingWaits DEF BufferInv, ClosedHasNone

(* The relay, the timer, the end of a poll or of a call that it awaited. *)
LEMMA PollsKeepBuffers ==
  ASSUME BufferInv,
         \/ \E kind \in Kinds : Post(kind)
         \/ Roster
         \/ \E k \in Polls : TimerFires(k) \/ FetchFails(k) \/ PollEnds(k) \/ Settled(k)
  PROVE  ClosedHasNone' /\ BufferIsFlushed'
<1>1. UNCHANGED <<slots, peer>>
  BY DEF Post, Roster, TimerFires, FetchFails, PollEnds, Settled
<1>2. room'.closed = room.closed
  <2>1. room \in Rooms
    BY DEF BufferInv, RoomInv, TypeOK
  <2> QED
    BY <2>1 DEF Post, Roster, TimerFires, FetchFails, PollEnds, Settled, Ended, Scheduled, Rooms
<1>3. CASE \E k \in Polls : TimerFires(k) \/ FetchFails(k) \/ PollEnds(k) \/ Settled(k)
  <2>1. PICK k \in Polls : TimerFires(k) \/ FetchFails(k) \/ PollEnds(k) \/ Settled(k)
    BY <1>3
  <2>2. poll[k].at # "flush"
    BY <2>1 DEF TimerFires, FetchFails, PollEnds, Settled
  <2>3. \E c : poll' = [poll EXCEPT ![k] = c]
    BY <2>1 DEF TimerFires, FetchFails, PollEnds, Settled, Goes
  <2> QED
    BY <1>1, <1>2, <2>2, <2>3, QuietKeeps
<1>4. CASE Roster \/ \E kind \in Kinds : Post(kind)
  BY <1>1, <1>2, <1>4, QuietKeeps DEF Post, Roster
<1> QED
  BY <1>3, <1>4

(* The response of the relay connects to the peer, or lets go of it. *)
LEMMA FetchedKeepsBuffers ==
  ASSUME BufferInv, NEW k \in Polls, Fetched(k)
  PROVE  ClosedHasNone' /\ BufferIsFlushed'
<1>1. TypeOK /\ slots \in Seq(PeerSlots) /\ peer \in 0..Len(slots) /\ room.dialer \in BOOLEAN
  BY DEF BufferInv, RoomInv, TypeOK, Rooms
<1>2. ~room'.closed
  BY DEF Fetched
<1>3. FlushesGoOn
  <2>1. poll[k].at # "flush" /\ \A j \in Polls \ {k} : poll'[j] = poll[j]
    BY <1>1 DEF Fetched, TypeOK
  <2> QED
    BY <2>1 DEF FlushesGoOn
<1>4. NothingStuck
  <2>1. CASE relay.present /\ peer = 0
    <3> DEFINE x == NewSlot(room.dialer)
    <3>1. x \in PeerSlots /\ ~x.pending
      BY <1>1 DEF NewSlot, PeerSlots, Conns
    <3>2. slots' = Append(slots, x)
      BY <2>1 DEF Fetched, Connect
    <3> HIDE DEF x
    <3> QED
      BY <1>1, <3>1, <3>2, ConnectBuffers
  <2>2. CASE ~relay.present /\ peer # 0
    <3>1. slots' = Shut(slots, peer)
      BY <2>2 DEF Fetched
    <3>2. Len(slots') = Len(slots)
      BY <1>1, <3>1, ShutParts
    <3> QED
      BY <1>1, <3>1, <3>2, ShutBuffers DEF NothingStuck
  <2>3. CASE ~(relay.present /\ peer = 0) /\ ~(~relay.present /\ peer # 0)
    BY <2>3, SlotsStay DEF Fetched
  <2> QED
    BY <2>1, <2>2, <2>3
<1> QED
  BY <1>2, <1>3, <1>4, NothingWaits DEF BufferInv, ClosedHasNone

(* A candidate is buffered only before there is a description. *)
LEMMA HandleBuffers ==
  ASSUME NEW k \in Polls, NEW s \in Seq(PeerSlots), NEW i \in 1..Len(s), Handle(k, s, i)
  PROVE  /\ Len(slots') = Len(s)
         /\ \A j \in 1..Len(s) : slots'[j].pending /\ slots'[j].described => s[j].pending /\ s[j].described
<1> DEFINE x == [s[i] EXCEPT !.pending = TRUE]
<1>1. slots' = s \/ (slots' = [s EXCEPT ![i] = x] /\ ~s[i].described)
  BY DEF Handle
<1>2. s[i] \in PeerSlots
  BY ElementOfSeq
<1>3. x \in PeerSlots /\ x.described = s[i].described
  BY <1>2 DEF PeerSlots
<1> HIDE DEF x
<1>4. CASE slots' = s
  BY <1>4
<1>5. CASE slots' = [s EXCEPT ![i] = x] /\ ~s[i].described
  <2>1. Len(slots') = Len(s) /\ \A j \in 1..Len(s) : slots'[j] = IF j = i THEN x ELSE s[j]
    BY <1>3, <1>5, ExceptSeq
  <2> QED
    BY <1>3, <1>5, <2>1
<1> QED
  BY <1>1, <1>4, <1>5

(* A signal is taken. *)
LEMMA SignalKeepsBuffers ==
  ASSUME BufferInv, NEW k \in Polls, Signal(k)
  PROVE  ClosedHasNone' /\ BufferIsFlushed'
<1>1. TypeOK /\ slots \in Seq(PeerSlots) /\ peer \in 0..Len(slots) /\ room \in Rooms /\ Len(slots) \in Nat
  BY DEF BufferInv, RoomInv, TypeOK
<1>2. ~room'.closed
  BY <1>1 DEF Signal, Rooms
<1>3. FlushesGoOn
  <2>1. poll[k].at # "flush" /\ \E c : poll' = [poll EXCEPT ![k] = c]
    BY DEF Signal, Handle
  <2> QED
    BY <1>1, <2>1, OnePollMoves
<1>4. NothingStuck
  <2>1. CASE peer # 0
    <3>1. Handle(k, slots, peer) /\ peer \in 1..Len(slots)
      BY <1>1, <2>1 DEF Signal
    <3> QED
      BY <1>1, <3>1, HandleBuffers DEF NothingStuck
  <2>2. CASE peer = 0 /\ poll[k].vouched
    <3> DEFINE x == NewSlot(FALSE)
               s == Append(slots, x)
    <3>1. x \in PeerSlots /\ ~x.pending
      BY DEF NewSlot, PeerSlots, Conns
    <3>2. Handle(k, s, Len(slots) + 1)
      BY <2>2 DEF Signal
    <3> HIDE DEF x
    <3>3. s \in Seq(PeerSlots) /\ Len(s) = Len(slots) + 1 /\ s[Len(slots) + 1] = x /\ \A j \in 1..Len(slots) : s[j] = slots[j]
      BY <1>1, <3>1, AppendProperties
    <3> HIDE DEF s
    <3>4. Len(slots) + 1 \in 1..Len(s)
      BY <1>1, <3>3
    <3>5. /\ Len(slots') = Len(s)
          /\ \A j \in 1..Len(s) : slots'[j].pending /\ slots'[j].described => s[j].pending /\ s[j].described
      BY <3>2, <3>3, <3>4, HandleBuffers
    <3> QED
      BY <1>1, <3>1, <3>3, <3>5 DEF NothingStuck
  <2>3. CASE peer = 0 /\ ~poll[k].vouched
    BY <2>3, SlotsStay DEF Signal
  <2> QED
    BY <2>1, <2>2, <2>3
<1> QED
  BY <1>2, <1>3, <1>4, NothingWaits DEF BufferInv, ClosedHasNone

(* The description is there, and the poll that set it flushes: its connection is that of the room, which is not closed. *)
LEMMA RemoteSetKeepsBuffers ==
  ASSUME BufferInv, NEW k \in Polls, RemoteSet(k)
  PROVE  ClosedHasNone' /\ BufferIsFlushed'
<1>1. PICK i \in 1..Len(slots) : i = poll[k].slot /\ slots[i].open
  BY DEF BufferInv, RoomInv, HoldsSlot, Waiting, RemoteSet, Takes
<1>2. TypeOK /\ slots \in Seq(PeerSlots) /\ slots[i] \in PeerSlots
  BY SlotType DEF BufferInv, RoomInv, TypeOK
<1>3. ~room.closed
  BY <1>1 DEF BufferInv, RoomInv, OnePerPeer, ClosedHasNone
<1>4. \A j \in 1..Len(slots) \ {i} : slots'[j] = slots[j]
  BY <1>1, <1>2 DEF RemoteSet
<1>5. Len(slots') = Len(slots)
  BY <1>1, <1>2 DEF RemoteSet
<1>6. poll'[k].at = "flush" /\ poll'[k].slot = i /\ \A j \in Polls \ {k} : poll'[j] = poll[j]
  BY <1>1, <1>2, <1>3 DEF RemoteSet, Goes, TypeOK, PollCalls
<1>7. poll[k].at # "flush" /\ UNCHANGED <<room, peer>>
  BY DEF RemoteSet
<1>8. BufferIsFlushed
  BY DEF BufferInv
<1>9. BufferIsFlushed'
  BY <1>4, <1>5, <1>6, <1>7, <1>8 DEF BufferIsFlushed
<1> QED
  BY <1>7, <1>9 DEF BufferInv, ClosedHasNone

(* The description was refused. *)
LEMMA RemoteRefusedKeepsBuffers ==
  ASSUME BufferInv, NEW k \in Polls, RemoteRefused(k)
  PROVE  ClosedHasNone' /\ BufferIsFlushed'
<1>1. PICK i \in 1..Len(slots) : i = poll[k].slot
  BY DEF BufferInv, RoomInv, HoldsSlot, Waiting, RemoteRefused
<1>2. TypeOK /\ slots \in Seq(PeerSlots) /\ slots[i] \in PeerSlots /\ Len(slots) \in Nat
  BY SlotType DEF BufferInv, RoomInv, TypeOK
<1>3. FlushesGoOn
  <2>1. poll[k].at # "flush" /\ \A j \in Polls \ {k} : poll'[j] = poll[j]
    BY <1>2 DEF RemoteRefused, Goes, TypeOK
  <2> QED
    BY <2>1 DEF FlushesGoOn
<1>4. CASE ~MayRecreate(k)
  <2>1. UNCHANGED <<slots, peer, room>>
    BY <1>4 DEF RemoteRefused
  <2> QED
    BY <1>3, <2>1, SlotsStay, NothingWaits DEF BufferInv, ClosedHasNone
<1> DEFINE s == Shut(slots, i)
<1>5. s \in Seq(PeerSlots) /\ Len(s) = Len(slots) /\ \A j \in 1..Len(slots) : s[j].pending => s[j] = slots[j]
  BY <1>2, ShutParts, ShutBuffers
<1>6. CASE MayRecreate(k) /\ room.closed
  <2>1. slots' = s /\ peer' = 0
    BY <1>1, <1>6 DEF RemoteRefused, Discarded
  <2> HIDE DEF s
  <2>2. NothingStuck
    BY <1>5, <2>1 DEF NothingStuck
  <2> QED
    BY <1>3, <2>1, <2>2, NothingWaits DEF BufferInv, ClosedHasNone
<1>7. CASE MayRecreate(k) /\ ~room.closed
  <2> DEFINE x == [NewSlot(FALSE) EXCEPT !.attempts = slots[i].attempts, !.recreated = TRUE]
  <2>1. x \in PeerSlots /\ ~x.pending
    BY <1>2 DEF NewSlot, PeerSlots, Conns
  <2>2. slots' = Append(s, x) /\ room' = room
    BY <1>1, <1>7 DEF RemoteRefused, Discarded, Connect
  <2> HIDE DEF s, x
  <2>3. NothingStuck
    BY <1>2, <1>5, <2>1, <2>2, ConnectBuffers
  <2> QED
    BY <1>3, <1>7, <2>2, <2>3, NothingWaits DEF BufferInv, ClosedHasNone
<1> QED
  BY <1>4, <1>6, <1>7

(* The buffer is flushed: of this connection nothing waits any more. *)
LEMMA FlushedKeepsBuffers ==
  ASSUME BufferInv, NEW k \in Polls, Flushed(k)
  PROVE  ClosedHasNone' /\ BufferIsFlushed'
<1>1. PICK i \in 1..Len(slots) : i = poll[k].slot
  BY DEF BufferInv, RoomInv, HoldsSlot, Waiting, Flushed
<1>2. TypeOK /\ slots \in Seq(PeerSlots) /\ slots[i] \in PeerSlots
  BY SlotType DEF BufferInv, RoomInv, TypeOK
<1>3. /\ Len(slots') = Len(slots) /\ ~slots'[i].pending
      /\ \A j \in 1..Len(slots) \ {i} : slots'[j] = slots[j]
  <2> DEFINE x == [slots[i] EXCEPT !.pending = FALSE]
  <2>1. x \in PeerSlots /\ ~x.pending
    BY <1>2 DEF PeerSlots
  <2>2. slots' = [slots EXCEPT ![i] = x]
    BY <1>1 DEF Flushed, Applied
  <2> HIDE DEF x
  <2> QED
    BY <1>2, <2>1, <2>2, ExceptSeq
<1>4. \A j \in Polls \ {k} : poll'[j] = poll[j]
  BY <1>2 DEF Flushed, Goes, TypeOK
<1>5. BufferIsFlushed /\ UNCHANGED <<room, peer>>
  BY DEF BufferInv, Flushed
<1>6. BufferIsFlushed'
  BY <1>1, <1>3, <1>4, <1>5 DEF BufferIsFlushed
<1> QED
  BY <1>5, <1>6 DEF BufferInv, ClosedHasNone

(* The answer is set as the local description. *)
LEMMA LocalSetKeepsBuffers ==
  ASSUME BufferInv, NEW k \in Polls, LocalSet(k)
  PROVE  ClosedHasNone' /\ BufferIsFlushed'
<1>1. PICK i \in 1..Len(slots) : i = poll[k].slot
  BY DEF BufferInv, RoomInv, HoldsSlot, Waiting, LocalSet
<1>2. TypeOK /\ slots[i] \in PeerSlots
  BY SlotType DEF BufferInv, RoomInv
<1>3. FlushesGoOn
  <2>1. poll[k].at # "flush" /\ \A j \in Polls \ {k} : poll'[j] = poll[j]
    BY <1>2 DEF LocalSet, Goes, TypeOK
  <2> QED
    BY <2>1 DEF FlushesGoOn
<1>4. NothingStuck
  <2> DEFINE x == [slots[i] EXCEPT !.sig = "stable"]
  <2>1. x \in PeerSlots /\ x.pending = slots[i].pending /\ x.described = slots[i].described
    BY <1>2 DEF PeerSlots
  <2>2. slots' = [slots EXCEPT ![i] = x] \/ slots' = slots
    BY <1>1 DEF LocalSet
  <2> HIDE DEF x
  <2> QED
    BY <1>2, <2>1, <2>2, SlotBuffers, SlotsStay
<1>5. UNCHANGED <<room, peer>>
  BY DEF LocalSet
<1> QED
  BY <1>3, <1>4, <1>5, NothingWaits DEF BufferInv, ClosedHasNone

(* A callback or the ping interval changes a slot, but not what it buffers. *)
LEMMA CallbackKeepsBuffers ==
  ASSUME BufferInv, UNCHANGED <<peer, poll>>, room'.closed = room.closed,
         NEW i \in 1..Len(slots), NEW x \in PeerSlots, slots' = [slots EXCEPT ![i] = x],
         x.pending = slots[i].pending, x.described = slots[i].described
  PROVE  ClosedHasNone' /\ BufferIsFlushed'
<1>1. NothingStuck
  BY SlotBuffers DEF BufferInv, RoomInv
<1> QED
  BY <1>1, NothingWaits DEF BufferInv, ClosedHasNone, FlushesGoOn

(* The callbacks of a connection. *)
LEMMA SlotsKeepBuffers ==
  ASSUME BufferInv, NEW i \in 1..Len(slots), OnSlot(i)
  PROVE  ClosedHasNone' /\ BufferIsFlushed'
<1>1. PICK y \in PeerSlots : y = slots[i]
  BY SlotType DEF BufferInv, RoomInv
<1>2. UNCHANGED <<peer, poll>> /\ room'.closed = room.closed
  BY DEF OnSlot, Negotiate, Offered, StateChange, DiesSilently, Scheduled, BufferInv, RoomInv, TypeOK, Rooms
<1>3. CASE Negotiate(i)
  <2> DEFINE x == [y EXCEPT !.needed = FALSE, !.offering = TRUE, !.sig = IF @ = "stable" THEN "have-local-offer" ELSE @]
  <2>1. x \in PeerSlots /\ x.pending = y.pending /\ x.described = y.described
    BY DEF PeerSlots
  <2>2. slots' = [slots EXCEPT ![i] = x]
    BY <1>1, <1>3 DEF Negotiate
  <2> HIDE DEF x
  <2> QED
    BY <1>1, <1>2, <2>1, <2>2, CallbackKeepsBuffers
<1>4. CASE Offered(i)
  <2> DEFINE x == [y EXCEPT !.offering = FALSE]
  <2>1. x \in PeerSlots /\ x.pending = y.pending /\ x.described = y.described
    BY DEF PeerSlots
  <2>2. slots' = [slots EXCEPT ![i] = x]
    BY <1>1, <1>4 DEF Offered
  <2> HIDE DEF x
  <2> QED
    BY <1>1, <1>2, <2>1, <2>2, CallbackKeepsBuffers
<1>5. CASE StateChange(i)
  <2>1. PICK c \in MayBecome[y.conn] : slots' = [slots EXCEPT ![i] = [Progressed(y, c) EXCEPT !.conn = c, !.needed = @ \/ c = "failed"]]
    BY <1>1, <1>5 DEF StateChange
  <2>2. c \in Conns
    BY DEF PeerSlots, MayBecome, Conns
  <2> DEFINE p == Progressed(y, c)
             x == [p EXCEPT !.conn = c, !.needed = @ \/ c = "failed"]
  <2>3. slots' = [slots EXCEPT ![i] = x]
    BY <2>1
  <2>4. p \in PeerSlots /\ p.pending = y.pending /\ p.described = y.described
    BY <2>2 DEF Progressed, PeerSlots
  <2> HIDE DEF p
  <2>5. x \in PeerSlots /\ x.pending = p.pending /\ x.described = p.described
    BY <2>2, <2>4 DEF PeerSlots
  <2> HIDE DEF x
  <2> QED
    BY <1>1, <1>2, <2>3, <2>4, <2>5, CallbackKeepsBuffers
<1>6. CASE DiesSilently(i)
  <2> DEFINE x == [y EXCEPT !.conn = "failed"]
  <2>1. x \in PeerSlots /\ x.pending = y.pending /\ x.described = y.described
    BY DEF PeerSlots, Conns
  <2>2. slots' = [slots EXCEPT ![i] = x]
    BY <1>1, <1>6 DEF DiesSilently
  <2> HIDE DEF x
  <2> QED
    BY <1>1, <1>2, <2>1, <2>2, CallbackKeepsBuffers
<1> QED
  BY <1>3, <1>4, <1>5, <1>6 DEF OnSlot

(* The ping interval. *)
LEMMA StallsKeepBuffers ==
  ASSUME BufferInv, Stalls
  PROVE  ClosedHasNone' /\ BufferIsFlushed'
<1>1. peer \in 1..Len(slots) /\ UNCHANGED <<room, peer, poll>>
  BY DEF Stalls, BufferInv, RoomInv, TypeOK
<1>2. PICK y \in PeerSlots : y = slots[peer]
  BY <1>1, SlotType DEF BufferInv, RoomInv
<1> DEFINE x == [y EXCEPT !.stalled = TRUE]
<1>3. x \in PeerSlots /\ x.pending = y.pending /\ x.described = y.described
  BY DEF PeerSlots
<1>4. slots' = [slots EXCEPT ![peer] = x]
  BY <1>2 DEF Stalls
<1> HIDE DEF x
<1> QED
  BY <1>1, <1>2, <1>3, <1>4, CallbackKeepsBuffers

(* The watchdog gives the pair up, counts another stall, or rebuilds the connection without its buffer. *)
LEMMA WatchdogKeepsBuffers ==
  ASSUME BufferInv, Watchdog
  PROVE  ClosedHasNone' /\ BufferIsFlushed'
<1>1. peer \in 1..Len(slots) /\ ~room.closed /\ poll' = poll
  BY DEF Watchdog, BufferInv, RoomInv, TypeOK
<1>2. PICK y \in PeerSlots : y = slots[peer]
  BY <1>1, SlotType DEF BufferInv, RoomInv
<1> DEFINE s == Live(y)
           given == [s EXCEPT !.terminal = TRUE]
           tried == [s EXCEPT !.attempts = Counted(@), !.stalled = FALSE]
           becomes(x) == slots' = [slots EXCEPT ![peer] = x] /\ UNCHANGED <<room, peer>>
           marked == [slots EXCEPT ![peer] = tried]
           made == Rebuilt(tried.attempts)
<1>3. \/ becomes(s) \/ becomes(given) \/ becomes(tried)
      \/ Connect(Shut(marked, peer), made) /\ room' = Scheduled(room)
  BY <1>2 DEF Watchdog, Discarded
<1>4. s \in PeerSlots /\ s.pending = y.pending /\ s.described = y.described
  BY DEF Live, PeerSlots
<1> HIDE DEF s
<1>5. given \in PeerSlots /\ given.pending = s.pending /\ given.described = s.described
  BY <1>4 DEF PeerSlots
<1>6. tried \in PeerSlots /\ tried.pending = s.pending /\ tried.described = s.described
  <2>1. PICK n \in Nat : n = Counted(s.attempts)
    BY <1>4 DEF PeerSlots, Counted
  <2>2. tried = [s EXCEPT !.attempts = n, !.stalled = FALSE]
    BY <2>1
  <2> HIDE DEF tried
  <2>3. [s EXCEPT !.attempts = n, !.stalled = FALSE] \in PeerSlots
    BY <1>4 DEF PeerSlots
  <2>4. tried.pending = s.pending /\ tried.described = s.described
    BY <1>4, <2>2 DEF PeerSlots
  <2> QED
    BY <2>2, <2>3, <2>4
<1> HIDE DEF given, tried
<1>7. ASSUME NEW x \in PeerSlots, x.pending = y.pending, x.described = y.described, becomes(x)
      PROVE  ClosedHasNone' /\ BufferIsFlushed'
  BY <1>1, <1>2, <1>7, CallbackKeepsBuffers
<1>8. CASE Connect(Shut(marked, peer), made) /\ room' = Scheduled(room)
  <2>1. slots \in Seq(PeerSlots) /\ TypeOK /\ ~room'.closed
    BY <1>1, <1>8 DEF BufferInv, RoomInv, TypeOK, Rooms, Scheduled
  <2>2. /\ marked \in Seq(PeerSlots) /\ Len(marked) = Len(slots)
        /\ \A j \in 1..Len(slots) : marked[j] = IF j = peer THEN tried ELSE slots[j]
    BY <1>1, <1>6, <2>1, ExceptSeq
  <2> HIDE DEF marked
  <2> DEFINE closed == Shut(marked, peer)
  <2>3. closed \in Seq(PeerSlots) /\ Len(closed) = Len(slots)
        /\ \A j \in 1..Len(slots) : closed[j].pending => closed[j] = marked[j]
    BY <1>1, <2>2, ShutParts, ShutBuffers
  <2>4. slots' = Append(closed, made)
    BY <1>8 DEF Connect
  <2> HIDE DEF closed
  <2>5. made \in PeerSlots /\ ~made.pending
    <3>1. tried.attempts \in Nat
      BY <1>6 DEF PeerSlots
    <3> QED
      BY <3>1 DEF Rebuilt, NewSlot, PeerSlots, Conns
  <2> HIDE DEF made
  <2>6. \A j \in 1..Len(slots) : closed[j].pending /\ closed[j].described => slots[j].pending /\ slots[j].described
    BY <1>2, <1>4, <1>6, <2>2, <2>3
  <2>7. NothingStuck
    BY <2>1, <2>3, <2>4, <2>5, <2>6, ConnectBuffers
  <2> QED
    BY <1>1, <2>1, <2>7, NothingWaits DEF BufferInv, ClosedHasNone, FlushesGoOn
<1> QED
  BY <1>3, <1>4, <1>5, <1>6, <1>7, <1>8

(* close() lets go of the connection. *)
LEMMA CloseKeepsBuffers ==
  ASSUME BufferInv, Close
  PROVE  ClosedHasNone' /\ BufferIsFlushed'
<1>1. slots \in Seq(PeerSlots) /\ peer \in 0..Len(slots)
  BY DEF BufferInv, RoomInv, TypeOK
<1>2. slots' = Shut(slots, peer) /\ peer' = 0 /\ poll' = poll
  BY DEF Close
<1>3. NothingStuck
  BY <1>1, <1>2, ShutParts, ShutBuffers DEF NothingStuck
<1> QED
  BY <1>2, <1>3, NothingWaits DEF BufferInv, ClosedHasNone, FlushesGoOn

(* A room starts without a buffer. *)
LEMMA BuffersStart == Init => BufferInv
<1> SUFFICES ASSUME Init PROVE BufferInv
  OBVIOUS
<1>1. slots = << >> /\ peer = 0
  BY DEF Init
<1>2. Len(slots) = 0
  BY <1>1
<1> QED
  BY <1>1, <1>2, RoomStarts DEF BufferInv, ClosedHasNone, BufferIsFlushed

(* Every step keeps the invariant. *)
LEMMA BufferStep == BufferInv /\ [Next]_vars => BufferInv'
<1> SUFFICES ASSUME BufferInv, [Next]_vars PROVE ClosedHasNone' /\ BufferIsFlushed'
  BY RoomStep DEF BufferInv
<1>1. CASE UNCHANGED vars
  BY <1>1, QuietKeeps DEF vars
<1>2. CASE Stalls \/ Watchdog \/ Close
  BY <1>2, StallsKeepBuffers, WatchdogKeepsBuffers, CloseKeepsBuffers
<1>3. CASE Roster \/ \E kind \in Kinds : Post(kind)
  BY <1>3, PollsKeepBuffers
<1>4. ASSUME NEW k \in Polls, OnPoll(k) PROVE ClosedHasNone' /\ BufferIsFlushed'
  BY <1>4, PollsKeepBuffers, FetchedKeepsBuffers, SignalKeepsBuffers, RemoteSetKeepsBuffers, RemoteRefusedKeepsBuffers,
     FlushedKeepsBuffers, LocalSetKeepsBuffers DEF OnPoll
<1>5. ASSUME NEW i \in 1..Len(slots), OnSlot(i) PROVE ClosedHasNone' /\ BufferIsFlushed'
  BY <1>5, SlotsKeepBuffers
<1> QED
  BY <1>1, <1>2, <1>3, <1>4, <1>5 DEF Next

(* A candidate that raced ahead of its description is applied once there is one, whatever closes, replaces or
   rebuilds the connection in between. *)
THEOREM BufferIsAlwaysFlushed == Spec => []BufferIsFlushed
<1>1. Spec => []BufferInv
  BY BuffersStart, BufferStep, PTL DEF Spec
<1> QED
  BY <1>1, PTL DEF BufferInv
=============================================================================
