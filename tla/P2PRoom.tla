------------------------------ MODULE P2PRoom ------------------------------
(***************************************************************************)
(* P2PRoom (multiplayer/p2p.ts) in one browser, towards one remote peer:    *)
(* the polls of the signalling relay, the connection of the pair, and the   *)
(* watchdog that rebuilds it.  The relay, the remote peer and the           *)
(* RTCPeerConnection are external: signals come in any order and number,    *)
(* and a connection changes state as its description allows.               *)
(*                                                                         *)
(* A PeerSlot and its RTCPeerConnection live and die together, so they are  *)
(* one record; a slot that was replaced stays, as its callbacks and the     *)
(* tasks that hold it do.                                                  *)
(***************************************************************************)
EXTENDS Naturals, Sequences, FiniteSets

CONSTANTS
  MaxSlots,     \* bound: connections made for the pair
  MaxSignals,   \* bound: signals the relay gets for this peer
  Polls,        \* polls that may be in flight at once
  MaxRecovery   \* MAX_RECOVERY_ATTEMPTS

ASSUME RoomBounds == {MaxSlots, MaxSignals, MaxRecovery} \subseteq Nat /\ Polls # {}

VARIABLES
  room,   \* dialer (selfId > the other's), closed, joined (the ping interval runs), armed (pollTimer), cursor
  peer,   \* the entry of this.peers, 0 for none
  slots,  \* every PeerSlot made
  poll,   \* the calls of pollOnce()
  relay   \* the signals stored for this peer, and whether the other one is on the roster

vars == <<room, peer, slots, poll, relay>>

Kinds == {"offer", "answer", "ice"}
Idle == [at |-> "idle", joins |-> FALSE, since |-> 0, todo |-> << >>, vouched |-> FALSE, slot |-> 0, kind |-> "ice"]

NewSlot(initiator) ==
  [open |-> TRUE, sig |-> "stable", described |-> FALSE, conn |-> "new", needed |-> initiator, offering |-> FALSE,
   pending |-> FALSE, attempts |-> 0, stalled |-> FALSE, terminal |-> FALSE, recreated |-> FALSE,
   seen |-> "new"]

Init ==
  /\ room \in [dialer : BOOLEAN, closed : {FALSE}, joined : {FALSE}, armed : {FALSE}, cursor : {0}]
  /\ peer = 0 /\ slots = << >>
  /\ poll \in {[k \in Polls |-> IF k = first THEN [Idle EXCEPT !.at = "fetch", !.joins = TRUE] ELSE Idle] : first \in {CHOOSE k \in Polls : TRUE}}
  /\ relay = [log |-> << >>, present |-> FALSE]

Polite == ~room.dialer
\* A closed connection fires no more callbacks; only tasks that still hold its slot read it.
Shut(s, i) ==
  IF i = 0 THEN s
  ELSE [s EXCEPT ![i] = [NewSlot(FALSE) EXCEPT !.open = FALSE, !.conn = "closed", !.attempts = s[i].attempts, !.recreated = s[i].recreated]]
\* Mutant: the replaced connection is left to itself.
Abandoned(s, i) == s
\* The connection that another one replaces is closed first.
Discarded(s, i) == Shut(s, i)
\* schedulePoll(), of a room that is not closed.
Scheduled(r) == [r EXCEPT !.armed = ~r.closed]
\* connectTo() of a room that is not closed.
Connect(s, slot) == slots' = Append(s, slot) /\ peer' = Len(s) + 1

----------------------------------------------------------------------------
(* The relay and the other peer.                                            *)

Post(kind) ==
  /\ Len(relay.log) < MaxSignals
  /\ relay' = [relay EXCEPT !.log = Append(@, kind)]
  /\ UNCHANGED <<room, peer, slots, poll>>
Roster == relay' = [relay EXCEPT !.present = ~@] /\ UNCHANGED <<room, peer, slots, poll>>

----------------------------------------------------------------------------
(* The signalling loop.                                                     *)

TimerFires(k) ==
  /\ room.armed /\ poll[k].at = "idle"
  /\ room' = [room EXCEPT !.armed = FALSE]
  /\ poll' = [poll EXCEPT ![k] = [Idle EXCEPT !.at = "fetch", !.since = room.cursor]]
  /\ UNCHANGED <<peer, slots, relay>>

\* Mutant: a poll that failed is not repeated.
EndedWell(r, failed, joins) == IF failed THEN r ELSE [Scheduled(r) EXCEPT !.joined = @ \/ (joins /\ ~r.closed)]
\* After pollOnce(), thrown or not: poll() schedules the next one, join() also starts the interval.
Ended(r, failed, joins) == [Scheduled(r) EXCEPT !.joined = @ \/ (joins /\ ~r.closed)]

FetchFails(k) ==
  /\ poll[k].at = "fetch"
  /\ poll' = [poll EXCEPT ![k] = Idle]
  /\ room' = Ended(room, TRUE, poll[k].joins)
  /\ UNCHANGED <<peer, slots, relay>>

\* reconcileRoster() with the response.
Fetched(k) ==
  /\ poll[k].at = "fetch" /\ ~room.closed
  /\ IF relay.present /\ peer = 0 THEN Len(slots) < MaxSlots /\ Connect(slots, NewSlot(room.dialer))
     ELSE IF ~relay.present /\ peer # 0 THEN slots' = Shut(slots, peer) /\ peer' = 0
     ELSE UNCHANGED <<slots, peer>>
  /\ poll' = [poll EXCEPT ![k].at = "next", ![k].vouched = relay.present,
                          ![k].todo = SubSeq(relay.log, poll[k].since + 1, Len(relay.log))]
  /\ UNCHANGED <<room, relay>>

PollEnds(k) ==
  /\ poll[k].at = "next" /\ (poll[k].todo = << >> \/ room.closed)
  /\ poll' = [poll EXCEPT ![k] = Idle]
  /\ room' = Ended(room, FALSE, poll[k].joins)
  /\ UNCHANGED <<peer, slots, relay>>

----------------------------------------------------------------------------
(* onSignal(), up to its first await and from await to await.               *)

Goes(k, at) == poll' = [poll EXCEPT ![k].at = at]
Taken(k) == [poll[k] EXCEPT !.todo = Tail(@), !.since = @ + 1, !.kind = Head(poll[k].todo)]

\* What the handler does before it awaits the connection.
Handle(k, s, i) ==
  LET kind == Head(poll[k].todo)
      collision == kind = "offer" /\ (s[i].offering \/ s[i].sig # "stable")
      refused == ~Polite /\ collision
      turn(at) == poll' = [poll EXCEPT ![k] = [Taken(k) EXCEPT !.slot = i, !.at = at]]
  IN IF kind = "ice"
     THEN IF s[i].described THEN turn("ice") /\ slots' = s
          ELSE turn("next") /\ slots' = [s EXCEPT ![i].pending = TRUE]
     ELSE /\ slots' = s
          /\ turn(IF refused THEN "next" ELSE "remote")

Signal(k) ==
  /\ poll[k].at = "next" /\ poll[k].todo # << >> /\ ~room.closed
  /\ room' = [room EXCEPT !.cursor = IF poll[k].since + 1 > @ THEN poll[k].since + 1 ELSE @]
  /\ IF peer # 0 THEN Handle(k, slots, peer) /\ UNCHANGED peer
     ELSE IF poll[k].vouched
     THEN Len(slots) < MaxSlots /\ Handle(k, Append(slots, NewSlot(FALSE)), Len(slots) + 1) /\ peer' = Len(slots) + 1
     ELSE poll' = [poll EXCEPT ![k] = Taken(k)] /\ UNCHANGED <<slots, peer>>
  /\ UNCHANGED relay

\* setRemoteDescription() is over.  A connection takes an answer to its offer, and an offer at any time (a
\* rollback is implicit); one whose fingerprint went stale in a suspend refuses.  If the connection is closed
\* meanwhile, the call never settles, and the poll hangs.
Takes(i, kind) == slots[i].open /\ (kind = "answer" => slots[i].sig = "have-local-offer")
RemoteSet(k) ==
  /\ poll[k].at \in {"remote", "again"} /\ Takes(poll[k].slot, poll[k].kind)
  /\ slots' = [slots EXCEPT ![poll[k].slot].described = TRUE,
                            ![poll[k].slot].sig = IF poll[k].kind = "offer" THEN "have-remote-offer" ELSE "stable"]
  /\ Goes(k, IF room.closed THEN "next" ELSE "flush")
  /\ UNCHANGED <<room, peer, relay>>

\* It rejected: an offer may rebuild the pair once and is applied to the new connection.
MayRecreate(k) == poll[k].kind = "offer" /\ poll[k].at = "remote" /\ ~slots[poll[k].slot].recreated
RemoteRefused(k) ==
  /\ poll[k].at \in {"remote", "again"} /\ slots[poll[k].slot].open
  /\ poll[k].kind = "answer" => ~Takes(poll[k].slot, "answer")
  /\ LET i == poll[k].slot
         closed == Discarded(slots, i)
     IN IF ~MayRecreate(k) THEN Goes(k, "next") /\ UNCHANGED <<slots, peer>>
        ELSE IF room.closed THEN Goes(k, "next") /\ slots' = closed /\ peer' = 0
        ELSE /\ Len(slots) < MaxSlots
             /\ Connect(closed, [NewSlot(FALSE) EXCEPT !.attempts = slots[i].attempts, !.recreated = TRUE])
             /\ poll' = [poll EXCEPT ![k].at = "again", ![k].slot = Len(slots) + 1]
  /\ UNCHANGED <<room, relay>>

\* flushPendingCandidates(): the buffered candidates, and then an offer is answered.
\* Mutant: only an offer flushes them.
AppliedOfOffer(k) == [slots EXCEPT ![poll[k].slot].pending = @ /\ poll[k].kind = "answer"]
Applied(k) == [slots EXCEPT ![poll[k].slot].pending = FALSE]
Flushed(k) ==
  /\ poll[k].at = "flush"
  /\ slots' = Applied(k)
  /\ Goes(k, IF room.closed \/ poll[k].kind # "offer" THEN "next" ELSE "local")
  /\ UNCHANGED <<room, peer, relay>>
LocalSet(k) ==
  /\ poll[k].at = "local"
  /\ LET i == poll[k].slot
     IN IF slots[i].open /\ slots[i].sig = "have-remote-offer"
        THEN slots' = [slots EXCEPT ![i].sig = "stable"] /\ Goes(k, IF room.closed THEN "next" ELSE "answer")
        ELSE Goes(k, "next") /\ UNCHANGED slots
  /\ UNCHANGED <<room, peer, relay>>
\* The post is over, delivered or given up after its retries; a candidate was added or was no use.
Settled(k) == poll[k].at \in {"answer", "ice"} /\ Goes(k, "next") /\ UNCHANGED <<room, peer, slots, relay>>

----------------------------------------------------------------------------
(* The callbacks of a connection.                                           *)

\* onnegotiationneeded: setLocalDescription(), which the connection takes in the order of the calls, and
\* the post of the offer.
Negotiate(i) ==
  /\ slots[i].open /\ slots[i].needed /\ ~slots[i].offering
  /\ slots' = [slots EXCEPT ![i].needed = FALSE, ![i].offering = TRUE,
                            ![i].sig = IF @ = "stable" THEN "have-local-offer" ELSE @]
  /\ UNCHANGED <<room, peer, poll, relay>>
Offered(i) ==
  /\ slots[i].offering
  /\ slots' = [slots EXCEPT ![i].offering = FALSE]
  /\ UNCHANGED <<room, peer, poll, relay>>

MayBecome == [new |-> {"connecting"}, connecting |-> {"connected", "failed"}, connected |-> {"failed"},
          failed |-> {"connecting"}, closed |-> {}]

\* What a connection that moved to state c makes of its slot.
Progressed(s, c) ==
  [s EXCEPT !.seen = c, !.stalled = IF c \in {"connecting", "connected"} THEN FALSE ELSE @,
            !.attempts = IF c = "connected" THEN 0 ELSE @, !.terminal = @ /\ c # "connected"]
\* onconnectionstatechange; a failed connection restarts ICE and wants a new offer.
StateChange(i) ==
  /\ slots[i].open /\ slots[i].described
  /\ \E c \in MayBecome[slots[i].conn] :
       /\ slots' = [slots EXCEPT ![i] = [Progressed(slots[i], c) EXCEPT !.conn = c, !.needed = @ \/ c = "failed"]]
       /\ room' = IF c = "failed" THEN Scheduled(room) ELSE room
  /\ UNCHANGED <<peer, poll, relay>>
\* A suspend kills a connection without an event.
DiesSilently(i) ==
  /\ slots[i].open /\ slots[i].conn = "connected"
  /\ slots' = [slots EXCEPT ![i].conn = "failed"]
  /\ UNCHANGED <<room, peer, poll, relay>>

----------------------------------------------------------------------------
(* The ping interval.                                                       *)

\* STALL_MS without progress.
Stalls ==
  /\ peer # 0 /\ ~slots[peer].stalled
  /\ slots' = [slots EXCEPT ![peer].stalled = TRUE]
  /\ UNCHANGED <<room, peer, poll, relay>>

Live(s) ==
  IF s.conn = s.seen THEN s
  ELSE [s EXCEPT !.seen = s.conn, !.stalled = IF s.conn \in {"connecting", "connected"} THEN FALSE ELSE @]

\* Mutant: a stall of the receiver is not counted.
Uncounted(n) == n
Counted(n) == n + 1

Rebuilt(n) == [NewSlot(TRUE) EXCEPT !.attempts = n]

Watchdog ==
  /\ room.joined /\ ~room.closed /\ peer # 0
  /\ LET s == Live(slots[peer])
         tried == [s EXCEPT !.attempts = Counted(@), !.stalled = FALSE]
         becomes(x) == slots' = [slots EXCEPT ![peer] = x] /\ UNCHANGED <<room, peer>>
     IN IF s.terminal \/ s.seen = "connected" \/ ~s.stalled THEN becomes(s)
        ELSE IF s.attempts >= MaxRecovery THEN becomes([s EXCEPT !.terminal = TRUE])
        ELSE IF ~room.dialer THEN becomes(tried)
        ELSE /\ Len(slots) < MaxSlots
             /\ Connect(Discarded([slots EXCEPT ![peer] = tried], peer), Rebuilt(tried.attempts))
             /\ room' = Scheduled(room)
  /\ UNCHANGED <<poll, relay>>

Close ==
  /\ ~room.closed
  /\ room' = [room EXCEPT !.closed = TRUE, !.armed = FALSE, !.joined = FALSE]
  /\ slots' = Shut(slots, peer) /\ peer' = 0
  /\ UNCHANGED <<poll, relay>>

----------------------------------------------------------------------------
OnPoll(k) ==
  \/ TimerFires(k) \/ FetchFails(k) \/ Fetched(k) \/ PollEnds(k) \/ Signal(k)
  \/ RemoteSet(k) \/ RemoteRefused(k) \/ Flushed(k) \/ LocalSet(k) \/ Settled(k)
OnSlot(i) == Negotiate(i) \/ Offered(i) \/ StateChange(i) \/ DiesSilently(i)

Next ==
  \/ \E kind \in Kinds : Post(kind)
  \/ Roster \/ Stalls \/ Watchdog \/ Close
  \/ \E k \in Polls : OnPoll(k)
  \/ \E i \in 1..Len(slots) : OnSlot(i)

Fairness == WF_vars(Stalls) /\ WF_vars(Watchdog) /\ \A k \in Polls : WF_vars(OnPoll(k))
Spec == Init /\ [][Next]_vars
FairSpec == Spec /\ Fairness

----------------------------------------------------------------------------
\* Until close() there is always a timer for the next poll or a poll under way, other than one that may
\* hang for ever in a call of a connection that was closed.
Hangs(k) == poll[k].at \in {"remote", "again", "flush", "local", "ice"} /\ ~slots[poll[k].slot].open
PollingGoesOn == ~room.closed => room.armed \/ \E k \in Polls : poll[k].at # "idle" /\ ~Hangs(k)

\* "One RTCPeerConnection per remote peer": a connection that is not closed is the one of this.peers.
OnePerPeer == \A i \in 1..Len(slots) : slots[i].open => i = peer

\* A candidate that raced ahead of its description is applied once there is one.
BufferIsFlushed ==
  \A i \in 1..Len(slots) : slots[i].pending /\ slots[i].described => \E k \in Polls : poll[k].at = "flush" /\ poll[k].slot = i

\* A pair without progress is given up in the end, and stops pinning the room to the fast poll.
Connecting == peer # 0 /\ slots[peer].seen # "connected" /\ ~slots[peer].terminal
OutOfSlots == Len(slots) = MaxSlots /\ room.dialer /\ slots[peer].attempts < MaxRecovery
GivesUp == []<>(~Connecting \/ slots[peer].conn = "connecting" \/ OutOfSlots)
=============================================================================
