------------------------------- MODULE MCSafety -------------------------------
(***************************************************************************)
(* The gap recovery of the stock worker, the research on what it traded,    *)
(* and the web application: checked for safety in one run of TLC.  part     *)
(* says whose behaviour it is, the others rest.                             *)
(***************************************************************************)
EXTENDS GapRecovery

CONSTANTS
  NBars, Warmup, Moves, Cost, MaxLoss,
  SessionMinutes, MaxTrouble, FeatureBars, SessionWidth,
  MaxFills, MaxPosition, MaxLost, End,
  MaxSlots, MaxSignals, Polls, MaxRecovery,
  MaxToken,
  Instances, MaxFaults,
  MaxSessions,
  Viewers, Requests, SessionRows, MaxChanges,
  Paths, HostEntries, MaxEntries, MaxGoing

ASSUME InstanceNames == "none" \notin Instances
ASSUME EntriesAround == HostEntries \subseteq Nat
ASSUME SessionNumbers == {SessionMinutes, FeatureBars, SessionWidth} \subseteq Nat /\ FeatureBars <= SessionWidth
ASSUME FillNumbers == {MaxPosition, End} \subseteq Nat
ASSUME ReplayNumbers == Moves \cup {Cost, MaxLoss} \subseteq Int
ASSUME RoomNumbers == {MaxSlots, MaxSignals, MaxRecovery} \subseteq Nat /\ Polls # {}

VARIABLES
  part,
  session, candles, execution, evidence, actions,  \* of the replay
  s1, s2, s3, s4, s5, s6, s7, s8, s9               \* of the other parts, each of which uses the first few

replayVars == <<session, candles, execution, evidence, actions>>
partVars == <<s1, s2, s3, s4, s5, s6, s7, s8, s9>>

\* Returns of a bar; the arms of the replay, with one strategy or with either.
MCMoves == {-2, 1}
Sessions ==
  [arm : {"A"}, strategy : {"ema_trend"}] \cup [arm : {"B"}, strategy : {"rsi_mean_reversion"}]
    \cup [arm : {"C", "D"}, strategy : {"ema_trend", "rsi_mean_reversion"}]

\* The newer deployment brings a migration that sorts before the two the older one knows.
Files == [i \in Instances |-> IF i = "old" THEN {2, 3} ELSE {1, 2, 3}]

Replay == INSTANCE ReplaySession
Paper == INSTANCE PaperSession WITH
  market <- s1, at <- s2, decisions <- s3, saved <- s4, runId <- s5, MaxMinute <- SessionMinutes, Width <- SessionWidth
Fills == INSTANCE PaperFills WITH
  history <- s1, stored <- s2, lost <- s3
Room == INSTANCE P2PRoom WITH
  room <- s1, peer <- s2, slots <- s3, poll <- s4, relay <- s5
Proxy == INSTANCE Connector WITH
  header <- s1, expired <- s2, rejected <- s3, memo <- s4, call <- s5, result <- s6, hook <- s7
Boot == INSTANCE Db WITH
  backend <- s1, engine <- s2, memo <- s3, pass <- s4, chain <- s5, applied <- s6, effects <- s7, faults <- s8
Sign == INSTANCE SignIn WITH
  preview <- s1, made <- s2, alive <- s3, jar <- s4, bearer <- s5, flow <- s6, request <- s7, popup <- s8, grace <- s9
Gate == INSTANCE GateSession WITH
  viewer <- s1, db <- s2, browser <- s3, req <- s4, shown <- s5, trouble <- s6, Sessions <- SessionRows, MaxTrouble <- MaxChanges
Bridge == INSTANCE PreviewBridge WITH
  before <- s1, entries <- s2, pos <- s3, installed <- s4, going <- s5, hashed <- s6, asked <- s7, bar <- s8

Parts == {"gap", "replay", "session", "fills", "p2p", "connector", "db", "signin", "gate", "bridge"}

\* A part that rests has no state of its own; the gap recovery, whose step property is read in
\* every step, and the replay rest in an initial one.
SafetyInit ==
  /\ part \in Parts
  /\ Init
  /\ Replay!Init /\ (part # "replay" => session = CHOOSE s \in Sessions : TRUE)
  /\ \/ part \in {"gap", "replay"} /\ s1 = 0 /\ s2 = 0 /\ s3 = 0 /\ s4 = 0 /\ s5 = 0 /\ s6 = 0 /\ s7 = 0 /\ s8 = 0 /\ s9 = 0
     \/ part = "session" /\ Paper!Init /\ s6 = 0 /\ s7 = 0 /\ s8 = 0 /\ s9 = 0
     \/ part = "fills" /\ Fills!Init /\ s4 = 0 /\ s5 = 0 /\ s6 = 0 /\ s7 = 0 /\ s8 = 0 /\ s9 = 0
     \/ part = "p2p" /\ Room!Init /\ s6 = 0 /\ s7 = 0 /\ s8 = 0 /\ s9 = 0
     \/ part = "connector" /\ Proxy!Init /\ s8 = 0 /\ s9 = 0
     \/ part = "db" /\ Boot!Init /\ s9 = 0
     \/ part = "signin" /\ Sign!Init
     \/ part = "gate" /\ Gate!Init /\ s7 = 0 /\ s8 = 0 /\ s9 = 0
     \/ part = "bridge" /\ Bridge!Init /\ s9 = 0

Rest == UNCHANGED <<part, vars, replayVars>>
SafetyNext ==
  \/ part = "gap" /\ Next /\ UNCHANGED <<part, replayVars, partVars>>
  \/ part = "replay" /\ Replay!Next /\ UNCHANGED <<part, vars, partVars>>
  \/ part = "session" /\ Paper!Next /\ Rest /\ UNCHANGED <<s6, s7, s8, s9>>
  \/ part = "fills" /\ Fills!Next /\ Rest /\ UNCHANGED <<s4, s5, s6, s7, s8, s9>>
  \/ part = "p2p" /\ Room!Next /\ Rest /\ UNCHANGED <<s6, s7, s8, s9>>
  \/ part = "connector" /\ Proxy!Next /\ Rest /\ UNCHANGED <<s8, s9>>
  \/ part = "db" /\ Boot!Next /\ Rest /\ UNCHANGED <<s9>>
  \/ part = "signin" /\ Sign!Next /\ Rest
  \/ part = "gate" /\ Gate!Next /\ Rest /\ UNCHANGED <<s7, s8, s9>>
  \/ part = "bridge" /\ Bridge!Next /\ Rest /\ UNCHANGED <<s9>>
SafetySpec == SafetyInit /\ [][SafetyNext]_<<part, vars, replayVars, partVars>>

\* The replay: what is decided is filled and counted as it should, and a ruined session stays flat.
ReplayInv ==
  part = "replay" => Replay!NextBarClose /\ Replay!MetricsAgree /\ Replay!AbstentionIsTold /\ Replay!RuinIsFinal

\* The research on a session: parity and round trips say what happened; V2 does what it is for.
ResearchInv ==
  /\ part = "session" => Paper!ParityIsExact /\ Paper!HysteresisDamps /\ Paper!NoWeakEntry
  /\ part = "fills" => Fills!TripsAreReal /\ Fills!OrderIsTrue

\* The migrations: each once, whoever runs them and whatever fails.
MigrationInv == part = "db" => Boot!NoCollision /\ Boot!EachOnce

\* Who is signed in, and as whom: no answer of another user or of another time is taken for it.
IdentityInv ==
  /\ part = "signin" => Sign!SignedOutIsOut /\ Sign!SignedInAnew /\ Sign!CompletedIsNotCancelled
  /\ part = "gate" => Gate!NeverTheOther
  /\ part = "connector" => Proxy!HeldBackIsRefused

\* What lives in a page: the history of the preview and the connections of a room.
PageInv ==
  /\ part = "bridge" => Bridge!RefusedOnlyAtRoot /\ Bridge!AddressInStep
  /\ part = "p2p" => Room!PollingGoesOn /\ Room!OnePerPeer /\ Room!BufferIsFlushed
=============================================================================
