--------------------------- MODULE EvidenceLedger ---------------------------
(***************************************************************************)
(* What the market evidence of a symbol promises, whoever writes it: the   *)
(* ledger of closed bars is append-only, the trusted minutes are minutes   *)
(* it holds, and an observation that contradicts it takes all trust away   *)
(* in the same step.                                                       *)
(***************************************************************************)
CONSTANT NoBars  \* the ledger of a symbol that was never observed

VARIABLES
  ledger,    \* minute -> bar
  trusted,   \* the minutes presented as verified
  disputed   \* the minutes with a contradicting observation

Init ==
  /\ ledger = NoBars
  /\ trusted = {}
  /\ disputed = {}

\* One transaction: it may add bars, move the trusted minutes and dispute bars.
Commit ==
  /\ \A m \in DOMAIN ledger : m \in DOMAIN ledger' /\ ledger'[m] = ledger[m]
  /\ trusted' \subseteq DOMAIN ledger'
  /\ disputed \subseteq disputed' /\ disputed' \subseteq DOMAIN ledger
  /\ disputed' # disputed => trusted' = {}

Spec == Init /\ [][Commit]_<<ledger, trusted, disputed>>
=============================================================================
