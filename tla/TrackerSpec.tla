------------------------------ MODULE TrackerSpec ------------------------------
(***************************************************************************)
(* What Client::retry_until_included promises its caller, without how it  *)
(* polls, promotes and reattaches: while the call runs, milestones         *)
(* reference blocks and blocks become included (never the other way);     *)
(* the call returns once, either an error or a list of blocks among which *)
(* is one a milestone has referenced as included.                         *)
(***************************************************************************)
CONSTANT Blocks   \* block ids

VARIABLES
  outcome,   \* "running", "ok", "error"
  returned,  \* the ids of the blocks an Ok result returns
  included   \* the blocks referenced as Included or NoTransaction

vars == <<outcome, returned, included>>

Init ==
  /\ outcome = "running"
  /\ returned = {}
  /\ included = {}

\* A milestone references a block as included; that state is final.
Include ==
  /\ \E b \in Blocks \ included : included' = included \cup {b}
  /\ UNCHANGED <<outcome, returned>>

\* The call returns blocks of which at least one is included.
ReturnOk ==
  /\ outcome = "running"
  /\ \E R \in SUBSET Blocks : R \cap included # {} /\ returned' = R
  /\ outcome' = "ok"
  /\ UNCHANGED included

\* The call fails.
ReturnError ==
  /\ outcome = "running"
  /\ outcome' = "error"
  /\ UNCHANGED <<returned, included>>

Next == Include \/ ReturnOk \/ ReturnError

Safety == Init /\ [][Next]_vars

\* The call returns.
Spec == Safety /\ WF_vars(ReturnOk \/ ReturnError)

=============================================================================
