--------------------------- MODULE GraphAdmission ---------------------------
(***************************************************************************)
(* What every traversal of a value graph promises: one verdict about the   *)
(* whole graph.  A graph is accepted exactly when it overruns no limit,    *)
(* and rejected only for a limit the whole graph overruns, however little  *)
(* of it was visited before the answer.                                    *)
(***************************************************************************)
CONSTANT Overruns(_, _)   \* the limits a graph is over, by their names

VARIABLES tree, limits, verdict
vars == <<tree, limits, verdict>>

\* Any graph and any limits; they do not change under way.
Init == verdict = "running"

Accept ==
  /\ verdict = "running"
  /\ Overruns(tree, limits) = {}
  /\ verdict' = "accepted"
  /\ UNCHANGED <<tree, limits>>

Reject ==
  /\ verdict = "running"
  /\ verdict' \in Overruns(tree, limits)
  /\ UNCHANGED <<tree, limits>>

Next == Accept \/ Reject
Spec == Init /\ [][Next]_vars /\ WF_vars(Next)
=============================================================================
