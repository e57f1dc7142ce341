-------------------------------- MODULE Checks --------------------------------
(***************************************************************************)
(* A routine that makes one check after another and returns at the first   *)
(* that fails is modelled by the sequence of its checks, each a            *)
(* <<holds, reason>> pair, in the order the code makes them.               *)
(***************************************************************************)
EXTENDS Integers, Sequences, FiniteSetsExt

AllHold(checks) == \A i \in DOMAIN checks : checks[i][1]

\* The reason of the first check that fails.
FirstFailure(checks) ==
  checks[Min({i \in DOMAIN checks : ~checks[i][1]})][2]
=============================================================================
