-------------------------------- MODULE MCLog ---------------------------------
(***************************************************************************)
(* The instance of Log for TLC.  One log and two workloads, because both   *)
(* at once would be too many states: calls that write up to two blocks of  *)
(* two, with new contents, and calls that write one block each, of all,    *)
(* until the log is full.                                                  *)
(***************************************************************************)
EXTENDS Log

CONSTANT Few    \* two of the blocks

VARIABLE workload

AtomicWork == \A o \in Ops : wrote'[o] \subseteq Few
SpaceWork ==
    /\ \A o \in Ops : Cardinality(wrote'[o]) <= 1
    /\ \A b \in Blocks : cache'[b] = InitVal

WorkInit == Init /\ workload \in {"atomic", "space"}
WorkNext ==
    /\ Next /\ UNCHANGED workload
    /\ workload = "atomic" => AtomicWork
    /\ workload = "space" => SpaceWork

WorkSpec == WorkInit /\ [][WorkNext]_<<vars, workload>> /\ Fairness
===============================================================================
