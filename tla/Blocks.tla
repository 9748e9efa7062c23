-------------------------------- MODULE Blocks --------------------------------
(***************************************************************************)
(* What the buffer cache promises (bio.c): one thread at a time holds a    *)
(* block, and it finds in it what the last holder left.                    *)
(***************************************************************************)
CONSTANTS Threads, Nums, Vals

VARIABLES
    val,       \* per block: its contents
    holders    \* per block: the threads that hold it

BlocksInit == val \in [Nums -> Vals] /\ holders = [b \in Nums |-> {}]

Hold(t, b) ==
    /\ holders[b] = {}
    /\ holders' = [holders EXCEPT ![b] = {t}]
    /\ UNCHANGED val

Change(t, b) ==
    /\ t \in holders[b]
    /\ \E v \in Vals : val' = [val EXCEPT ![b] = v]
    /\ UNCHANGED holders

Release(t, b) ==
    /\ t \in holders[b]
    /\ holders' = [holders EXCEPT ![b] = {}]
    /\ UNCHANGED val

BlocksNext == \E t \in Threads, b \in Nums : Hold(t, b) \/ Change(t, b) \/ Release(t, b)

BlocksSpec == BlocksInit /\ [][BlocksNext]_<<val, holders>>
===============================================================================
