------------------------------ MODULE LogProofs -------------------------------
(***************************************************************************)
(* Proofs about Log: the space that begin_op reserves covers every write   *)
(* of the admitted calls, for any number of threads, blocks and any sizes, *)
(* and hence log_write never panics.                                       *)
(***************************************************************************)
EXTENDS Log, FiniteSetTheorems, TLAPS

(* What is reserved is finite, and no call has more than MAXOPBLOCKS of it. *)
LEMMA ReservationBound ==
    ASSUME NEW calls \in SUBSET Ops, NEW written
    PROVE  /\ IsFiniteSet(calls) /\ Cardinality(calls) \in Nat
           /\ IsFiniteSet(Reservation(calls, written))
           /\ Cardinality(Reservation(calls, written)) \in Nat
           /\ Cardinality(Reservation(calls, written)) <= Cardinality(calls) * MAXOPBLOCKS
<1>1. IsFiniteSet(calls)
  BY FS_Subset, LogConstants
<1>2. /\ IsFiniteSet(1 .. MAXOPBLOCKS)
      /\ Cardinality(1 .. MAXOPBLOCKS) = MAXOPBLOCKS
  BY FS_Interval, LogConstants
<1>3. /\ IsFiniteSet(calls \X (1 .. MAXOPBLOCKS))
      /\ Cardinality(calls \X (1 .. MAXOPBLOCKS)) = Cardinality(calls) * MAXOPBLOCKS
  BY <1>1, <1>2, FS_Product
<1>4. Reservation(calls, written) \in SUBSET (calls \X (1 .. MAXOPBLOCKS))
  BY DEF Reservation
<1>5. /\ IsFiniteSet(Reservation(calls, written))
      /\ Cardinality(Reservation(calls, written)) <= Cardinality(calls) * MAXOPBLOCKS
  BY <1>3, <1>4, FS_Subset
<1> QED
  BY <1>1, <1>5, FS_CardinalityType

LEMMA InReservation ==
    ASSUME NEW calls, NEW written, NEW q \in calls, NEW k \in 1 .. MAXOPBLOCKS
    PROVE  <<q, k>> \in Reservation(calls, written) <=> k > Cardinality(written[q])
BY DEF Reservation

LEMMA ReservedFinite ==
    /\ Active \in SUBSET Ops
    /\ IsFiniteSet(Active) /\ Cardinality(Active) \in Nat
    /\ IsFiniteSet(Reserved) /\ Cardinality(Reserved) \in Nat
<1>1. Active \in SUBSET Ops
  BY DEF Active
<1> QED
  BY <1>1, ReservationBound DEF Reserved

(* The initial state. *)
LEMMA LogInvInit == Init => LogInv
<1> SUFFICES ASSUME Init PROVE LogInv
  OBVIOUS
<1>1. Active = {} /\ Reserved = {}
  BY DEF Init, Active, Reserved, Reservation
<1>2. Cardinality({}) = 0 /\ IsFiniteSet({})
  BY FS_EmptySet
<1>3. TypeOK
  <2>1. /\ outstanding \in Nat /\ committing \in BOOLEAN /\ panicked \in BOOLEAN
        /\ op \in [Ops -> OpStates] /\ wrote \in [Ops -> SUBSET Blocks]
        /\ phase \in Phases /\ tail \in Nat /\ pinned \subseteq Blocks
    BY DEF Init, OpStates, Phases, RecoveryPhases
  <2>2. lh \in Seq(Blocks) /\ head \in Seq(Blocks)
    BY DEF Init
  <2>3. /\ cache \in [Blocks -> Vals] /\ home \in [Blocks -> Vals]
        /\ area \in [1 .. LOGSIZE -> Vals]
    BY LogConstants DEF Init
  <2> QED
    BY <2>1, <2>2, <2>3 DEF TypeOK
<1>4. PhaseInv
  BY <1>1, <1>2, LogConstants DEF Init, PhaseInv, CommitPhases
<1>5. WroteInv
  BY <1>1, <1>2, LogConstants DEF Init, WroteInv
<1>6. SpaceReserved
  BY <1>1, <1>2, LogConstants DEF Init, SpaceReserved
<1> QED
  BY <1>3, <1>4, <1>5, <1>6 DEF LogInv

(* begin_op: the admitted call gets MAXOPBLOCKS on top of the log and of   *)
(* the full reservation of the calls in progress.                          *)
LEMMA BeginOpInv ==
    ASSUME LogInv, NEW o \in Ops, begin_op(o)
    PROVE  LogInv'
<1> USE DEF LogInv
<1>1. TypeOK'
  BY DEF begin_op, TypeOK, OpStates, disk
<1>2. CASE ~Admit
  <2>1. Active' = Active
    BY <1>2 DEF begin_op, Active, TypeOK
  <2>2. Reserved' = Reserved
    BY <2>1 DEF begin_op, Reserved
  <2>3. PhaseInv' /\ WroteInv' /\ SpaceReserved'
    BY <1>2, <2>1, <2>2 DEF begin_op, PhaseInv, WroteInv, SpaceReserved, Logged, disk
  <2> QED
    BY <1>1, <2>3
<1>3. CASE Admit
  <2>1. Active' = Active \cup {o} /\ o \notin Active
    BY <1>3 DEF begin_op, Active, TypeOK
  <2>2. phase = "run"
    BY <1>3 DEF begin_op, Admit, PhaseInv, TypeOK, Phases
  <2>3. Cardinality(Active') = Cardinality(Active) + 1
    BY <2>1, ReservedFinite, FS_AddElement
  <2>4. PhaseInv'
    BY <1>3, <2>2, <2>3, ReservedFinite DEF begin_op, PhaseInv, disk
  <2>5. WroteInv'
    BY <1>3, <2>1 DEF begin_op, WroteInv, Logged
  <2>6. Cardinality(Reserved') <= Cardinality(Active') * MAXOPBLOCKS
    BY <2>1, ReservedFinite, ReservationBound DEF Reserved
  <2>7. SpaceReserved'
    <3>1. Len(lh') + (Cardinality(Active) + 1) * MAXOPBLOCKS <= LOGSIZE
      BY <1>3 DEF begin_op, Admit, PhaseInv
    <3>2. Cardinality(Reserved') \in Nat
      BY <2>1, ReservedFinite, ReservationBound DEF Reserved
    <3>3. Len(lh') \in Nat
      BY <1>1 DEF TypeOK
    <3>4. Cardinality(Active') * MAXOPBLOCKS = (Cardinality(Active) + 1) * MAXOPBLOCKS
      BY <2>3
    <3> QED
      BY <2>6, <3>1, <3>2, <3>3, <3>4, ReservedFinite, LogConstants DEF SpaceReserved
  <2> QED
    BY <1>1, <2>4, <2>5, <2>7
<1> QED
  BY <1>2, <1>3

(* log_write: a block new to the call uses up one reserved block; a block  *)
(* the call wrote before is in the log already and is absorbed.            *)
LEMMA LogWriteInv ==
    ASSUME LogInv, NEW o \in Ops, NEW b \in Blocks, NEW v \in Vals, log_write(o, b, v)
    PROVE  LogInv'
<1> USE DEF LogInv
<1>1. Active' = Active /\ o \in Active
  BY DEF log_write, Active, mem, TypeOK
<1>2. CASE Full \/ outstanding < 1
  <2>1. UNCHANGED <<mem, disk>> /\ panicked' = TRUE
    BY <1>2 DEF log_write
  <2>2. TypeOK'
    BY <2>1 DEF mem, disk, TypeOK
  <2>3. PhaseInv' /\ WroteInv' /\ SpaceReserved'
    BY <1>1, <2>1 DEF mem, disk, PhaseInv, WroteInv, SpaceReserved, Reserved, Logged
  <2> QED
    BY <2>2, <2>3
<1>3. CASE ~(Full \/ outstanding < 1)
  <2>1. /\ cache' = [cache EXCEPT ![b] = v]
        /\ lh' = IF b \in Logged THEN lh ELSE Append(lh, b)
        /\ pinned' = pinned \cup {b}
        /\ wrote' = [wrote EXCEPT ![o] = @ \cup {b}]
        /\ UNCHANGED <<outstanding, committing, op, phase, tail, panicked, disk>>
    BY <1>3 DEF log_write
  <2>2. TypeOK'
    BY <2>1 DEF TypeOK, disk
  <2>3. PhaseInv'
    BY <1>1, <2>1 DEF PhaseInv, disk
  <2>4. Logged' = Logged \cup {b}
    <3>1. CASE b \in Logged
      BY <2>1, <3>1 DEF Logged
    <3>2. CASE b \notin Logged
      <4>1. lh \in Seq(Blocks) /\ lh' = Append(lh, b)
        BY <2>1, <3>2 DEF TypeOK
      <4> QED
        BY <4>1 DEF Logged
    <3> QED
      BY <3>1, <3>2
  <2>5. IsFiniteSet(wrote[o]) /\ Cardinality(wrote[o]) \in Nat
    BY FS_CardinalityType DEF WroteInv
  <2>6. /\ IsFiniteSet(wrote'[o])
        /\ wrote'[o] = wrote[o] \cup {b}
        /\ Cardinality(wrote'[o]) =
             IF b \in wrote[o] THEN Cardinality(wrote[o]) ELSE Cardinality(wrote[o]) + 1
    BY <2>1, <2>5, FS_AddElement DEF TypeOK
  <2>7. b \in wrote[o] \/ Cardinality(wrote[o]) < OpBlocks
    BY DEF log_write
  <2>8. WroteInv'
    <3> SUFFICES ASSUME NEW q \in Ops
                 PROVE  /\ IsFiniteSet(wrote'[q])
                        /\ Cardinality(wrote'[q]) <= OpBlocks
                        /\ wrote'[q] \subseteq (IF q \in Active' THEN Logged' ELSE {})
      BY DEF WroteInv
    <3>1. CASE q = o
      <4>1. wrote[o] \subseteq Logged /\ Cardinality(wrote[o]) <= OpBlocks
        BY <1>1 DEF WroteInv
      <4>2. Cardinality(wrote'[o]) <= OpBlocks
        BY <2>5, <2>6, <2>7, <4>1, LogConstants
      <4>3. wrote'[o] \subseteq Logged'
        BY <2>4, <2>6, <4>1
      <4> QED
        BY <1>1, <2>6, <3>1, <4>2, <4>3
    <3>2. CASE q # o
      BY <1>1, <2>1, <2>4, <3>2 DEF WroteInv, TypeOK
    <3> QED
      BY <3>1, <3>2
  <2>9. SpaceReserved'
    <3>1. CASE b \in wrote[o]
      <4>1. wrote' = wrote /\ lh' = lh
        BY <1>1, <2>1, <3>1 DEF WroteInv, TypeOK
      <4> QED
        BY <1>1, <4>1 DEF SpaceReserved, Reserved
    <3>2. CASE b \notin wrote[o]
      <4> DEFINE used == <<o, Cardinality(wrote[o]) + 1>>
      <4>1. Cardinality(wrote[o]) + 1 \in 1 .. MAXOPBLOCKS
        BY <2>5, <2>7, <3>2, LogConstants
      <4>2. used \in Reserved
        BY <1>1, <2>5, <4>1 DEF Reserved, Reservation
      <4>3. Reserved' = Reserved \ {used}
        <5>1. \A q \in Ops : q # o => wrote'[q] = wrote[q]
          BY <2>1 DEF TypeOK
        <5>2. \A q \in Active, k \in 1 .. MAXOPBLOCKS :
                  <<q, k>> \in Reserved' <=> <<q, k>> \in Reserved \ {used}
          <6> TAKE q \in Active, k \in 1 .. MAXOPBLOCKS
          <6>1. /\ <<q, k>> \in Reserved' <=> k > Cardinality(wrote'[q])
                /\ <<q, k>> \in Reserved <=> k > Cardinality(wrote[q])
            BY <1>1, InReservation DEF Reserved
          <6>2. CASE q = o
            <7>1. Cardinality(wrote'[q]) = Cardinality(wrote[o]) + 1
              BY <2>6, <3>2, <6>2
            <7>2. k > Cardinality(wrote[o]) + 1 <=> k > Cardinality(wrote[o]) /\ k # Cardinality(wrote[o]) + 1
              BY <2>5
            <7> QED
              BY <6>1, <6>2, <7>1, <7>2
          <6>3. CASE q # o
            BY <5>1, <6>1, <6>3 DEF Active
          <6> QED
            BY <6>2, <6>3
        <5>3. /\ Reserved' \subseteq Active \X (1 .. MAXOPBLOCKS)
              /\ Reserved \subseteq Active \X (1 .. MAXOPBLOCKS)
          BY <1>1 DEF Reserved, Reservation
        <5> QED
          BY <5>2, <5>3
      <4>4. Cardinality(Reserved') = Cardinality(Reserved) - 1
        <5>1. IsFiniteSet(Reserved)
          BY ReservedFinite
        <5>2. Cardinality(Reserved \ {used}) = Cardinality(Reserved) - 1
          BY <4>2, <5>1, FS_RemoveElement
        <5> QED
          BY <4>3, <5>2
      <4>5. Len(lh) \in Nat /\ Len(lh') <= Len(lh) + 1 /\ Len(lh') \in Nat
        BY <2>1 DEF TypeOK
      <4> QED
        BY <4>4, <4>5, ReservedFinite, LogConstants DEF SpaceReserved
    <3> QED
      BY <3>1, <3>2
  <2> QED
    BY <2>2, <2>3, <2>8, <2>9
<1> QED
  BY <1>2, <1>3

(* end_op: what the call had reserved and not used is given back. *)
LEMMA EndOpInv ==
    ASSUME LogInv, NEW o \in Ops, end_op(o)
    PROVE  LogInv'
<1> USE DEF LogInv
<1>1. o \in Active /\ phase = "run" /\ committing = FALSE
  BY DEF end_op, Active, PhaseInv, TypeOK, CommitPhases
<1>2. Active' = Active \ {o}
  BY DEF end_op, Active, Wake, TypeOK
<1>3. /\ Cardinality(Active') = outstanding - 1
      /\ outstanding \in Nat /\ outstanding >= 1
  <2>1. IsFiniteSet(Active) /\ Cardinality(Active) = outstanding /\ outstanding \in Nat
    BY ReservedFinite DEF PhaseInv, TypeOK
  <2>2. IsFiniteSet(Active \ {o}) /\ Cardinality(Active \ {o}) = Cardinality(Active) - 1
    BY <1>1, <2>1, FS_RemoveElement
  <2>3. Cardinality(Active \ {o}) \in Nat
    BY <2>2, FS_CardinalityType
  <2> QED
    BY <1>2, <2>1, <2>2, <2>3
<1>4. TypeOK'
  <2>1. op' \in [Ops -> OpStates]
    BY DEF end_op, Wake, OpStates, TypeOK
  <2>2. phase' \in Phases /\ tail' \in Nat /\ committing' \in BOOLEAN
    <3>1. CASE outstanding = 1
      BY <3>1 DEF end_op, Phases, CommitPhases
    <3>2. CASE outstanding # 1
      BY <3>2 DEF end_op, TypeOK
    <3> QED
      BY <3>1, <3>2
  <2>3. outstanding' \in Nat /\ panicked' \in BOOLEAN /\ wrote' \in [Ops -> SUBSET Blocks]
    BY <1>1, <1>3 DEF end_op, TypeOK
  <2> QED
    BY <2>1, <2>2, <2>3 DEF end_op, TypeOK, disk
<1>5. PhaseInv'
  <2>1. CASE outstanding = 1
    <3>1. Active' = {}
      BY <1>2, <1>3, <2>1, ReservedFinite, FS_EmptySet, FS_RemoveElement
    <3> QED
      BY <1>3, <2>1, <3>1 DEF end_op, PhaseInv, CommitPhases, disk
  <2>2. CASE outstanding # 1
    BY <1>1, <1>3, <2>2 DEF end_op, PhaseInv, CommitPhases, disk
  <2> QED
    BY <2>1, <2>2
<1>6. WroteInv'
  <2> SUFFICES ASSUME NEW q \in Ops
               PROVE  /\ IsFiniteSet(wrote'[q])
                      /\ Cardinality(wrote'[q]) <= OpBlocks
                      /\ wrote'[q] \subseteq (IF q \in Active' THEN Logged' ELSE {})
    BY DEF WroteInv
  <2>1. CASE q = o
    BY <2>1, FS_EmptySet, LogConstants DEF end_op, TypeOK
  <2>2. CASE q # o
    BY <1>2, <2>2 DEF end_op, WroteInv, TypeOK, Logged
  <2> QED
    BY <2>1, <2>2
<1>7. SpaceReserved'
  <2>1. \A q \in Active' : wrote'[q] = wrote[q]
    BY <1>2 DEF end_op, TypeOK, Active
  <2>2. Reserved' \in SUBSET Reserved
    BY <1>2, <2>1 DEF Reserved, Reservation
  <2>3. IsFiniteSet(Reserved') /\ Cardinality(Reserved') <= Cardinality(Reserved)
    BY <2>2, ReservedFinite, FS_Subset
  <2>4. Cardinality(Reserved') \in Nat
    BY <2>3, FS_CardinalityType
  <2> QED
    BY <2>3, <2>4, ReservedFinite, LogConstants DEF SpaceReserved, TypeOK, end_op
<1> QED
  BY <1>4, <1>5, <1>6, <1>7

(* A committer's or recovery's step moves blocks while no call is in       *)
(* progress, and leaves at most LOGSIZE blocks in the log.                 *)
LEMMA NoCallsInv ==
    ASSUME LogInv, Active = {}, TypeOK',
           UNCHANGED wrote, Active' = {}, UNCHANGED outstanding,
           Len(lh') <= LOGSIZE, Len(head') <= LOGSIZE,
           committing' <=> phase' \in CommitPhases
    PROVE  LogInv'
<1> USE DEF LogInv
<1>1. PhaseInv'
  BY DEF PhaseInv
<1>2. WroteInv'
  BY DEF WroteInv
<1>3. Reserved' = {}
  BY DEF Reserved, Reservation
<1>4. SpaceReserved'
  BY <1>3, FS_EmptySet DEF SpaceReserved, TypeOK
<1> QED
  BY <1>1, <1>2, <1>4

LEMMA LogLengths ==
    ASSUME LogInv
    PROVE  Len(lh) \in Nat /\ Len(lh) <= LOGSIZE /\ Len(head) \in Nat /\ Len(head) <= LOGSIZE
BY ReservedFinite, LogConstants DEF LogInv, TypeOK, PhaseInv, SpaceReserved

LEMMA CommitInv ==
    ASSUME LogInv, Commit
    PROVE  LogInv'
<1> USE DEF LogInv
<1>1. CASE write_log
  <2>1. Active = {} /\ Active' = {}
    BY <1>1 DEF write_log, PhaseInv, Active
  <2>2. tail + 1 \in 1 .. LOGSIZE /\ lh[tail + 1] \in Blocks
    BY <1>1, LogLengths, LogConstants DEF write_log, TypeOK
  <2>3. area' \in [1 .. LOGSIZE -> Vals]
    BY <1>1, <2>2 DEF write_log, TypeOK
  <2>4. TypeOK'
    BY <1>1, <2>3 DEF write_log, TypeOK
  <2> QED
    BY <1>1, <2>1, <2>4, NoCallsInv, LogLengths DEF write_log, PhaseInv
<1>2. CASE write_head
  <2>1. Active = {} /\ Active' = {}
    BY <1>2 DEF write_head, PhaseInv, Active
  <2>2. TypeOK'
    BY <1>2 DEF write_head, TypeOK, Phases, CommitPhases
  <2>3. committing' <=> phase' \in CommitPhases
    BY <1>2 DEF write_head, PhaseInv, CommitPhases
  <2> QED
    BY <1>2, <2>1, <2>2, <2>3, NoCallsInv, LogLengths DEF write_head
<1>3. CASE install_trans
  <2>1. Active = {} /\ Active' = {}
    BY <1>3 DEF install_trans, PhaseInv, Active
  <2>2. tail + 1 \in 1 .. LOGSIZE /\ lh[tail + 1] \in Blocks
    BY <1>3, LogLengths, LogConstants DEF install_trans, TypeOK
  <2>3. area[tail + 1] \in Vals
    BY <2>2 DEF TypeOK
  <2>4. TypeOK'
    BY <1>3, <2>2, <2>3 DEF install_trans, TypeOK
  <2> QED
    BY <1>3, <2>1, <2>4, NoCallsInv, LogLengths DEF install_trans, PhaseInv
<1>4. CASE erase_head
  <2>1. Active = {} /\ Active' = {}
    BY <1>4 DEF erase_head, PhaseInv, Active
  <2>2. TypeOK'
    BY <1>4 DEF erase_head, TypeOK, Phases, CommitPhases
  <2>3. committing' <=> phase' \in CommitPhases
    BY <1>4 DEF erase_head, PhaseInv, CommitPhases
  <2>4. Len(lh') = 0 /\ Len(head') = 0
    BY <1>4 DEF erase_head
  <2> QED
    BY <1>4, <2>1, <2>2, <2>3, <2>4, NoCallsInv, LogConstants DEF erase_head
<1>5. ASSUME NEW o \in Ops, finish(o) PROVE LogInv'
  <2>1. Active = {} /\ Active' = {}
    BY <1>5 DEF finish, PhaseInv, Active, Wake, TypeOK
  <2>2. op' \in [Ops -> OpStates]
    BY <1>5 DEF finish, Wake, OpStates, TypeOK
  <2>3. TypeOK'
    BY <1>5, <2>2 DEF finish, TypeOK, disk, Phases
  <2>4. committing' <=> phase' \in CommitPhases
    BY <1>5 DEF finish, CommitPhases
  <2> QED
    BY <1>5, <2>1, <2>3, <2>4, NoCallsInv, LogLengths DEF finish, disk
<1> QED
  BY <1>1, <1>2, <1>3, <1>4, <1>5 DEF Commit

LEMMA RebootInv ==
    ASSUME LogInv, Crash \/ read_head
    PROVE  LogInv'
<1> USE DEF LogInv
<1>1. CASE Crash
  <2>1. Active' = {} /\ Reserved' = {}
    BY <1>1 DEF Crash, Active, Reserved, Reservation
  <2>2. TypeOK'
    <3>1. /\ outstanding' \in Nat /\ committing' \in BOOLEAN
          /\ op' \in [Ops -> OpStates] /\ wrote' \in [Ops -> SUBSET Blocks]
          /\ phase' \in Phases /\ tail' \in Nat
      BY <1>1 DEF Crash, OpStates, Phases, RecoveryPhases
    <3>2. lh' \in Seq(Blocks)
      BY <1>1 DEF Crash
    <3> QED
      BY <1>1, <3>1, <3>2 DEF Crash, TypeOK, disk
  <2>3. PhaseInv'
    BY <1>1, <2>1, FS_EmptySet DEF Crash, PhaseInv, CommitPhases, disk
  <2>4. WroteInv'
    BY <1>1, FS_EmptySet, LogConstants DEF Crash, WroteInv
  <2>5. Len(lh') = 0
    BY <1>1 DEF Crash
  <2>6. SpaceReserved'
    BY <2>1, <2>5, FS_EmptySet, LogConstants DEF SpaceReserved
  <2> QED
    BY <2>2, <2>3, <2>4, <2>6
<1>2. CASE read_head
  <2>1. Active = {} /\ Active' = {}
    BY <1>2 DEF read_head, PhaseInv, Active
  <2>2. TypeOK'
    BY <1>2 DEF read_head, TypeOK, Phases, RecoveryPhases, disk
  <2>3. committing' <=> phase' \in CommitPhases
    BY <1>2 DEF read_head, PhaseInv, CommitPhases
  <2> QED
    BY <1>2, <2>1, <2>2, <2>3, NoCallsInv, LogLengths DEF read_head, disk
<1> QED
  BY <1>1, <1>2

LEMMA EvictInv ==
    ASSUME LogInv, NEW b \in Blocks, Evict(b)
    PROVE  LogInv'
<1>1. TypeOK'
  BY DEF Evict, LogInv, TypeOK, disk
<1> QED
  BY <1>1 DEF Evict, LogInv, PhaseInv, WroteInv, SpaceReserved, Reserved, Active, Logged, disk

(* Every step keeps the invariant. *)
LEMMA LogInvStep == LogInv /\ [Next]_vars => LogInv'
<1> SUFFICES ASSUME LogInv, [Next]_vars PROVE LogInv'
  OBVIOUS
<1>1. CASE UNCHANGED vars
  BY <1>1 DEF vars, mem, disk, LogInv, TypeOK, PhaseInv, WroteInv, SpaceReserved,
              Reserved, Active, Logged
<1>2. CASE Next
  <2>1. ASSUME NEW o \in Ops, begin_op(o) PROVE LogInv'
    BY <2>1, BeginOpInv
  <2>2. ASSUME NEW o \in Ops, end_op(o) PROVE LogInv'
    BY <2>2, EndOpInv
  <2>3. ASSUME NEW o \in Ops, NEW b \in Blocks, NEW v \in Vals, log_write(o, b, v)
        PROVE  LogInv'
    BY <2>3, LogWriteInv
  <2>4. ASSUME Commit PROVE LogInv'
    BY <2>4, CommitInv
  <2>5. ASSUME Crash \/ read_head PROVE LogInv'
    BY <2>5, RebootInv
  <2>6. ASSUME NEW b \in Blocks, Evict(b) PROVE LogInv'
    BY <2>6, EvictInv
  <2> QED
    BY <1>2, <2>1, <2>2, <2>3, <2>4, <2>5, <2>6 DEF Next, Commit
<1> QED
  BY <1>1, <1>2

THEOREM LogInvariant == Spec => []LogInv
<1> QED
  BY LogInvInit, LogInvStep, PTL DEF Spec

(* The variables of log.c keep their types, and outstanding never goes     *)
(* below zero, whatever the number of threads and crashes.                 *)
THEOREM TypeCorrect == Spec => []TypeOK
<1>1. LogInv => TypeOK
  BY DEF LogInv
<1> QED
  BY <1>1, LogInvariant, PTL

(* begin_op's admission test keeps enough space for every call it admits.  *)
THEOREM SpaceIsReserved == Spec => []SpaceReserved
<1>1. LogInv => SpaceReserved
  BY DEF LogInv
<1> QED
  BY <1>1, LogInvariant, PTL

(* If calls leave the slack log_write's test needs, no panic of log.c is   *)
(* ever reached: neither "too big a transaction", nor "log_write outside   *)
(* of trans", nor "log.committing".                                        *)
LEMMA NoPanicStep ==
    ASSUME CallsFit, LogInv, NoPanic, [Next]_vars
    PROVE  NoPanic'
<1> USE DEF LogInv, NoPanic
<1>1. CASE UNCHANGED vars
  BY <1>1 DEF vars
<1>2. ASSUME NEW o \in Ops, NEW b \in Blocks, NEW v \in Vals, log_write(o, b, v)
      PROVE  ~panicked'
  <2>1. o \in Active
    BY <1>2 DEF log_write, Active
  <2>2. IsFiniteSet(wrote[o]) /\ Cardinality(wrote[o]) \in Nat /\ Cardinality(wrote[o]) <= OpBlocks
    BY FS_CardinalityType DEF WroteInv
  <2>3. outstanding >= 1
    <3>1. Cardinality(Active) # 0
      BY <2>1, ReservedFinite, FS_EmptySet
    <3> QED
      BY <3>1, ReservedFinite DEF PhaseInv
  <2>4. Cardinality(Reserved) >= MAXOPBLOCKS - OpBlocks
    <3> DEFINE spare == {o} \X ((OpBlocks + 1) .. MAXOPBLOCKS)
    <3>1. /\ IsFiniteSet({o}) /\ Cardinality({o}) = 1
          /\ IsFiniteSet((OpBlocks + 1) .. MAXOPBLOCKS)
          /\ Cardinality((OpBlocks + 1) .. MAXOPBLOCKS) = MAXOPBLOCKS - OpBlocks
      <4>1. IsFiniteSet({o}) /\ Cardinality({o}) = 1
        BY FS_Singleton
      <4>2. OpBlocks + 1 \in Int /\ MAXOPBLOCKS \in Int /\ OpBlocks + 1 <= MAXOPBLOCKS
        BY LogConstants DEF CallsFit
      <4>3. /\ IsFiniteSet((OpBlocks + 1) .. MAXOPBLOCKS)
            /\ Cardinality((OpBlocks + 1) .. MAXOPBLOCKS) =
                 IF OpBlocks + 1 > MAXOPBLOCKS THEN 0 ELSE MAXOPBLOCKS - (OpBlocks + 1) + 1
        BY <4>2, FS_Interval
      <4> QED
        BY <4>1, <4>2, <4>3, LogConstants
    <3>2. Cardinality(spare) = MAXOPBLOCKS - OpBlocks
      <4>1. Cardinality(spare) = Cardinality({o}) * Cardinality((OpBlocks + 1) .. MAXOPBLOCKS)
        BY <3>1, FS_Product
      <4>2. MAXOPBLOCKS - OpBlocks \in Int
        BY LogConstants
      <4> HIDE DEF spare
      <4> QED
        BY <3>1, <4>1, <4>2
    <3>3. spare \in SUBSET Reserved
      BY <2>1, <2>2, LogConstants DEF Reserved, Reservation
    <3>4. Cardinality(spare) <= Cardinality(Reserved)
      BY <3>3, ReservedFinite, FS_Subset
    <3> HIDE DEF spare
    <3> QED
      BY <3>2, <3>4, ReservedFinite, LogConstants
  <2>5. Len(lh) \in Nat /\ Len(lh) <= LOGSIZE - (MAXOPBLOCKS - OpBlocks)
    BY <2>4, ReservedFinite, LogConstants DEF SpaceReserved, TypeOK
  <2>6. ~Full
    BY <2>5, LogConstants DEF Full, CallsFit
  <2> QED
    BY <1>2, <2>3, <2>6 DEF log_write, PhaseInv, TypeOK
<1>3. ASSUME NEW o \in Ops, end_op(o) PROVE ~panicked'
  <2>1. Active # {}
    BY <1>3 DEF end_op, Active
  <2> QED
    BY <1>3, <2>1 DEF end_op, PhaseInv, CommitPhases
<1> QED
  BY <1>1, <1>2, <1>3
     DEF Next, begin_op, write_log, write_head, install_trans, erase_head, finish,
         read_head, Evict, Crash

THEOREM LogNeverPanics == CallsFit => (Spec => []NoPanic)
<1> SUFFICES ASSUME CallsFit PROVE Spec => []NoPanic
  OBVIOUS
<1>1. Init => NoPanic
  BY DEF Init, NoPanic
<1>2. LogInv /\ NoPanic /\ [Next]_vars => NoPanic'
  BY NoPanicStep
<1> QED
  BY <1>1, <1>2, LogInvariant, PTL DEF Spec
-------------------------------------------------------------------------------
(***************************************************************************)
(* What the disk, the log and the buffers have to do with each other in    *)
(* each phase.  While nothing is committed the header is empty, and home   *)
(* has all that the log has not; write_log fills the log area; from the    *)
(* commit point on the header is the log, and home gets one block after    *)
(* the other.  A logged block is there once: the bunpin of one must not    *)
(* take the pin that another still needs.                                  *)
(***************************************************************************)
Distinct(s) == \A i, j \in 1 .. Len(s) : s[i] = s[j] => i = j

HeadInv ==
    /\ phase \in {"run", "write_log", "finish"} => head = <<>>
    /\ phase \in {"install", "replay"} => head = lh

TailInv == phase \in {"write_log", "install", "replay"} => tail <= Len(lh)

WrittenInv ==
    /\ phase = "write_log" => \A i \in 1 .. tail : area[i] = cache[lh[i]]
    /\ phase = "install" => \A i \in 1 .. Len(lh) : area[i] = cache[lh[i]]
    /\ phase \in {"install", "replay"} => \A i \in 1 .. tail : home[lh[i]] = area[i]

CacheInv ==
    /\ phase \in RecoveryPhases => pinned = {} /\ cache = home
    /\ phase \notin RecoveryPhases => \A b \in Blocks \ Logged : cache[b] = home[b]

DiskInv ==
    /\ Distinct(lh) /\ Distinct(head)
    /\ HeadInv /\ TailInv /\ WrittenInv /\ CacheInv
    /\ PinsMatchLog

LEMMA DiskInvInit == Init => DiskInv
BY DEF Init, DiskInv, Distinct, HeadInv, TailInv, WrittenInv, CacheInv, PinsMatchLog,
       RecoveryPhases

(* Calls run in phase "run" only, with an empty header. *)
LEMMA CallsRun ==
    ASSUME LogInv, NEW o \in Ops, op[o] = "in"
    PROVE  phase = "run" /\ ~committing
BY DEF LogInv, PhaseInv, Active, CommitPhases

LEMMA BeginOpDisk ==
    ASSUME LogInv, DiskInv, NEW o \in Ops, begin_op(o)
    PROVE  DiskInv'
BY DEF DiskInv, begin_op, disk, Distinct, HeadInv, TailInv, WrittenInv, CacheInv, PinsMatchLog, Logged

LEMMA LogWriteDisk ==
    ASSUME LogInv, DiskInv, NEW o \in Ops, NEW b \in Blocks, NEW v \in Vals, log_write(o, b, v)
    PROVE  DiskInv'
<1>1. phase = "run" /\ lh \in Seq(Blocks) /\ cache \in [Blocks -> Vals]
  BY CallsRun DEF log_write, LogInv, TypeOK
<1>2. CASE Full \/ outstanding < 1
  BY <1>2 DEF log_write, mem, disk, DiskInv, Distinct, HeadInv, TailInv, WrittenInv,
              CacheInv, PinsMatchLog, Logged
<1>3. CASE ~(Full \/ outstanding < 1)
  <2>1. /\ cache' = [cache EXCEPT ![b] = v]
        /\ lh' = IF b \in Logged THEN lh ELSE Append(lh, b)
        /\ pinned' = pinned \cup {b}
        /\ UNCHANGED <<phase, tail, disk>>
    BY <1>3 DEF log_write
  <2>2. Logged' = Logged \cup {b} /\ Distinct(lh')
    <3>1. CASE b \in Logged
      BY <2>1, <3>1 DEF Logged, DiskInv
    <3>2. CASE b \notin Logged
      <4>1. lh' = Append(lh, b)
        BY <2>1, <3>2
      <4>2. /\ Len(lh') = Len(lh) + 1 /\ Len(lh) \in Nat
            /\ \A i \in 1 .. Len(lh) : lh'[i] = lh[i]
            /\ lh'[Len(lh) + 1] = b
        BY <1>1, <4>1
      <4>3. Distinct(lh')
        BY <3>2, <4>2 DEF Distinct, DiskInv, Logged
      <4> QED
        BY <4>2, <4>3 DEF Logged
    <3> QED
      BY <3>1, <3>2
  <2>3. pinned = Logged
    BY <1>1 DEF DiskInv, PinsMatchLog, RecoveryPhases, Logged
  <2>4. PinsMatchLog'
    BY <1>1, <2>1, <2>2, <2>3 DEF PinsMatchLog, Logged
  <2>5. CacheInv'
    BY <1>1, <2>1, <2>2 DEF CacheInv, DiskInv, RecoveryPhases, disk
  <2> QED
    BY <1>1, <2>1, <2>2, <2>4, <2>5 DEF DiskInv, HeadInv, TailInv, WrittenInv, disk
<1> QED
  BY <1>2, <1>3

LEMMA EndOpDisk ==
    ASSUME LogInv, DiskInv, NEW o \in Ops, end_op(o)
    PROVE  DiskInv'
<1>1. phase = "run" /\ UNCHANGED <<lh, cache, pinned, disk>>
  BY CallsRun DEF end_op
<1>2. \/ phase' = "run" /\ tail' = tail
      \/ phase' = "finish" /\ tail' = 0 /\ lh = <<>>
      \/ phase' = "write_log" /\ tail' = 0
  BY <1>1 DEF end_op
<1> QED
  BY <1>1, <1>2 DEF DiskInv, disk, Distinct, HeadInv, TailInv, WrittenInv, CacheInv,
                    PinsMatchLog, Logged, LogInv, TypeOK, RecoveryPhases

LEMMA WriteLogDisk ==
    ASSUME LogInv, DiskInv, write_log
    PROVE  DiskInv'
<1>1. /\ phase = "write_log" /\ tail < Len(lh) /\ tail \in Nat
      /\ Len(lh) \in Nat /\ Len(lh) <= LOGSIZE /\ area \in [1 .. LOGSIZE -> Vals]
  BY LogLengths DEF write_log, LogInv, TypeOK
<1>2. \A i \in 1 .. tail' : area'[i] = cache[lh[i]]
  BY <1>1, LogConstants DEF write_log, DiskInv, WrittenInv
<1> QED
  BY <1>1, <1>2 DEF write_log, DiskInv, Distinct, HeadInv, TailInv, WrittenInv, CacheInv,
                    PinsMatchLog, Logged, RecoveryPhases

LEMMA WriteHeadDisk ==
    ASSUME LogInv, DiskInv, write_head
    PROVE  DiskInv'
<1>1. phase = "write_log" /\ phase' = "install" /\ tail = Len(lh) /\ tail' = 0 /\ Len(lh) \in Nat
  BY LogLengths DEF write_head
<1> QED
  BY <1>1 DEF write_head, DiskInv, Distinct, HeadInv, TailInv, WrittenInv, CacheInv,
              PinsMatchLog, Logged, RecoveryPhases

LEMMA InstallDisk ==
    ASSUME LogInv, DiskInv, install_trans
    PROVE  DiskInv'
<1> DEFINE b == lh[tail + 1]
<1>1. /\ phase \in {"install", "replay"} /\ tail < Len(lh) /\ tail \in Nat /\ tail' = tail + 1
      /\ Len(lh) \in Nat /\ lh \in Seq(Blocks) /\ b \in Blocks
      /\ home \in [Blocks -> Vals] /\ cache \in [Blocks -> Vals]
  BY LogLengths DEF install_trans, LogInv, TypeOK
<1>2. /\ home' = [home EXCEPT ![b] = area[tail + 1]]
      /\ cache' = [cache EXCEPT ![b] = area[tail + 1]]
      /\ pinned' = IF phase = "install" THEN pinned \ {b} ELSE pinned
      /\ UNCHANGED <<lh, phase, area, head>>
  BY DEF install_trans
<1>3. \A i \in 1 .. Len(lh) : lh[i] \in Blocks /\ (lh[i] = b <=> i = tail + 1)
  BY <1>1 DEF DiskInv, Distinct
<1>4. Distinct(lh)' /\ Distinct(head)' /\ HeadInv' /\ TailInv'
  BY <1>1, <1>2 DEF DiskInv, Distinct, HeadInv, TailInv
<1>5. WrittenInv'
  <2>1. \A i \in 1 .. tail : home'[lh[i]] = area[i]
    BY <1>1, <1>2, <1>3 DEF DiskInv, WrittenInv
  <2>2. home'[lh[tail + 1]] = area[tail + 1]
    BY <1>1, <1>2
  <2>3. \A i \in 1 .. tail' : home'[lh'[i]] = area'[i]
    BY <1>1, <1>2, <2>1, <2>2
  <2>4. phase = "install" => \A i \in 1 .. Len(lh) : area[i] = cache'[lh[i]]
    BY <1>1, <1>2, <1>3 DEF DiskInv, WrittenInv
  <2> QED
    BY <1>1, <1>2, <2>3, <2>4 DEF WrittenInv
<1>6. CacheInv'
  BY <1>1, <1>2 DEF DiskInv, CacheInv, Logged, RecoveryPhases
<1>7. PinsMatchLog'
  <2>1. CASE phase = "install"
    <3>1. pinned = {lh[i] : i \in (tail + 1) .. Len(lh)}
      BY <2>1 DEF DiskInv, PinsMatchLog, RecoveryPhases
    <3>2. pinned' = {lh[i] : i \in (tail + 2) .. Len(lh)}
      BY <1>1, <1>2, <1>3, <2>1, <3>1
    <3>3. tail' + 1 = tail + 2 /\ phase' = "install" /\ lh' = lh
      BY <1>1, <1>2, <2>1
    <3> QED
      BY <3>2, <3>3 DEF PinsMatchLog
  <2>2. CASE phase = "replay"
    BY <1>2, <2>2 DEF PinsMatchLog, RecoveryPhases
  <2> QED
    BY <1>1, <2>1, <2>2
<1> QED
  BY <1>4, <1>5, <1>6, <1>7 DEF DiskInv

(* When all is installed, home has what the log had. *)
LEMMA AllInstalled ==
    ASSUME LogInv, DiskInv, phase \in {"install", "replay"}, tail = Len(lh)
    PROVE  cache = home
<1>1. /\ home \in [Blocks -> Vals] /\ cache \in [Blocks -> Vals]
  BY DEF LogInv, TypeOK
<1>2. CASE phase = "replay"
  BY <1>2 DEF DiskInv, CacheInv, RecoveryPhases
<1>3. CASE phase = "install"
  <2>1. \A i \in 1 .. Len(lh) : cache[lh[i]] = home[lh[i]]
    BY <1>3 DEF DiskInv, WrittenInv
  <2>2. \A b \in Blocks : cache[b] = home[b]
    BY <1>3, <2>1 DEF DiskInv, CacheInv, Logged, RecoveryPhases
  <2> QED
    BY <1>1, <2>2
<1> QED
  BY <1>2, <1>3

LEMMA EraseDisk ==
    ASSUME LogInv, DiskInv, erase_head
    PROVE  DiskInv'
<1>1. /\ phase \in {"install", "replay"} /\ tail = Len(lh)
      /\ lh' = <<>> /\ head' = <<>> /\ tail' = 0
      /\ phase' = IF phase = "install" THEN "finish" ELSE "run"
      /\ UNCHANGED <<cache, pinned, home, area>>
  BY DEF erase_head
<1>2. cache = home
  BY <1>1, AllInstalled
<1>3. pinned = {}
  BY <1>1, LogLengths DEF DiskInv, PinsMatchLog, CacheInv, RecoveryPhases
<1> QED
  BY <1>1, <1>2, <1>3 DEF DiskInv, Distinct, HeadInv, TailInv, WrittenInv, CacheInv,
                          PinsMatchLog, Logged, RecoveryPhases

LEMMA FinishDisk ==
    ASSUME LogInv, DiskInv, NEW o \in Ops, finish(o)
    PROVE  DiskInv'
BY DEF finish, disk, DiskInv, Distinct, HeadInv, TailInv, WrittenInv, CacheInv,
       PinsMatchLog, Logged, RecoveryPhases

LEMMA RebootDisk ==
    ASSUME LogInv, DiskInv, Crash \/ read_head
    PROVE  DiskInv'
<1>1. Len(lh) \in Nat /\ Len(head) \in Nat
  BY LogLengths
<1>2. CASE Crash
  BY <1>1, <1>2 DEF Crash, disk, DiskInv, Distinct, HeadInv, TailInv, WrittenInv, CacheInv,
       PinsMatchLog, Logged, RecoveryPhases
<1>3. CASE read_head
  BY <1>1, <1>3 DEF read_head, disk, DiskInv, Distinct, HeadInv, TailInv, WrittenInv, CacheInv,
       PinsMatchLog, Logged, RecoveryPhases
<1> QED
  BY <1>2, <1>3

(* A buffer that is not pinned has what is on disk: recycling it loses     *)
(* nothing, whenever it happens.                                           *)
LEMMA EvictDisk ==
    ASSUME LogInv, DiskInv, NEW b \in Blocks
    PROVE  ~Evict(b)
<1> SUFFICES ASSUME b \notin pinned PROVE cache[b] = home[b]
  BY DEF Evict
<1>1. phase \in Phases /\ tail \in Nat /\ Len(lh) \in Nat
  BY LogLengths DEF LogInv, TypeOK
<1>2. CASE phase \in RecoveryPhases
  BY <1>2 DEF DiskInv, CacheInv
<1>3. CASE phase \in {"run", "write_log", "finish"}
  BY <1>3 DEF DiskInv, CacheInv, PinsMatchLog, Logged, RecoveryPhases
<1>4. CASE phase = "install"
  <2>1. pinned = {lh[i] : i \in (tail + 1) .. Len(lh)}
    BY <1>4 DEF DiskInv, PinsMatchLog, RecoveryPhases
  <2>2. CASE b \in Logged
    <3>1. PICK i \in 1 .. Len(lh) : lh[i] = b
      BY <2>2 DEF Logged
    <3>2. i \in 1 .. tail
      BY <1>1, <2>1, <3>1
    <3> QED
      BY <1>4, <3>1, <3>2 DEF DiskInv, WrittenInv
  <2>3. CASE b \notin Logged
    BY <1>4, <2>3 DEF DiskInv, CacheInv, RecoveryPhases
  <2> QED
    BY <2>2, <2>3
<1> QED
  BY <1>1, <1>2, <1>3, <1>4 DEF Phases, CommitPhases

LEMMA DiskInvStep == LogInv /\ DiskInv /\ [Next]_vars => DiskInv'
<1> SUFFICES ASSUME LogInv, DiskInv, [Next]_vars PROVE DiskInv'
  OBVIOUS
<1>1. CASE UNCHANGED vars
  BY <1>1 DEF vars, mem, disk, DiskInv, Distinct, HeadInv, TailInv, WrittenInv, CacheInv,
              PinsMatchLog, Logged
<1>2. CASE Next
  BY <1>2, BeginOpDisk, LogWriteDisk, EndOpDisk, WriteLogDisk, WriteHeadDisk, InstallDisk,
     EraseDisk, FinishDisk, RebootDisk, EvictDisk DEF Next
<1> QED
  BY <1>1, <1>2

THEOREM DiskInvariant == Spec => []DiskInv
<1> QED
  BY DiskInvInit, DiskInvStep, LogInvariant, PTL DEF Spec

(* Exactly the blocks still to be installed are pinned: no logged change   *)
(* is lost with a recycled buffer, and no pin is left behind.              *)
THEOREM PinsAreRight == Spec => []PinsMatchLog
<1>1. DiskInv => PinsMatchLog
  BY DEF DiskInv
<1> QED
  BY <1>1, DiskInvariant, PTL
-------------------------------------------------------------------------------
(* The image that recovery computes from what is on disk.                  *)
Image(blocks, entries, header) ==
    [b \in Blocks |->
        IF \E i \in 1 .. Len(header) : header[i] = b
        THEN entries[CHOOSE i \in 1 .. Len(header) : header[i] = b]
        ELSE blocks[b]]

LEMMA RecoveredImage ==
    /\ AfterRecovery = Image(home, area, head)
    /\ AfterRecovery' = Image(home', area', head')
BY DEF AfterRecovery, Image

(* An empty header leaves the home blocks; otherwise each logged block has *)
(* the value of its entry.                                                 *)
LEMMA ImageEmpty ==
    ASSUME NEW blocks \in [Blocks -> Vals], NEW entries
    PROVE  Image(blocks, entries, <<>>) = blocks
BY DEF Image

LEMMA ImageLogged ==
    ASSUME NEW blocks, NEW entries, NEW header \in Seq(Blocks), Distinct(header),
           NEW value \in [Blocks -> Vals],
           \A i \in 1 .. Len(header) : entries[i] = value[header[i]],
           \A b \in Blocks \ {header[i] : i \in 1 .. Len(header)} : blocks[b] = value[b]
    PROVE  Image(blocks, entries, header) = value
<1>1. \A b \in Blocks : Image(blocks, entries, header)[b] = value[b]
  <2> TAKE b \in Blocks
  <2>1. CASE \E i \in 1 .. Len(header) : header[i] = b
    <3> DEFINE k == CHOOSE i \in 1 .. Len(header) : header[i] = b
    <3>1. k \in 1 .. Len(header) /\ header[k] = b
      BY <2>1
    <3>2. Image(blocks, entries, header)[b] = entries[k]
      BY <2>1 DEF Image
    <3> QED
      BY <3>1, <3>2
  <2>2. CASE ~\E i \in 1 .. Len(header) : header[i] = b
    BY <2>2 DEF Image
  <2> QED
    BY <2>1, <2>2
<1>2. Image(blocks, entries, header) = [b \in Blocks |-> Image(blocks, entries, header)[b]]
  BY DEF Image
<1> QED
  BY <1>1, <1>2

(* The image file-system calls read and write: AtomicFS's `current'.       *)
Current == IF phase \in RecoveryPhases THEN AfterRecovery ELSE cache

(* A step that leaves the two images and the running calls alone is no     *)
(* step of AtomicFS.                                                       *)
LEMMA Stutters ==
    ASSUME AfterRecovery' = AfterRecovery, Current' = Current, Active' = Active
    PROVE  UNCHANGED Atomic!avars
BY DEF Atomic!avars, Current

LEMMA BeginOpRefines ==
    ASSUME LogInv, DiskInv, NEW o \in Ops, begin_op(o)
    PROVE  [Atomic!ANext]_(Atomic!avars)
<1>1. /\ op \in [Ops -> OpStates] /\ op[o] \in {"out", "woken"}
      /\ op' = [op EXCEPT ![o] = IF Admit THEN "in" ELSE "sleep"]
      /\ UNCHANGED <<phase, cache, home, area, head>>
  BY DEF begin_op, disk, LogInv, TypeOK
<1>2. AfterRecovery' = AfterRecovery /\ Current' = Current
  BY <1>1 DEF AfterRecovery, Current
<1>3. CASE Admit
  <2>1. o \notin Active /\ Active' = Active \cup {o}
    BY <1>1, <1>3 DEF Active
  <2>2. Atomic!Begin(o)
    BY <1>2, <2>1 DEF Atomic!Begin, Current
  <2> QED
    BY <2>2 DEF Atomic!ANext
<1>4. CASE ~Admit
  <2>1. Active' = Active
    BY <1>1, <1>4 DEF Active
  <2> QED
    BY <1>2, <2>1, Stutters
<1> QED
  BY <1>3, <1>4

LEMMA LogWriteRefines ==
    ASSUME LogInv, DiskInv, NEW o \in Ops, NEW b \in Blocks, NEW v \in Vals, log_write(o, b, v)
    PROVE  [Atomic!ANext]_(Atomic!avars)
<1>1. o \in Active /\ phase = "run"
  BY DEF log_write, Active, LogInv, PhaseInv
<1>2. UNCHANGED <<op, phase, home, area, head>>
  BY DEF log_write, mem, disk
<1>3. AfterRecovery' = AfterRecovery /\ Active' = Active
  BY <1>2 DEF AfterRecovery, Active
<1>4. CASE cache' = cache
  BY <1>2, <1>3, <1>4, Stutters DEF Current
<1>5. CASE cache' = [cache EXCEPT ![b] = v]
  <2>1. Atomic!Write(o, b, v)
    BY <1>1, <1>2, <1>3, <1>5 DEF Atomic!Write, RecoveryPhases
  <2> QED
    BY <2>1 DEF Atomic!ANext
<1> QED
  BY <1>4, <1>5 DEF log_write, mem

LEMMA EndOpRefines ==
    ASSUME LogInv, DiskInv, NEW o \in Ops, end_op(o)
    PROVE  [Atomic!ANext]_(Atomic!avars)
<1>1. /\ op \in [Ops -> OpStates] /\ op[o] = "in"
      /\ o \in Active /\ phase = "run"
      /\ UNCHANGED <<cache, home, area, head>>
      /\ phase' \in {"run", "finish", "write_log"}
  BY DEF end_op, disk, LogInv, TypeOK, PhaseInv, Active
<1>2. AfterRecovery' = AfterRecovery
  BY <1>1 DEF AfterRecovery
<1>3. Active' = Active \ {o}
  <2>1. CASE op' = [op EXCEPT ![o] = "commit"]
    BY <1>1, <2>1 DEF Active
  <2>2. CASE op' = Wake([op EXCEPT ![o] = "out"])
    BY <1>1, <2>2 DEF Active, Wake
  <2> QED
    BY <2>1, <2>2 DEF end_op
<1>4. Atomic!End(o)
  BY <1>1, <1>2, <1>3 DEF Atomic!End, RecoveryPhases
<1> QED
  BY <1>4 DEF Atomic!ANext

LEMMA WriteLogRefines ==
    ASSUME LogInv, DiskInv, write_log
    PROVE  [Atomic!ANext]_(Atomic!avars)
<1>1. /\ phase = "write_log" /\ head = <<>>
      /\ UNCHANGED <<op, phase, cache, home, head>>
  BY DEF write_log, DiskInv, HeadInv
<1>2. AfterRecovery' = AfterRecovery
  BY <1>1 DEF AfterRecovery
<1> QED
  BY <1>1, <1>2, Stutters DEF Current, Active

(* The commit point: the image that a crash leaves becomes the image the   *)
(* calls have seen, and no call is running.                                *)
LEMMA WriteHeadRefines ==
    ASSUME LogInv, DiskInv, write_head
    PROVE  [Atomic!ANext]_(Atomic!avars)
<1>1. /\ phase = "write_log" /\ tail = Len(lh)
      /\ head' = lh /\ phase' = "install"
      /\ UNCHANGED <<op, cache, home, area>>
  BY DEF write_head
<1>2. Active = {} /\ Active' = {}
  BY <1>1 DEF LogInv, PhaseInv, Active
<1>3. AfterRecovery' = cache
  <2>1. \A i \in 1 .. Len(lh) : area[i] = cache[lh[i]]
    BY <1>1 DEF DiskInv, WrittenInv
  <2>2. \A b \in Blocks \ {lh[i] : i \in 1 .. Len(lh)} : home[b] = cache[b]
    BY <1>1 DEF DiskInv, CacheInv, Logged, RecoveryPhases
  <2>3. lh \in Seq(Blocks) /\ Distinct(lh) /\ cache \in [Blocks -> Vals]
    BY DEF LogInv, TypeOK, DiskInv
  <2>4. Image(home, area, lh) = cache
    BY <2>1, <2>2, <2>3, ImageLogged
  <2> QED
    BY <1>1, <2>4, RecoveredImage
<1>4. Atomic!Commit
  BY <1>1, <1>2, <1>3 DEF Atomic!Commit, RecoveryPhases
<1> QED
  BY <1>4 DEF Atomic!ANext

LEMMA InstallRefines ==
    ASSUME LogInv, DiskInv, install_trans
    PROVE  [Atomic!ANext]_(Atomic!avars)
<1> DEFINE b == lh[tail + 1]
<1>1. /\ phase \in {"install", "replay"} /\ tail \in Nat /\ tail + 1 \in 1 .. Len(lh)
      /\ home' = [home EXCEPT ![b] = area[tail + 1]]
      /\ cache' = [cache EXCEPT ![b] = area[tail + 1]]
      /\ UNCHANGED <<op, phase, area, head>>
  BY LogLengths DEF install_trans, LogInv, TypeOK
<1>2. head = lh /\ home \in [Blocks -> Vals] /\ cache \in [Blocks -> Vals]
  BY <1>1 DEF DiskInv, HeadInv, LogInv, TypeOK
<1>3. AfterRecovery' = AfterRecovery
  <2>1. \E i \in 1 .. Len(head) : head[i] = b
    BY <1>1, <1>2
  <2> DEFINE v == area[tail + 1]
  <2> HIDE DEF b, v
  <2>2. Image([home EXCEPT ![b] = v], area, head) = Image(home, area, head)
    BY <1>2, <2>1 DEF Image
  <2> USE DEF b, v
  <2> QED
    BY <1>1, <2>2, RecoveredImage
<1>4. CASE phase = "install"
  <2>1. cache[b] = area[tail + 1]
    BY <1>1, <1>4 DEF DiskInv, WrittenInv
  <2>2. cache' = cache
    BY <1>1, <1>2, <2>1
  <2> QED
    BY <1>1, <1>3, <2>2, Stutters DEF Current, Active
<1>5. CASE phase = "replay"
  BY <1>1, <1>3, <1>5, Stutters DEF Current, Active, RecoveryPhases
<1> QED
  BY <1>1, <1>4, <1>5

LEMMA EraseRefines ==
    ASSUME LogInv, DiskInv, erase_head
    PROVE  [Atomic!ANext]_(Atomic!avars)
<1>1. /\ phase \in {"install", "replay"} /\ tail = Len(lh)
      /\ head' = <<>> /\ phase' = IF phase = "install" THEN "finish" ELSE "run"
      /\ UNCHANGED <<op, cache, home, area>>
  BY DEF erase_head
<1>2. head = lh /\ home \in [Blocks -> Vals] /\ cache = home
  BY <1>1, AllInstalled DEF DiskInv, HeadInv, LogInv, TypeOK
<1>3. AfterRecovery = home
  <2>1. \A i \in 1 .. Len(lh) : area[i] = home[lh[i]]
    BY <1>1 DEF DiskInv, WrittenInv
  <2>2. Image(home, area, lh) = home
    BY ZenonT(40), <1>2, <2>1, ImageLogged DEF LogInv, TypeOK, DiskInv
  <2> QED
    BY <1>2, <2>2, RecoveredImage
<1>4. AfterRecovery' = home
  BY <1>1, <1>2, RecoveredImage, ImageEmpty
<1> QED
  BY <1>1, <1>2, <1>3, <1>4, Stutters DEF Current, Active, RecoveryPhases

LEMMA FinishRefines ==
    ASSUME LogInv, DiskInv, NEW o \in Ops, finish(o)
    PROVE  [Atomic!ANext]_(Atomic!avars)
<1>1. /\ op \in [Ops -> OpStates] /\ op[o] = "commit" /\ phase = "finish" /\ phase' = "run"
      /\ op' = Wake([op EXCEPT ![o] = "out"])
      /\ UNCHANGED <<cache, home, area, head>>
  BY DEF finish, disk, LogInv, TypeOK
<1>2. Active' = Active
  BY <1>1 DEF Active, Wake
<1>3. AfterRecovery' = AfterRecovery
  BY <1>1 DEF AfterRecovery
<1> QED
  BY <1>1, <1>2, <1>3, Stutters DEF Current, RecoveryPhases

LEMMA RebootRefines ==
    ASSUME LogInv, DiskInv, Crash \/ read_head
    PROVE  [Atomic!ANext]_(Atomic!avars)
<1>1. UNCHANGED <<home, area, head>>
  BY DEF Crash, read_head, disk
<1>2. AfterRecovery' = AfterRecovery
  BY <1>1 DEF AfterRecovery
<1>3. CASE Crash
  <2>1. Active' = {} /\ phase' = "read_head"
    BY <1>3 DEF Crash, Active
  <2>2. Atomic!Crash
    BY <1>2, <2>1 DEF Atomic!Crash, RecoveryPhases
  <2> QED
    BY <2>2 DEF Atomic!ANext
<1>4. CASE read_head
  <2>1. phase = "read_head" /\ phase' = "replay" /\ UNCHANGED op
    BY <1>4 DEF read_head
  <2> QED
    BY <1>2, <2>1, Stutters DEF Current, Active, RecoveryPhases
<1> QED
  BY <1>3, <1>4

LEMMA InitRefines == Init => Atomic!AInit
<1> SUFFICES ASSUME Init PROVE Atomic!AInit
  OBVIOUS
<1>1. /\ home = [b \in Blocks |-> InitVal] /\ head = <<>> /\ phase = "read_head"
      /\ op = [o \in Ops |-> "out"]
  BY DEF Init
<1>2. AfterRecovery = home
  BY <1>1 DEF AfterRecovery
<1>3. Active = {}
  BY <1>1 DEF Active
<1> QED
  BY <1>1, <1>2, <1>3 DEF Atomic!AInit, RecoveryPhases

LEMMA StepRefines == LogInv /\ DiskInv /\ [Next]_vars => [Atomic!ANext]_(Atomic!avars)
<1> SUFFICES ASSUME LogInv, DiskInv, [Next]_vars PROVE [Atomic!ANext]_(Atomic!avars)
  OBVIOUS
<1>1. CASE UNCHANGED vars
  BY <1>1, Stutters DEF vars, mem, disk, AfterRecovery, Current, Active
<1>2. CASE Next
  BY <1>2, BeginOpRefines, LogWriteRefines, EndOpRefines, WriteLogRefines, WriteHeadRefines,
     InstallRefines, EraseRefines, FinishRefines, RebootRefines, EvictDisk DEF Next
<1> QED
  BY <1>1, <1>2

(* Transactions are atomic: what a crash leaves behind changes only at a   *)
(* commit, when no call is running, and becomes what the calls have seen;  *)
(* the rest of the log's steps are invisible.                              *)
THEOREM Atomicity == Spec => ImplementsAtomicFS
<1> QED
  BY InitRefines, StepRefines, LogInvariant, DiskInvariant, PTL
     DEF Spec, ImplementsAtomicFS, Atomic!AtomicSpec
===============================================================================
