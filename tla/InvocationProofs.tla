-------------------------- MODULE InvocationProofs --------------------------
(***************************************************************************)
(* Theorems about Invocation, for any number of invocations, slots,        *)
(* package identities and replacements.                                    *)
(***************************************************************************)
EXTENDS Invocation, FiniteSetTheorems, TLAPS

USE DEF callVars, signalVars, slotVars, ledgerVars, taskVars, worldVars

(***************************************************************************)
(* The type invariant.                                                     *)
(***************************************************************************)

\* What a scan publishes is an entry of the table's type.
LEMMA PublishedType ==
    ASSUME NEW bytes \in Content \cup {None}
    PROVE  Published(bytes) \in Content \cup {None, Blocked}
BY DEF Published

\* CounterOf names a counter of astools_stats.
LEMMA CounterOfType ==
    ASSUME NEW v
    PROVE  CounterOf(v) \in Counters
BY DEF CounterOf, Counters

\* The waiter count never drops below zero, and a slot is counted at most
\* once: the part of the invariant the type of the counters needs.
WaitInv == 
    /\ slots_waiting = Cardinality(Waiters)
    /\ \A i \in Inv : waiting[i] => pc[i] = "admit"

\* The first state is well typed and nobody waits in it.
LEMMA InitType == Init => TypeOK /\ WaitInv
<1> SUFFICES ASSUME Init PROVE TypeOK /\ WaitInv
  OBVIOUS
<1>1. TypeOK
  BY PublishedType, EditsAssumption, ContentAssumption
  DEF Init, TypeOK, PCs, Verdicts, Tasks, Counters
<1>2. Waiters = {}
  BY DEF Init, Waiters
<1>3. WaitInv
  BY <1>2, FS_EmptySet DEF Init, WaitInv
<1> QED
  BY <1>1, <1>3

\* Finite subsets of the invocations, as the counters need them.
LEMMA SubsetsFinite ==
    ASSUME NEW S \in SUBSET Inv
    PROVE  IsFiniteSet(S) /\ Cardinality(S) \in Nat
BY InvAssumption, FS_Subset, FS_CardinalityType

\* astools_slot_acquire leaves its loop: the count of waiters loses this
\* call if it waited, and nothing otherwise.
LEMMA WaitStep == ASSUME TypeOK, WaitInv, NEW i \in Inv, StopWaiting(i),
                         pc'[i] # "admit" \/ ~waiting[i],
                         \A j \in Inv \ {i} : pc'[j] = pc[j]
                  PROVE  /\ WaitInv'
                         /\ slots_waiting' \in Nat
                         /\ waiting' \in [Inv -> BOOLEAN]
<1>1. Waiters' = Waiters \ {i}
  BY DEF StopWaiting, Waiters, TypeOK
<1>2. Waiters \in SUBSET Inv
  BY DEF Waiters
<1>3. /\ IsFiniteSet(Waiters) /\ Cardinality(Waiters) \in Nat
      /\ IsFiniteSet(Waiters') /\ Cardinality(Waiters') \in Nat
  BY <1>1, <1>2, SubsetsFinite
<1>4. Cardinality(Waiters') = IF waiting[i] THEN Cardinality(Waiters) - 1
                                            ELSE Cardinality(Waiters)
  BY <1>1, <1>3, FS_RemoveElement DEF Waiters
<1>5. slots_waiting' = Cardinality(Waiters')
  BY <1>4 DEF StopWaiting, WaitInv
<1>6. \A j \in Inv : waiting'[j] => pc'[j] = "admit"
  BY DEF StopWaiting, WaitInv, TypeOK
<1>7. waiting' \in [Inv -> BOOLEAN]
  BY DEF StopWaiting, TypeOK
<1> QED
  BY <1>3, <1>5, <1>6, <1>7 DEF WaitInv

\* Every step of the pipeline, of the hosts and of the world preserves the
\* types and the exact count of waiters.
LEMMA NextType == TypeOK /\ WaitInv /\ [Next]_vars => TypeOK' /\ WaitInv'
<1> SUFFICES ASSUME TypeOK, WaitInv, [Next]_vars
             PROVE  TypeOK' /\ WaitInv'
  OBVIOUS
<1> USE DEF PCs, Verdicts, Tasks, Goto, Done, Proceed
<1>1. ASSUME NEW i \in Inv, Start(i) PROVE TypeOK' /\ WaitInv'
  <2>1. TypeOK'
    BY <1>1, ContentAssumption DEF Start, TypeOK
  <2>2. UNCHANGED <<waiting, slots_waiting>> /\ \A j \in Inv : waiting[j] => pc'[j] = pc[j]
    BY <1>1 DEF Start, WaitInv, TypeOK
  <2> QED
    BY <2>1, <2>2 DEF WaitInv, Waiters
<1>2. ASSUME NEW i \in Inv, Resolve(i) PROVE TypeOK' /\ WaitInv'
  <2>1. TypeOK'
    <3>1. sha' \in [Inv -> Content \cup {None, Blocked}]
      BY <1>2 DEF Resolve, TypeOK
    <3>2. Unresolved(table) \in Verdicts
      BY DEF Unresolved
    <3>3. kind' \in [Inv -> Kinds \cup {"unknown"}]
      BY <1>2 DEF Resolve, TypeOK
    <3>4. pc' \in [Inv -> PCs]
      BY <1>2 DEF Resolve, TypeOK
    <3>5. verdict' \in [Inv -> Verdicts]
      BY <1>2, <3>2 DEF Resolve, TypeOK
    <3> QED
      BY <1>2, <3>1, <3>3, <3>4, <3>5 DEF Resolve, TypeOK
  <2>2. UNCHANGED <<waiting, slots_waiting>> /\ \A j \in Inv : waiting[j] => pc'[j] = pc[j]
    BY <1>2 DEF Resolve, WaitInv, TypeOK
  <2> QED
    BY <2>1, <2>2 DEF WaitInv, Waiters
<1>3. ASSUME NEW i \in Inv, Prepare(i) PROVE TypeOK' /\ WaitInv'
  <2>1. TypeOK'
    <3>1. pc' \in [Inv -> PCs]
      BY <1>3 DEF Prepare, TypeOK
    <3>2. verdict' \in [Inv -> Verdicts]
      BY <1>3 DEF Prepare, TypeOK
    <3> QED
      BY <1>3, <3>1, <3>2 DEF Prepare, TypeOK
  <2>2. UNCHANGED <<waiting, slots_waiting>> /\ \A j \in Inv : waiting[j] => pc'[j] = pc[j]
    BY <1>3 DEF Prepare, WaitInv, TypeOK
  <2> QED
    BY <2>1, <2>2 DEF WaitInv, Waiters
<1>4. ASSUME NEW i \in Inv, AdmitCancelled(i) PROVE TypeOK' /\ WaitInv'
  <2>1. StopWaiting(i) /\ pc'[i] # "admit" /\ \A j \in Inv \ {i} : pc'[j] = pc[j]
    BY <1>4 DEF AdmitCancelled, TypeOK
  <2>2. WaitInv' /\ slots_waiting' \in Nat /\ waiting' \in [Inv -> BOOLEAN]
    BY <2>1, WaitStep
  <2>3. TypeOK'
    BY <1>4, <2>2 DEF AdmitCancelled, TypeOK
  <2> QED
    BY <2>2, <2>3
<1>5. ASSUME NEW i \in Inv, AdmitTimeout(i) PROVE TypeOK' /\ WaitInv'
  <2>1. StopWaiting(i) /\ pc'[i] # "admit" /\ \A j \in Inv \ {i} : pc'[j] = pc[j]
    BY <1>5 DEF AdmitTimeout, TypeOK
  <2>2. WaitInv' /\ slots_waiting' \in Nat /\ waiting' \in [Inv -> BOOLEAN]
    BY <2>1, WaitStep
  <2>3. TypeOK'
    BY <1>5, <2>2 DEF AdmitTimeout, TypeOK
  <2> QED
    BY <2>2, <2>3
<1>6. ASSUME NEW i \in Inv, AdmitGrant(i) PROVE TypeOK' /\ WaitInv'
  <2>1. StopWaiting(i) /\ pc'[i] # "admit" /\ \A j \in Inv \ {i} : pc'[j] = pc[j]
    BY <1>6 DEF AdmitGrant, TypeOK
  <2>2. WaitInv' /\ slots_waiting' \in Nat /\ waiting' \in [Inv -> BOOLEAN]
    BY <2>1, WaitStep
  <2>3. since' \in [Inv -> [disk : SUBSET (Content \cup {None}),
                           table : SUBSET (Content \cup {None, Blocked})]]
    <3>1. [disk |-> {disk}, table |-> {table}]
             \in [disk : SUBSET (Content \cup {None}),
                  table : SUBSET (Content \cup {None, Blocked})]
      BY DEF TypeOK
    <3> QED
      BY <1>6, <3>1 DEF AdmitGrant, TypeOK
  <2>4. slots_used' \in Nat /\ have_slot' \in [Inv -> BOOLEAN] /\ pc' \in [Inv -> PCs]
    BY <1>6 DEF AdmitGrant, TypeOK
  <2>5. TypeOK'
    BY <1>6, <2>2, <2>3, <2>4 DEF AdmitGrant, TypeOK
  <2> QED
    BY <2>2, <2>5
<1>7. ASSUME NEW i \in Inv, AdmitWait(i) PROVE TypeOK' /\ WaitInv'
  <2>1. Waiters' = Waiters \cup {i} /\ i \notin Waiters
    BY <1>7 DEF AdmitWait, Waiters, TypeOK
  <2>2. IsFiniteSet(Waiters)
    BY SubsetsFinite DEF Waiters
  <2>3. slots_waiting' = Cardinality(Waiters')
    BY <1>7, <2>1, <2>2, FS_AddElement DEF AdmitWait, WaitInv
  <2>4. \A j \in Inv : waiting'[j] => pc'[j] = "admit"
    BY <1>7 DEF AdmitWait, WaitInv, TypeOK
  <2>5. TypeOK'
    BY <1>7 DEF AdmitWait, TypeOK
  <2> QED
    BY <2>3, <2>4, <2>5 DEF WaitInv
<1>8. ASSUME NEW i \in Inv, Recheck(i) PROVE TypeOK' /\ WaitInv'
  <2>1. TypeOK'
    BY <1>8 DEF Recheck, Unresolved, TypeOK
  <2>2. UNCHANGED <<waiting, slots_waiting>> /\ \A j \in Inv : waiting[j] => pc'[j] = pc[j]
    BY <1>8 DEF Recheck, WaitInv, TypeOK
  <2> QED
    BY <2>1, <2>2 DEF WaitInv, Waiters
<1>9. ASSUME NEW i \in Inv, Verify(i) PROVE TypeOK' /\ WaitInv'
  <2>1. TypeOK'
    BY <1>9 DEF Verify, TypeOK
  <2>2. UNCHANGED <<waiting, slots_waiting>> /\ \A j \in Inv : waiting[j] => pc'[j] = pc[j]
    BY <1>9 DEF Verify, WaitInv, TypeOK
  <2> QED
    BY <2>1, <2>2 DEF WaitInv, Waiters
<1>9a. ASSUME NEW i \in Inv, CheckSnapshot(i) PROVE TypeOK' /\ WaitInv'
  <2>1. TypeOK'
    BY <1>9a DEF CheckSnapshot, Selected, TypeOK
  <2>2. UNCHANGED <<waiting, slots_waiting>> /\ \A j \in Inv : waiting[j] => pc'[j] = pc[j]
    BY <1>9a DEF CheckSnapshot, Selected, WaitInv, TypeOK
  <2> QED
    BY <2>1, <2>2 DEF WaitInv, Waiters
<1>10. ASSUME NEW i \in Inv, Gate(i) PROVE TypeOK' /\ WaitInv'
  <2>1. TypeOK'
    BY <1>10 DEF Gate, TypeOK
  <2>2. UNCHANGED <<waiting, slots_waiting>> /\ \A j \in Inv : waiting[j] => pc'[j] = pc[j]
    BY <1>10 DEF Gate, WaitInv, TypeOK
  <2> QED
    BY <2>1, <2>2 DEF WaitInv, Waiters
<1>11. ASSUME NEW i \in Inv, ExecReturns(i) PROVE TypeOK' /\ WaitInv'
  <2>1. TypeOK'
    BY <1>11 DEF ExecReturns, TypeOK
  <2>2. UNCHANGED <<waiting, slots_waiting>> /\ \A j \in Inv : waiting[j] => pc'[j] = pc[j]
    BY <1>11 DEF ExecReturns, WaitInv, TypeOK
  <2> QED
    BY <2>1, <2>2 DEF WaitInv, Waiters
<1>12. ASSUME NEW i \in Inv, ExecStopped(i) PROVE TypeOK' /\ WaitInv'
  <2>1. TypeOK'
    BY <1>12 DEF ExecStopped, TypeOK
  <2>2. UNCHANGED <<waiting, slots_waiting>> /\ \A j \in Inv : waiting[j] => pc'[j] = pc[j]
    BY <1>12 DEF ExecStopped, WaitInv, TypeOK
  <2> QED
    BY <2>1, <2>2 DEF WaitInv, Waiters
<1>13. ASSUME NEW i \in Inv, Count(i) PROVE TypeOK' /\ WaitInv'
  <2>1. TypeOK'
    BY <1>13, CounterOfType DEF Count, TypeOK
  <2>2. UNCHANGED <<waiting, slots_waiting>> /\ \A j \in Inv : waiting[j] => pc'[j] = pc[j]
    BY <1>13 DEF Count, WaitInv, TypeOK
  <2> QED
    BY <2>1, <2>2 DEF WaitInv, Waiters
<1>14. ASSUME NEW i \in Inv, Audit(i) PROVE TypeOK' /\ WaitInv'
  <2>1. TypeOK'
    BY <1>14 DEF Audit, TypeOK
  <2>2. UNCHANGED <<waiting, slots_waiting>> /\ \A j \in Inv : waiting[j] => pc'[j] = pc[j]
    BY <1>14 DEF Audit, WaitInv, TypeOK
  <2> QED
    BY <2>1, <2>2 DEF WaitInv, Waiters
<1>15. ASSUME NEW i \in Inv, Release(i) PROVE TypeOK' /\ WaitInv'
  <2>1. TypeOK'
    BY <1>15 DEF Release, TypeOK
  <2>2. UNCHANGED <<waiting, slots_waiting>> /\ \A j \in Inv : waiting[j] => pc'[j] = pc[j]
    BY <1>15 DEF Release, WaitInv, TypeOK
  <2> QED
    BY <2>1, <2>2 DEF WaitInv, Waiters
<1>16. ASSUME NEW i \in Inv, Finish(i) PROVE TypeOK' /\ WaitInv'
  <2>1. TypeOK'
    BY <1>16 DEF Finish, TypeOK
  <2>2. UNCHANGED <<waiting, slots_waiting>> /\ \A j \in Inv : waiting[j] => pc'[j] = pc[j]
    BY <1>16 DEF Finish, WaitInv, TypeOK
  <2> QED
    BY <2>1, <2>2 DEF WaitInv, Waiters
<1>17. ASSUME NEW i \in Inv, TaskCancel(i) PROVE TypeOK' /\ WaitInv'
  <2>1. TypeOK'
    BY <1>17 DEF TaskCancel, TypeOK
  <2>2. UNCHANGED <<waiting, slots_waiting>> /\ \A j \in Inv : waiting[j] => pc'[j] = pc[j]
    BY <1>17 DEF TaskCancel, WaitInv, TypeOK
  <2> QED
    BY <2>1, <2>2 DEF WaitInv, Waiters
<1>18. ASSUME NEW i \in Inv, TaskWait(i) PROVE TypeOK' /\ WaitInv'
  <2>1. TypeOK'
    BY <1>18 DEF TaskWait, TypeOK
  <2>2. UNCHANGED <<waiting, slots_waiting>> /\ \A j \in Inv : waiting[j] => pc'[j] = pc[j]
    BY <1>18 DEF TaskWait, WaitInv, TypeOK
  <2> QED
    BY <2>1, <2>2 DEF WaitInv, Waiters
<1>19. ASSUME NEW i \in Inv, TaskFree(i) PROVE TypeOK' /\ WaitInv'
  <2>1. TypeOK'
    BY <1>19 DEF TaskFree, TypeOK
  <2>2. UNCHANGED <<waiting, slots_waiting>> /\ \A j \in Inv : waiting[j] => pc'[j] = pc[j]
    BY <1>19 DEF TaskFree, WaitInv, TypeOK
  <2> QED
    BY <2>1, <2>2 DEF WaitInv, Waiters
<1>20. ASSUME NEW i \in Inv, TaskJoined(i) PROVE TypeOK' /\ WaitInv'
  <2>1. TypeOK'
    BY <1>20 DEF TaskJoined, TypeOK
  <2>2. UNCHANGED <<waiting, slots_waiting>> /\ \A j \in Inv : waiting[j] => pc'[j] = pc[j]
    BY <1>20 DEF TaskJoined, WaitInv, TypeOK
  <2> QED
    BY <2>1, <2>2 DEF WaitInv, Waiters
<1>21. ASSUME NEW i \in Inv, Expire(i) PROVE TypeOK' /\ WaitInv'
  <2>1. TypeOK'
    BY <1>21 DEF Expire, TypeOK
  <2>2. UNCHANGED <<waiting, slots_waiting>> /\ \A j \in Inv : waiting[j] => pc'[j] = pc[j]
    BY <1>21 DEF Expire, WaitInv, TypeOK
  <2> QED
    BY <2>1, <2>2 DEF WaitInv, Waiters
<1>22. CASE EditDisk
  <2>1. TypeOK'
    BY <1>22, PublishedType, EditsAssumption DEF EditDisk, Seen, TypeOK
  <2> QED
    BY <1>22, <2>1 DEF EditDisk, WaitInv, Waiters
<1>23. CASE Rescan
  <2>1. TypeOK'
    BY <1>23, PublishedType, EditsAssumption DEF Rescan, Seen, TypeOK
  <2> QED
    BY <1>23, <2>1 DEF Rescan, WaitInv, Waiters
<1>24. CASE UNCHANGED vars
  BY <1>24 DEF vars, TypeOK, WaitInv, Waiters
<1> QED
  BY <1>1, <1>2, <1>3, <1>4, <1>5, <1>6, <1>7, <1>8, <1>9, <1>9a, <1>10, <1>11, <1>12, <1>13, <1>14, <1>15, <1>16, <1>17, <1>18, <1>19, <1>20, <1>21, <1>22, <1>23, <1>24
  DEF Next, ThreadStep, HostStep, AllReturned

\* Every reachable state is well typed: in particular no counter of the
\* engine underflows, on any path through the pipeline.
THEOREM TypeCorrect == Spec => []TypeOK
<1>1. Spec => [](TypeOK /\ WaitInv)
  BY InitType, NextType, PTL DEF Spec
<1> QED
  BY <1>1, PTL

(***************************************************************************)
(* Slot accounting.  The counter alone is not inductive: a release must    *)
(* know that its invocation holds a slot exactly between the grant and the *)
(* release, which is a fact about every stage of the pipeline.             *)
(***************************************************************************)

StageInv ==
    \A i \in Inv :
        /\ have_slot[i] => pc[i] \in {"recheck", "verify", "snapshot", "gate", "run",
                                      "count", "audit", "release"}
        /\ pc[i] \in {"recheck", "verify", "snapshot", "gate", "run"} => have_slot[i]
        /\ pc[i] \in {"prepare", "admit", "recheck", "verify", "snapshot", "gate", "run"}
              => sha[i] \in Content

SlotInv ==
    /\ slots_used = Cardinality(Holders)
    /\ slots_used <= MaxConcurrent

\* The first state holds no slot.
LEMMA InitSlot == Init => StageInv /\ SlotInv
<1> SUFFICES ASSUME Init PROVE StageInv /\ SlotInv
  OBVIOUS
<1>1. StageInv
  BY DEF Init, StageInv
<1>2. Holders = {}
  BY DEF Init, Holders
<1>3. SlotInv
  BY <1>2, FS_EmptySet, MaxAssumption DEF Init, SlotInv
<1> QED
  BY <1>1, <1>3

\* A slot is held exactly from the grant to the release, and a call that
\* reaches admission holds a resolved descriptor.
LEMMA NextStage == TypeOK /\ StageInv /\ [Next]_vars => StageInv'
<1> SUFFICES ASSUME TypeOK, StageInv, [Next]_vars PROVE StageInv'
  OBVIOUS
<1> USE DEF Goto, Done, Proceed
<1>1. ASSUME NEW i \in Inv, Start(i) PROVE StageInv'
  BY <1>1 DEF Start, TypeOK, StageInv
<1>2. ASSUME NEW i \in Inv, Resolve(i) PROVE StageInv'
  BY <1>2 DEF Resolve, TypeOK, StageInv
<1>3. ASSUME NEW i \in Inv, Prepare(i) PROVE StageInv'
  BY <1>3 DEF Prepare, TypeOK, StageInv
<1>4. ASSUME NEW i \in Inv, AdmitCancelled(i) PROVE StageInv'
  BY <1>4 DEF AdmitCancelled, StopWaiting, TypeOK, StageInv
<1>5. ASSUME NEW i \in Inv, AdmitTimeout(i) PROVE StageInv'
  BY <1>5 DEF AdmitTimeout, StopWaiting, TypeOK, StageInv
<1>6. ASSUME NEW i \in Inv, AdmitGrant(i) PROVE StageInv'
  BY <1>6 DEF AdmitGrant, StopWaiting, TypeOK, StageInv
<1>7. ASSUME NEW i \in Inv, AdmitWait(i) PROVE StageInv'
  BY <1>7 DEF AdmitWait, TypeOK, StageInv
<1>8. ASSUME NEW i \in Inv, Recheck(i) PROVE StageInv'
  BY <1>8 DEF Recheck, TypeOK, StageInv
<1>9. ASSUME NEW i \in Inv, Verify(i) PROVE StageInv'
  BY <1>9 DEF Verify, TypeOK, StageInv
<1>9a. ASSUME NEW i \in Inv, CheckSnapshot(i) PROVE StageInv'
  BY <1>9a DEF CheckSnapshot, Selected, TypeOK, StageInv
<1>10. ASSUME NEW i \in Inv, Gate(i) PROVE StageInv'
  BY <1>10 DEF Gate, TypeOK, StageInv
<1>11. ASSUME NEW i \in Inv, ExecReturns(i) PROVE StageInv'
  BY <1>11 DEF ExecReturns, TypeOK, StageInv
<1>12. ASSUME NEW i \in Inv, ExecStopped(i) PROVE StageInv'
  BY <1>12 DEF ExecStopped, TypeOK, StageInv
<1>13. ASSUME NEW i \in Inv, Count(i) PROVE StageInv'
  BY <1>13 DEF Count, TypeOK, StageInv
<1>14. ASSUME NEW i \in Inv, Audit(i) PROVE StageInv'
  BY <1>14 DEF Audit, TypeOK, StageInv
<1>15. ASSUME NEW i \in Inv, Release(i) PROVE StageInv'
  BY <1>15 DEF Release, TypeOK, StageInv
<1>16. ASSUME NEW i \in Inv, Finish(i) PROVE StageInv'
  BY <1>16 DEF Finish, TypeOK, StageInv
<1>17. ASSUME NEW i \in Inv, TaskCancel(i) PROVE StageInv'
  BY <1>17 DEF TaskCancel, TypeOK, StageInv
<1>18. ASSUME NEW i \in Inv, TaskWait(i) PROVE StageInv'
  BY <1>18 DEF TaskWait, TypeOK, StageInv
<1>19. ASSUME NEW i \in Inv, TaskFree(i) PROVE StageInv'
  BY <1>19 DEF TaskFree, TypeOK, StageInv
<1>20. ASSUME NEW i \in Inv, TaskJoined(i) PROVE StageInv'
  BY <1>20 DEF TaskJoined, TypeOK, StageInv
<1>21. ASSUME NEW i \in Inv, Expire(i) PROVE StageInv'
  BY <1>21 DEF Expire, TypeOK, StageInv
<1>22. CASE EditDisk
  BY <1>22 DEF EditDisk, Seen, TypeOK, StageInv
<1>23. CASE Rescan
  BY <1>23 DEF Rescan, Seen, TypeOK, StageInv
<1>24. CASE UNCHANGED vars
  BY <1>24 DEF vars, TypeOK, StageInv
<1> QED
  BY <1>1, <1>2, <1>3, <1>4, <1>5, <1>6, <1>7, <1>8, <1>9, <1>9a, <1>10, <1>11, <1>12, <1>13, <1>14, <1>15, <1>16, <1>17, <1>18, <1>19, <1>20, <1>21, <1>22, <1>23, <1>24
  DEF Next, ThreadStep, HostStep, AllReturned

\* Every step keeps slots_used equal to the number of holders, within the
\* limit: only AdmitGrant and Release change either.
LEMMA NextSlot == TypeOK /\ StageInv /\ SlotInv /\ [Next]_vars => SlotInv'
<1> SUFFICES ASSUME TypeOK, StageInv, SlotInv, [Next]_vars PROVE SlotInv'
  OBVIOUS
<1>0. IsFiniteSet(Holders)
  BY SubsetsFinite DEF Holders
<1>1. ASSUME NEW i \in Inv, Start(i) PROVE SlotInv'
  BY <1>1 DEF Start, SlotInv, Holders
<1>2. ASSUME NEW i \in Inv, Resolve(i) PROVE SlotInv'
  BY <1>2 DEF Resolve, SlotInv, Holders
<1>3. ASSUME NEW i \in Inv, Prepare(i) PROVE SlotInv'
  BY <1>3 DEF Prepare, SlotInv, Holders
<1>4. ASSUME NEW i \in Inv, AdmitCancelled(i) PROVE SlotInv'
  BY <1>4 DEF AdmitCancelled, StopWaiting, SlotInv, Holders
<1>5. ASSUME NEW i \in Inv, AdmitTimeout(i) PROVE SlotInv'
  BY <1>5 DEF AdmitTimeout, StopWaiting, SlotInv, Holders
<1>6. ASSUME NEW i \in Inv, AdmitGrant(i) PROVE SlotInv'
  <2>1. Holders' = Holders \cup {i} /\ i \notin Holders
    BY SMTT(30), <1>6 DEF AdmitGrant, Holders, TypeOK, StageInv
  <2>2. Cardinality(Holders') = Cardinality(Holders) + 1
    BY <1>0, <2>1, FS_AddElement
  <2> QED
    BY <1>6, <2>2, MaxAssumption DEF AdmitGrant, HasRoom, SlotInv, TypeOK
<1>7. ASSUME NEW i \in Inv, AdmitWait(i) PROVE SlotInv'
  BY <1>7 DEF AdmitWait, SlotInv, Holders
<1>8. ASSUME NEW i \in Inv, Recheck(i) PROVE SlotInv'
  BY <1>8 DEF Recheck, SlotInv, Holders
<1>9. ASSUME NEW i \in Inv, Verify(i) PROVE SlotInv'
  BY <1>9 DEF Verify, SlotInv, Holders
<1>9a. ASSUME NEW i \in Inv, CheckSnapshot(i) PROVE SlotInv'
  BY <1>9a DEF CheckSnapshot, Selected, SlotInv, Holders
<1>10. ASSUME NEW i \in Inv, Gate(i) PROVE SlotInv'
  BY <1>10 DEF Gate, SlotInv, Holders
<1>11. ASSUME NEW i \in Inv, ExecReturns(i) PROVE SlotInv'
  BY <1>11 DEF ExecReturns, SlotInv, Holders
<1>12. ASSUME NEW i \in Inv, ExecStopped(i) PROVE SlotInv'
  BY <1>12 DEF ExecStopped, SlotInv, Holders
<1>13. ASSUME NEW i \in Inv, Count(i) PROVE SlotInv'
  BY <1>13 DEF Count, SlotInv, Holders
<1>14. ASSUME NEW i \in Inv, Audit(i) PROVE SlotInv'
  BY <1>14 DEF Audit, SlotInv, Holders
<1>15. ASSUME NEW i \in Inv, Release(i) PROVE SlotInv'
  <2>1. Holders' = Holders \ {i}
    BY <1>15 DEF Release, Holders, TypeOK
  <2>2. Cardinality(Holders') = IF i \in Holders THEN Cardinality(Holders) - 1
                                                ELSE Cardinality(Holders)
    BY <1>0, <2>1, FS_RemoveElement
  <2>3. i \in Holders => Cardinality(Holders) > 0
    BY <1>0, FS_EmptySet, FS_CardinalityType
  <2> QED
    BY <1>15, <2>2, <2>3, MaxAssumption DEF Release, SlotInv, Holders, TypeOK
<1>16. ASSUME NEW i \in Inv, Finish(i) PROVE SlotInv'
  BY <1>16 DEF Finish, SlotInv, Holders
<1>17. ASSUME NEW i \in Inv, TaskCancel(i) PROVE SlotInv'
  BY <1>17 DEF TaskCancel, SlotInv, Holders
<1>18. ASSUME NEW i \in Inv, TaskWait(i) PROVE SlotInv'
  BY <1>18 DEF TaskWait, SlotInv, Holders
<1>19. ASSUME NEW i \in Inv, TaskFree(i) PROVE SlotInv'
  BY <1>19 DEF TaskFree, SlotInv, Holders
<1>20. ASSUME NEW i \in Inv, TaskJoined(i) PROVE SlotInv'
  BY <1>20 DEF TaskJoined, SlotInv, Holders
<1>21. ASSUME NEW i \in Inv, Expire(i) PROVE SlotInv'
  BY <1>21 DEF Expire, SlotInv, Holders
<1>22. CASE EditDisk
  BY <1>22 DEF EditDisk, Seen, SlotInv, Holders
<1>23. CASE Rescan
  BY <1>23 DEF Rescan, Seen, SlotInv, Holders
<1>24. CASE UNCHANGED vars
  BY <1>24 DEF vars, SlotInv, Holders
<1> QED
  BY <1>1, <1>2, <1>3, <1>4, <1>5, <1>6, <1>7, <1>8, <1>9, <1>9a, <1>10, <1>11, <1>12, <1>13, <1>14, <1>15, <1>16, <1>17, <1>18, <1>19, <1>20, <1>21, <1>22, <1>23, <1>24
  DEF Next, ThreadStep, HostStep, AllReturned

\* For every number of threads and slots: the admission counters are exact on
\* every path out of astools_invoke_impl and the limit is never exceeded.
THEOREM SlotsExact == Spec => []SlotAccounting
<1> DEFINE All == TypeOK /\ WaitInv /\ StageInv /\ SlotInv
<1>1. Init => All
  BY InitType, InitSlot
<1>2. All /\ [Next]_vars => All'
  BY NextType, NextStage, NextSlot
<1>3. All => SlotAccounting
  BY DEF SlotAccounting, SlotInv, WaitInv, StageInv, Holders, Waiters
<1> QED
  BY <1>1, <1>2, <1>3, PTL DEF Spec

(***************************************************************************)
(* Freshness of what is dispatched.                                        *)
(***************************************************************************)

FreshInv ==
    \A i \in Inv :
        /\ have_slot[i] => disk \in since[i].disk /\ table \in since[i].table
        /\ pc[i] \in {"verify", "snapshot", "gate", "run"} => sha[i] \in since[i].table
        /\ pc[i] \in {"snapshot", "gate", "run"} =>
              (Enforce => since[i].disk \cap Approved # {})
        /\ pc[i] \in {"gate", "run"} =>
              (expected[i] # None => /\ expected[i] = sha[i]
                                     /\ expected[i] \in since[i].disk)

\* What a world step records: nothing is forgotten, the new values are added.
LEMMA SeenGrows ==
    ASSUME TypeOK, NEW bytes, NEW entry, Seen(bytes, entry), NEW i \in Inv
    PROVE  /\ since[i].disk \subseteq since'[i].disk
           /\ since[i].table \subseteq since'[i].table
           /\ have_slot[i] => bytes \in since'[i].disk /\ entry \in since'[i].table
BY DEF Seen, TypeOK

\* Every step preserves the freshness invariant: each check records what it
\* saw after the grant, and world steps only add to what was seen.
LEMMA NextFresh == TypeOK /\ StageInv /\ FreshInv /\ [Next]_vars => FreshInv'
<1> SUFFICES ASSUME TypeOK, StageInv, FreshInv, [Next]_vars PROVE FreshInv'
  OBVIOUS
<1> USE DEF Goto, Done, Proceed
<1>1. ASSUME NEW i \in Inv, Start(i) PROVE FreshInv'
  BY <1>1 DEF Start, TypeOK, StageInv, FreshInv
<1>2. ASSUME NEW i \in Inv, Resolve(i) PROVE FreshInv'
  BY <1>2 DEF Resolve, TypeOK, StageInv, FreshInv
<1>3. ASSUME NEW i \in Inv, Prepare(i) PROVE FreshInv'
  BY <1>3 DEF Prepare, TypeOK, StageInv, FreshInv
<1>4. ASSUME NEW i \in Inv, AdmitCancelled(i) PROVE FreshInv'
  BY <1>4 DEF AdmitCancelled, StopWaiting, TypeOK, StageInv, FreshInv
<1>5. ASSUME NEW i \in Inv, AdmitTimeout(i) PROVE FreshInv'
  BY <1>5 DEF AdmitTimeout, StopWaiting, TypeOK, StageInv, FreshInv
<1>6. ASSUME NEW i \in Inv, AdmitGrant(i) PROVE FreshInv'
  BY <1>6 DEF AdmitGrant, StopWaiting, TypeOK, StageInv, FreshInv
<1>7. ASSUME NEW i \in Inv, AdmitWait(i) PROVE FreshInv'
  BY <1>7 DEF AdmitWait, TypeOK, StageInv, FreshInv
<1>8. ASSUME NEW i \in Inv, Recheck(i) PROVE FreshInv'
  BY <1>8 DEF Recheck, TypeOK, StageInv, FreshInv
<1>9. ASSUME NEW i \in Inv, Verify(i) PROVE FreshInv'
  BY <1>9 DEF Verify, TypeOK, StageInv, FreshInv
<1>9a. ASSUME NEW i \in Inv, CheckSnapshot(i) PROVE FreshInv'
  BY <1>9a DEF CheckSnapshot, Selected, TypeOK, StageInv, FreshInv
<1>10. ASSUME NEW i \in Inv, Gate(i) PROVE FreshInv'
  BY <1>10 DEF Gate, TypeOK, StageInv, FreshInv
<1>11. ASSUME NEW i \in Inv, ExecReturns(i) PROVE FreshInv'
  BY <1>11 DEF ExecReturns, TypeOK, StageInv, FreshInv
<1>12. ASSUME NEW i \in Inv, ExecStopped(i) PROVE FreshInv'
  BY <1>12 DEF ExecStopped, TypeOK, StageInv, FreshInv
<1>13. ASSUME NEW i \in Inv, Count(i) PROVE FreshInv'
  BY <1>13 DEF Count, TypeOK, StageInv, FreshInv
<1>14. ASSUME NEW i \in Inv, Audit(i) PROVE FreshInv'
  BY <1>14 DEF Audit, TypeOK, StageInv, FreshInv
<1>15. ASSUME NEW i \in Inv, Release(i) PROVE FreshInv'
  BY <1>15 DEF Release, TypeOK, StageInv, FreshInv
<1>16. ASSUME NEW i \in Inv, Finish(i) PROVE FreshInv'
  BY <1>16 DEF Finish, TypeOK, StageInv, FreshInv
<1>17. ASSUME NEW i \in Inv, TaskCancel(i) PROVE FreshInv'
  BY <1>17 DEF TaskCancel, TypeOK, StageInv, FreshInv
<1>18. ASSUME NEW i \in Inv, TaskWait(i) PROVE FreshInv'
  BY <1>18 DEF TaskWait, TypeOK, StageInv, FreshInv
<1>19. ASSUME NEW i \in Inv, TaskFree(i) PROVE FreshInv'
  BY <1>19 DEF TaskFree, TypeOK, StageInv, FreshInv
<1>20. ASSUME NEW i \in Inv, TaskJoined(i) PROVE FreshInv'
  BY <1>20 DEF TaskJoined, TypeOK, StageInv, FreshInv
<1>21. ASSUME NEW i \in Inv, Expire(i) PROVE FreshInv'
  BY <1>21 DEF Expire, TypeOK, StageInv, FreshInv
<1>22. CASE EditDisk
  <2>1. PICK bytes : disk' = bytes /\ Seen(bytes, table)
    BY <1>22 DEF EditDisk
  <2>2. UNCHANGED <<pc, have_slot, sha, expected, table>>
    BY <1>22 DEF EditDisk
  <2> QED
    BY <2>1, <2>2, SeenGrows DEF FreshInv, StageInv
<1>23. CASE Rescan
  <2>1. table' = Published(disk) /\ Seen(disk, table')
    BY <1>23 DEF Rescan
  <2>2. UNCHANGED <<pc, have_slot, sha, expected, disk>>
    BY <1>23 DEF Rescan
  <2> QED
    BY <2>1, <2>2, SeenGrows DEF FreshInv, StageInv
<1>24. CASE UNCHANGED vars
  BY <1>24 DEF vars, TypeOK, StageInv, FreshInv
<1> QED
  BY <1>1, <1>2, <1>3, <1>4, <1>5, <1>6, <1>7, <1>8, <1>9, <1>9a, <1>10, <1>11, <1>12, <1>13, <1>14, <1>15, <1>16, <1>17, <1>18, <1>19, <1>20, <1>21, <1>22, <1>23, <1>24
  DEF Next, ThreadStep, HostStep, AllReturned

\* Whatever replacements, scans and waits happen, a tool is dispatched only
\* with an identity that was current after its slot was granted, with bytes
\* that the lockfile and the host's selection accepted after the grant.
THEOREM DispatchFresh == Spec => []DispatchIsFresh
<1> DEFINE All == TypeOK /\ WaitInv /\ StageInv /\ FreshInv
<1>1. Init => All
  BY InitType, InitSlot DEF Init, FreshInv
<1>2. All /\ [Next]_vars => All'
  BY NextType, NextStage, NextFresh
<1>3. All => DispatchIsFresh
  BY DEF FreshInv, StageInv, DispatchIsFresh
<1> QED
  BY <1>1, <1>2, <1>3, PTL DEF Spec

(***************************************************************************)
(* The pipeline implements InvocationService.                              *)
(***************************************************************************)

AdmittedInv ==
    \A i \in Inv :
        /\ pc[i] \in {"idle", "resolve", "prepare", "admit"} =>
              since[i].table = {} /\ ~have_slot[i]
        /\ pc[i] \in {"recheck", "verify", "snapshot", "gate", "run"} => since[i].table # {}
        /\ have_slot[i] => since[i].table # {}
        /\ verdict[i] \in {"ok", "toolerr"} => since[i].table # {}
        /\ pc[i] \in {"count", "audit", "release", "finish", "returned"}
              => verdict[i] # "none"

\* Every step preserves what ties verdicts and slots to the grant.
LEMMA NextAdmitted == TypeOK /\ StageInv /\ AdmittedInv /\ [Next]_vars => AdmittedInv'
<1> SUFFICES ASSUME TypeOK, StageInv, AdmittedInv, [Next]_vars PROVE AdmittedInv'
  OBVIOUS
<1> USE DEF Goto, Done, Proceed, Unresolved
<1>1. ASSUME NEW i \in Inv, Start(i) PROVE AdmittedInv'
  BY <1>1 DEF Start, TypeOK, StageInv, AdmittedInv
<1>2. ASSUME NEW i \in Inv, Resolve(i) PROVE AdmittedInv'
  BY SMTT(30), <1>2 DEF Resolve, TypeOK, StageInv, AdmittedInv
<1>3. ASSUME NEW i \in Inv, Prepare(i) PROVE AdmittedInv'
  BY <1>3 DEF Prepare, TypeOK, StageInv, AdmittedInv
<1>4. ASSUME NEW i \in Inv, AdmitCancelled(i) PROVE AdmittedInv'
  BY <1>4 DEF AdmitCancelled, StopWaiting, TypeOK, StageInv, AdmittedInv
<1>5. ASSUME NEW i \in Inv, AdmitTimeout(i) PROVE AdmittedInv'
  BY <1>5 DEF AdmitTimeout, StopWaiting, TypeOK, StageInv, AdmittedInv
<1>6. ASSUME NEW i \in Inv, AdmitGrant(i) PROVE AdmittedInv'
  BY <1>6 DEF AdmitGrant, StopWaiting, TypeOK, StageInv, AdmittedInv
<1>7. ASSUME NEW i \in Inv, AdmitWait(i) PROVE AdmittedInv'
  BY <1>7 DEF AdmitWait, TypeOK, StageInv, AdmittedInv
<1>8. ASSUME NEW i \in Inv, Recheck(i) PROVE AdmittedInv'
  BY <1>8 DEF Recheck, TypeOK, StageInv, AdmittedInv
<1>9. ASSUME NEW i \in Inv, Verify(i) PROVE AdmittedInv'
  BY <1>9 DEF Verify, TypeOK, StageInv, AdmittedInv
<1>9a. ASSUME NEW i \in Inv, CheckSnapshot(i) PROVE AdmittedInv'
  BY <1>9a DEF CheckSnapshot, Selected, TypeOK, StageInv, AdmittedInv
<1>10. ASSUME NEW i \in Inv, Gate(i) PROVE AdmittedInv'
  BY <1>10 DEF Gate, TypeOK, StageInv, AdmittedInv
<1>11. ASSUME NEW i \in Inv, ExecReturns(i) PROVE AdmittedInv'
  BY <1>11 DEF ExecReturns, TypeOK, StageInv, AdmittedInv
<1>12. ASSUME NEW i \in Inv, ExecStopped(i) PROVE AdmittedInv'
  BY <1>12 DEF ExecStopped, TypeOK, StageInv, AdmittedInv
<1>13. ASSUME NEW i \in Inv, Count(i) PROVE AdmittedInv'
  BY <1>13 DEF Count, TypeOK, StageInv, AdmittedInv
<1>14. ASSUME NEW i \in Inv, Audit(i) PROVE AdmittedInv'
  BY <1>14 DEF Audit, TypeOK, StageInv, AdmittedInv
<1>15. ASSUME NEW i \in Inv, Release(i) PROVE AdmittedInv'
  BY <1>15 DEF Release, TypeOK, StageInv, AdmittedInv
<1>16. ASSUME NEW i \in Inv, Finish(i) PROVE AdmittedInv'
  BY <1>16 DEF Finish, TypeOK, StageInv, AdmittedInv
<1>17. ASSUME NEW i \in Inv, TaskCancel(i) PROVE AdmittedInv'
  BY <1>17 DEF TaskCancel, TypeOK, StageInv, AdmittedInv
<1>18. ASSUME NEW i \in Inv, TaskWait(i) PROVE AdmittedInv'
  BY <1>18 DEF TaskWait, TypeOK, StageInv, AdmittedInv
<1>19. ASSUME NEW i \in Inv, TaskFree(i) PROVE AdmittedInv'
  BY <1>19 DEF TaskFree, TypeOK, StageInv, AdmittedInv
<1>20. ASSUME NEW i \in Inv, TaskJoined(i) PROVE AdmittedInv'
  BY <1>20 DEF TaskJoined, TypeOK, StageInv, AdmittedInv
<1>21. ASSUME NEW i \in Inv, Expire(i) PROVE AdmittedInv'
  BY <1>21 DEF Expire, TypeOK, StageInv, AdmittedInv
<1>22. CASE EditDisk
  <2>1. \A i \in Inv : /\ since[i].table \subseteq since'[i].table
                       /\ ~have_slot[i] => since'[i] = since[i]
    BY <1>22 DEF EditDisk, Seen, TypeOK
  <2>2. UNCHANGED <<pc, have_slot, verdict>>
    BY <1>22 DEF EditDisk
  <2> QED
    BY <2>1, <2>2 DEF AdmittedInv
<1>23. CASE Rescan
  <2>1. \A i \in Inv : /\ since[i].table \subseteq since'[i].table
                       /\ ~have_slot[i] => since'[i] = since[i]
    BY <1>23 DEF Rescan, Seen, TypeOK
  <2>2. UNCHANGED <<pc, have_slot, verdict>>
    BY <1>23 DEF Rescan
  <2> QED
    BY <2>1, <2>2 DEF AdmittedInv
<1>24. CASE UNCHANGED vars
  BY <1>24 DEF vars, TypeOK, StageInv, AdmittedInv
<1> QED
  BY <1>1, <1>2, <1>3, <1>4, <1>5, <1>6, <1>7, <1>8, <1>9, <1>9a, <1>10, <1>11, <1>12, <1>13, <1>14, <1>15, <1>16, <1>17, <1>18, <1>19, <1>20, <1>21, <1>22, <1>23, <1>24
  DEF Next, ThreadStep, HostStep, AllReturned

\* The first state of the pipeline maps to the first state of the service.
LEMMA InitRefines == Init => Service!Init
BY DEF Init, Service!Init, Called, Admitted, Holders, Outcome

\* A step that moves no invocation across a boundary of the service is
\* invisible to it.
LEMMA Invisible ==
    ASSUME TypeOK,
           \A i \in Inv : /\ (pc'[i] = "idle") = (pc[i] = "idle")
                          /\ (pc'[i] = "returned") = (pc[i] = "returned")
                          /\ pc[i] = "returned" => verdict'[i] = verdict[i]
                          /\ have_slot'[i] = have_slot[i]
                          /\ (since'[i].table = {}) = (since[i].table = {})
    PROVE  UNCHANGED <<Called, Admitted, Holders, Outcome>>
BY DEF Called, Admitted, Holders, Outcome

\* Start, AdmitGrant, Release and Finish map to a step of the service, every
\* other step to a stutter.
LEMMA NextRefines ==
    TypeOK /\ StageInv /\ SlotInv /\ AdmittedInv /\ [Next]_vars
        => [Service!Next]_<<Called, Admitted, Holders, Outcome>>
<1> DEFINE Step == \/ \E i \in Inv : \/ Service!Call(i) \/ Service!Admit(i)
                                     \/ Service!Leave(i) \/ Service!Return(i)
                   \/ UNCHANGED <<Called, Admitted, Holders, Outcome>>
<1> SUFFICES ASSUME TypeOK, StageInv, SlotInv, AdmittedInv, [Next]_vars
             PROVE  Step
  BY DEF Service!Next
<1> USE DEF Goto, Done, Proceed
<1>1. ASSUME NEW i \in Inv, Start(i) PROVE Step
  <2>1. Called' = Called \cup {i} /\ i \notin Called
    BY <1>1 DEF Start, Called, TypeOK
  <2>2. UNCHANGED <<Admitted, Holders, Outcome>>
    BY <1>1 DEF Start, Admitted, Holders, Outcome, TypeOK
  <2> QED
    BY <2>1, <2>2 DEF Service!Call
<1>2. ASSUME NEW i \in Inv, Resolve(i) PROVE Step
  BY <1>2, Invisible DEF Resolve, TypeOK, AdmittedInv
<1>3. ASSUME NEW i \in Inv, Prepare(i) PROVE Step
  BY <1>3, Invisible DEF Prepare, TypeOK, AdmittedInv
<1>4. ASSUME NEW i \in Inv, AdmitCancelled(i) PROVE Step
  BY <1>4, Invisible DEF AdmitCancelled, StopWaiting, TypeOK, AdmittedInv
<1>5. ASSUME NEW i \in Inv, AdmitTimeout(i) PROVE Step
  BY <1>5, Invisible DEF AdmitTimeout, StopWaiting, TypeOK, AdmittedInv
<1>6. ASSUME NEW i \in Inv, AdmitGrant(i) PROVE Step
  <2>1. i \in Called \ Admitted /\ Outcome[i] = "none"
    BY <1>6 DEF AdmitGrant, Called, Admitted, Outcome, AdmittedInv
  <2>2. Cardinality(Holders) < MaxConcurrent
    BY <1>6 DEF AdmitGrant, HasRoom, SlotInv
  <2>3. Admitted' = Admitted \cup {i}
    BY ZenonT(40), <1>6 DEF AdmitGrant, Admitted, TypeOK
  <2>4. Holders' = Holders \cup {i}
    BY <1>6 DEF AdmitGrant, Holders, TypeOK
  <2>5. UNCHANGED <<Called, Outcome>>
    BY <1>6 DEF AdmitGrant, Called, Outcome, TypeOK
  <2>6. Service!Cardinality(Holders) = Cardinality(Holders)
    BY Zenon DEF Service!Cardinality, Cardinality
  <2>7. Service!Admit(i)
    BY <2>1, <2>2, <2>3, <2>4, <2>5, <2>6 DEF Service!Admit
  <2> QED
    BY <2>7
<1>7. ASSUME NEW i \in Inv, AdmitWait(i) PROVE Step
  BY <1>7, Invisible DEF AdmitWait, TypeOK, AdmittedInv
<1>8. ASSUME NEW i \in Inv, Recheck(i) PROVE Step
  BY <1>8, Invisible DEF Recheck, TypeOK, AdmittedInv
<1>9. ASSUME NEW i \in Inv, Verify(i) PROVE Step
  BY <1>9, Invisible DEF Verify, TypeOK, AdmittedInv
<1>9a. ASSUME NEW i \in Inv, CheckSnapshot(i) PROVE Step
  BY <1>9a, Invisible DEF CheckSnapshot, Selected, TypeOK, AdmittedInv
<1>10. ASSUME NEW i \in Inv, Gate(i) PROVE Step
  BY <1>10, Invisible DEF Gate, TypeOK, AdmittedInv
<1>11. ASSUME NEW i \in Inv, ExecReturns(i) PROVE Step
  BY <1>11, Invisible DEF ExecReturns, TypeOK, AdmittedInv
<1>12. ASSUME NEW i \in Inv, ExecStopped(i) PROVE Step
  BY <1>12, Invisible DEF ExecStopped, TypeOK, AdmittedInv
<1>13. ASSUME NEW i \in Inv, Count(i) PROVE Step
  BY <1>13, Invisible DEF Count, TypeOK, AdmittedInv
<1>14. ASSUME NEW i \in Inv, Audit(i) PROVE Step
  BY <1>14, Invisible DEF Audit, TypeOK, AdmittedInv
<1>15. ASSUME NEW i \in Inv, Release(i) PROVE Step
  <2>1. UNCHANGED <<Called, Admitted, Outcome>>
    BY <1>15 DEF Release, Called, Admitted, Outcome, TypeOK
  <2>2. Holders' = Holders \ {i}
    BY <1>15 DEF Release, Holders, TypeOK
  <2>3. CASE i \in Holders
    BY <2>1, <2>2, <2>3 DEF Service!Leave
  <2>4. CASE i \notin Holders
    BY <2>1, <2>2, <2>4
  <2> QED
    BY <2>3, <2>4
<1>16. ASSUME NEW i \in Inv, Finish(i) PROVE Step
  <2>1. i \in Called \ Holders /\ Outcome[i] = "none"
    BY <1>16 DEF Finish, Called, Holders, Outcome, StageInv
  <2>2. Outcome' = [Outcome EXCEPT ![i] = verdict[i]]
    BY <1>16 DEF Finish, Outcome, TypeOK
  <2>3. verdict[i] \in {"denied", "timeout", "cancelled", "error"} \cup
            (IF i \in Admitted THEN {"ok", "toolerr"} ELSE {})
    BY <1>16 DEF Finish, Admitted, AdmittedInv, TypeOK, Verdicts
  <2>4. UNCHANGED <<Called, Admitted, Holders>>
    BY <1>16 DEF Finish, Called, Admitted, Holders, TypeOK
  <2> QED
    BY <2>1, <2>2, <2>3, <2>4 DEF Service!Return
<1>17. ASSUME NEW i \in Inv, TaskCancel(i) PROVE Step
  BY <1>17, Invisible DEF TaskCancel, TypeOK, AdmittedInv
<1>18. ASSUME NEW i \in Inv, TaskWait(i) PROVE Step
  BY <1>18, Invisible DEF TaskWait, TypeOK, AdmittedInv
<1>19. ASSUME NEW i \in Inv, TaskFree(i) PROVE Step
  BY <1>19, Invisible DEF TaskFree, TypeOK, AdmittedInv
<1>20. ASSUME NEW i \in Inv, TaskJoined(i) PROVE Step
  BY <1>20, Invisible DEF TaskJoined, TypeOK, AdmittedInv
<1>21. ASSUME NEW i \in Inv, Expire(i) PROVE Step
  BY <1>21, Invisible DEF Expire, TypeOK, AdmittedInv
<1>22. CASE EditDisk
  <2>1. \A i \in Inv : (since'[i].table = {}) = (since[i].table = {})
    BY <1>22 DEF EditDisk, Seen, TypeOK, AdmittedInv
  <2> QED
    BY <1>22, <2>1, Invisible DEF EditDisk
<1>23. CASE Rescan
  <2>1. \A i \in Inv : (since'[i].table = {}) = (since[i].table = {})
    BY <1>23 DEF Rescan, Seen, TypeOK, AdmittedInv
  <2> QED
    BY <1>23, <2>1, Invisible DEF Rescan
<1>24. CASE UNCHANGED vars
  BY <1>24, Invisible DEF vars
<1> QED
  BY <1>1, <1>2, <1>3, <1>4, <1>5, <1>6, <1>7, <1>8, <1>9, <1>9a, <1>10, <1>11, <1>12, <1>13, <1>14, <1>15, <1>16, <1>17, <1>18, <1>19, <1>20, <1>21, <1>22, <1>23, <1>24
  DEF Next, ThreadStep, HostStep, AllReturned

\* The detailed pipeline implements the service: at most max_concurrent calls
\* active, each admitted at most once, each given one outcome, and an answer
\* only to a call that held a slot.
THEOREM PipelineImplementsService == Spec => ImplementsService
<1> DEFINE All == TypeOK /\ WaitInv /\ StageInv /\ SlotInv /\ AdmittedInv
<1>1. Init => All
  BY InitType, InitSlot DEF Init, AdmittedInv
<1>2. All /\ [Next]_vars => All'
  BY NextType, NextStage, NextSlot, NextAdmitted
<1>3. All /\ [Next]_vars => [Service!Next]_<<Called, Admitted, Holders, Outcome>>
  BY NextRefines
<1> QED
  BY <1>1, <1>2, <1>3, InitRefines, PTL
  DEF Spec, ImplementsService, Service!Spec, Service!svars

(***************************************************************************)
(* The ledger: counters and audit records.                                 *)
(***************************************************************************)

Past == {"audit", "release", "finish", "returned"}

\* The counted invocations under one counter of astools_stats.
Under(n) == {i \in Counted : verdict[i] \in VerdictsOf[n]}

LedgerInv ==
    /\ Ledger
    /\ \A i \in Inv : pc[i] \in {"count", "audit"} => sha[i] \in Content /\ verdict[i] # "none"

\* Up to the exit of the pipeline.
EarlyStep(i) ==
    \/ Start(i) \/ Resolve(i) \/ Prepare(i)
    \/ AdmitCancelled(i) \/ AdmitTimeout(i) \/ AdmitGrant(i) \/ AdmitWait(i)
    \/ Recheck(i) \/ Verify(i) \/ CheckSnapshot(i) \/ Gate(i) \/ ExecReturns(i) \/ ExecStopped(i)

\* Steps that only the host, the clock, the disk or the registry take.
OutsideStep ==
    \/ \E i \in Inv : HostStep(i) \/ Expire(i)
    \/ EditDisk \/ Rescan \/ UNCHANGED vars

\* A verdict has one counter.
LEMMA OneCounter ==
    ASSUME NEW v \in Verdicts \ {"none"}, NEW n \in Counters
    PROVE  v \in VerdictsOf[n] <=> n = CounterOf(v)
BY DEF Verdicts, Counters, VerdictsOf, CounterOf

\* No call is counted before the exit, and one that leaves without a resolved
\* ref never is.
LEMMA EarlyUncounted ==
    ASSUME TypeOK, StageInv, NEW i \in Inv, EarlyStep(i)
    PROVE  /\ UNCHANGED ledgerVars
           /\ \A j \in Inv : j # i => pc'[j] = pc[j] /\ sha'[j] = sha[j] /\ verdict'[j] = verdict[j]
           /\ pc[i] \notin Past
           /\ pc'[i] \notin Past \/ (pc'[i] = "release" /\ sha'[i] \notin Content)
           /\ pc'[i] = "count" => sha'[i] \in Content /\ verdict'[i] # "none"
<1> USE DEF TypeOK, StageInv, Past, Goto, Done, Proceed
<1>1. CASE Start(i) \/ Prepare(i)
  BY <1>1 DEF Start, Prepare
<1>2. CASE Resolve(i)
  BY <1>2, ContentAssumption DEF Resolve, Unresolved
<1>3. CASE AdmitCancelled(i) \/ AdmitTimeout(i) \/ AdmitGrant(i) \/ AdmitWait(i)
  BY <1>3 DEF AdmitCancelled, AdmitTimeout, AdmitGrant, AdmitWait
<1>4. CASE Recheck(i) \/ Verify(i) \/ CheckSnapshot(i)
  BY <1>4 DEF Recheck, Unresolved, Verify, CheckSnapshot
<1>5. CASE Gate(i) \/ ExecReturns(i) \/ ExecStopped(i)
  BY <1>5 DEF Gate, ExecReturns, ExecStopped
<1> QED
  BY <1>1, <1>2, <1>3, <1>4, <1>5 DEF EarlyStep

\* A step that counts nobody leaves the books balanced.
LEMMA SameBooks ==
    ASSUME LedgerInv, UNCHANGED ledgerVars,
           \A j \in Inv : /\ (sha'[j] \in Content /\ pc'[j] \in Past)
                                <=> (sha[j] \in Content /\ pc[j] \in Past)
                          /\ sha[j] \in Content /\ pc[j] \in Past => verdict'[j] = verdict[j]
                          /\ sha[j] \in Content => (pc'[j] = "audit" <=> pc[j] = "audit")
                          /\ pc'[j] \in {"count", "audit"} =>
                                sha'[j] \in Content /\ verdict'[j] # "none"
    PROVE  LedgerInv'
<1>1. Counted' = Counted /\ \A j \in Counted : verdict'[j] = verdict[j]
  BY DEF Counted, Past
<1>2. \A n : Under(n)' = Under(n)
  BY <1>1 DEF Under
<1>3. {j \in Counted : pc[j] # "audit"}' = {j \in Counted : pc[j] # "audit"}
  BY <1>1 DEF Counted
<1> QED
  BY <1>1, <1>2, <1>3 DEF LedgerInv, Ledger, Under

\* Step 7: one more invocation, under one more counter.
LEMMA LedgerCount == ASSUME TypeOK, LedgerInv, NEW i \in Inv, Count(i) PROVE LedgerInv'
<1> USE DEF Count, Proceed, Goto
<1> DEFINE c == CounterOf(verdict[i])
<1>1. /\ sha[i] \in Content /\ verdict[i] \in Verdicts \ {"none"} /\ c \in Counters
      /\ UNCHANGED <<sha, verdict, audited>>
  BY CounterOfType DEF LedgerInv, TypeOK
<1>2. pc'[i] = "audit" /\ \A j \in Inv : j # i => pc'[j] = pc[j]
  BY DEF TypeOK
<1>3. Counted' = Counted \cup {i} /\ i \notin Counted
  BY <1>1, <1>2 DEF Counted
<1>4. ASSUME NEW n \in Counters
      PROVE  Under(n)' = IF n = c THEN Under(n) \cup {i} ELSE Under(n)
  <2>1. verdict[i] \in VerdictsOf[n] <=> n = c
    BY <1>1, OneCounter
  <2> QED
    BY <1>1, <1>3, <2>1 DEF Under
<1>5. /\ stats'["invocations"] = stats["invocations"] + 1
      /\ \A n \in Counters : stats'[n] = IF n = c THEN stats[n] + 1 ELSE stats[n]
  BY <1>1 DEF TypeOK, Counters
<1> HIDE DEF c
<1>6. /\ IsFiniteSet(Counted) /\ Cardinality(Counted) \in Nat
      /\ \A n \in Counters : IsFiniteSet(Under(n)) /\ Cardinality(Under(n)) \in Nat
  BY SubsetsFinite DEF Counted, Under
<1>7. stats'["invocations"] = Cardinality(Counted')
  <2>1. Cardinality(Counted') = Cardinality(Counted) + 1
    BY <1>3, <1>6, FS_AddElement
  <2>2. stats["invocations"] = Cardinality(Counted)
    BY DEF LedgerInv, Ledger
  <2> QED
    BY <1>5, <2>1, <2>2
<1>8. ASSUME NEW n \in Counters PROVE stats'[n] = Cardinality(Under(n)')
  <2>1. stats[n] = Cardinality(Under(n))
    BY DEF LedgerInv, Ledger, Under
  <2>2. i \notin Under(n)
    BY <1>3 DEF Under
  <2>3. CASE n = c
    <3>1. Under(n)' = Under(n) \cup {i}
      BY <1>4, <2>3
    <3>2. Cardinality(Under(n)') = Cardinality(Under(n)) + 1
      BY <3>1, <1>6, <2>2, FS_AddElement
    <3> QED
      BY <3>2, <1>5, <2>1, <2>3
  <2>4. CASE n # c
    BY <1>4, <1>5, <2>1, <2>4
  <2> QED
    BY <2>3, <2>4
<1>9. audited' = {j \in Counted' : pc'[j] # "audit"}
  <2>1. audited = {j \in Counted : pc[j] # "audit"}
    BY DEF LedgerInv, Ledger
  <2>2. \A j \in Counted : j # i /\ j \in Inv /\ pc'[j] = pc[j]
    BY <1>2, <1>3 DEF Counted
  <2> QED
    BY <1>1, <1>2, <1>3, <2>1, <2>2
<1>10. \A j \in Inv : pc'[j] \in {"count", "audit"} => sha'[j] \in Content /\ verdict'[j] # "none"
  BY <1>1, <1>2 DEF LedgerInv
<1> QED
  BY <1>7, <1>8, <1>9, <1>10 DEF LedgerInv, Ledger, Under

\* The audit record is written between counting a call and releasing its slot, and
\* only once.
LEMMA LedgerAudit == ASSUME TypeOK, LedgerInv, NEW i \in Inv, Audit(i) PROVE LedgerInv'
<1> USE DEF Audit, Proceed, Goto
<1>1. sha[i] \in Content /\ UNCHANGED <<sha, verdict, stats>>
  BY DEF LedgerInv
<1>2. pc'[i] = "release" /\ \A j \in Inv : j # i => pc'[j] = pc[j]
  BY DEF TypeOK
<1>3. Counted' = Counted /\ i \in Counted
  BY <1>1, <1>2 DEF Counted
<1>4. \A n : Under(n)' = Under(n)
  BY <1>1, <1>3 DEF Under
<1>5. audited' = {j \in Counted' : pc'[j] # "audit"}
  BY <1>2, <1>3 DEF LedgerInv, Ledger, Counted
<1>6. \A j \in Inv : pc'[j] \in {"count", "audit"} => sha'[j] \in Content /\ verdict'[j] # "none"
  BY <1>1, <1>2 DEF LedgerInv
<1> QED
  BY <1>1, <1>3, <1>4, <1>5, <1>6 DEF LedgerInv, Ledger, Under

\* A step keeps the books: only counting, auditing and a new attempt touch them.
LEMMA NextLedger == ASSUME TypeOK, StageInv, LedgerInv, [Next]_vars PROVE LedgerInv'
<1>1. ASSUME NEW i \in Inv, EarlyStep(i) PROVE LedgerInv'
  BY <1>1, EarlyUncounted, SameBooks DEF LedgerInv, Past
<1>2. ASSUME NEW i \in Inv, Release(i) \/ Finish(i) PROVE LedgerInv'
  <2>1. UNCHANGED <<sha, verdict, ledgerVars>> /\ pc[i] \in {"release", "finish"}
        /\ pc'[i] \in {"finish", "returned"} /\ \A j \in Inv : j # i => pc'[j] = pc[j]
    BY <1>2 DEF Release, Finish, Proceed, Goto, TypeOK
  <2> QED
    BY <2>1, SameBooks DEF LedgerInv, Past
<1>3. ASSUME OutsideStep PROVE LedgerInv'
  <2>1. UNCHANGED <<pc, sha, verdict, ledgerVars>>
    BY <1>3 DEF OutsideStep, HostStep, TaskCancel, TaskWait, TaskFree, TaskJoined, Expire,
                EditDisk, Rescan, vars
  <2> QED
    BY <2>1, SameBooks DEF LedgerInv, Past
<1> QED
  BY <1>1, <1>2, <1>3, LedgerCount, LedgerAudit
  DEF Next, ThreadStep, AllReturned, EarlyStep, OutsideStep

\* No call is counted before the first has run.
LEMMA InitLedger == Init => LedgerInv
<1> SUFFICES ASSUME Init PROVE LedgerInv
  OBVIOUS
<1>1. Counted = {} /\ \A n : Under(n) = {}
  BY DEF Init, Counted, Under
<1>2. stats["invocations"] = 0 /\ \A n \in Counters : stats[n] = 0
  BY DEF Init
<1> QED
  BY <1>1, <1>2, FS_EmptySet DEF Init, LedgerInv, Ledger, Under

\* Whatever way an invocation of a real tool ends, it is counted once, under the
\* counter of its verdict, and has its audit record.
THEOREM BooksBalance == Spec => []Ledger
<1> DEFINE All == TypeOK /\ WaitInv /\ StageInv /\ LedgerInv
<1>1. Init => All
  BY InitType, InitSlot, InitLedger
<1>2. All /\ [Next]_vars => All'
  BY NextType, NextStage, NextLedger
<1>3. All => Ledger
  BY DEF LedgerInv
<1> QED
  BY <1>1, <1>2, <1>3, PTL DEF Spec

(***************************************************************************)
(* The strings of a result, and calls that were stopped.                   *)
(***************************************************************************)

OwnInv ==
    \A i \in Inv :
        /\ owners[i] \in {{}, {"task"}, {"host"}}
        /\ task[i] = "freed" => pc[i] = "returned" /\ "task" \notin owners[i]

\* A result passes from the call to its task or its host and is freed once
\* (astools_task_wait, astools_task_free).
LEMMA NextOwn == ASSUME TypeOK, OwnInv, [Next]_vars PROVE OwnInv'
<1>1. ASSUME NEW i \in Inv,
             EarlyStep(i) \/ Count(i) \/ Audit(i) \/ Release(i)
      PROVE  OwnInv'
  <2>1. /\ UNCHANGED owners /\ pc[i] # "returned" /\ \A j \in Inv : j # i => pc'[j] = pc[j]
        /\ \A j \in Inv : task'[j] = "freed" => task[j] = "freed"
    BY <1>1 DEF EarlyStep, Start, Resolve, Prepare, AdmitCancelled, AdmitTimeout, AdmitGrant,
                AdmitWait, Recheck, Verify, CheckSnapshot, Gate, ExecReturns, ExecStopped, Count,
                Audit, Release, Goto, Done, Proceed, TypeOK
  <2> QED
    BY <2>1 DEF OwnInv
<1>2. ASSUME NEW i \in Inv, Finish(i) PROVE OwnInv'
  BY <1>2 DEF Finish, Proceed, Goto, OwnInv, TypeOK
<1>3. ASSUME NEW i \in Inv, TaskWait(i) \/ TaskJoined(i) PROVE OwnInv'
  <2>1. owners'[i] \in {{}, {"task"}, {"host"}} /\ (task'[i] = "freed" => "task" \notin owners'[i])
    <3>1. owners[i] \in {{}, {"task"}, {"host"}} /\ owners \in [Inv -> SUBSET {"task", "host"}]
      BY DEF OwnInv, TypeOK
    <3>2. CASE TaskWait(i)
      <4>1. owners'[i] = (IF "task" \in owners[i] THEN {"host"} ELSE owners[i]) /\ task'[i] = "live"
        BY <3>1, <3>2 DEF TaskWait
      <4> QED
        BY <3>1, <4>1
    <3>3. CASE TaskJoined(i)
      <4>1. owners'[i] = owners[i] \ {"task"}
        BY <3>1, <3>3 DEF TaskJoined
      <4> QED
        BY <3>1, <4>1
    <3> QED
      BY <1>3, <3>2, <3>3
  <2>2. /\ pc' = pc /\ pc[i] = "returned"
        /\ \A j \in Inv : j # i => owners'[j] = owners[j] /\ task'[j] = task[j]
    BY <1>3 DEF TaskWait, TaskJoined, TypeOK
  <2> QED
    BY <2>1, <2>2 DEF OwnInv
<1>4. ASSUME NEW i \in Inv, TaskCancel(i) \/ TaskFree(i) \/ Expire(i) PROVE OwnInv'
  BY <1>4 DEF TaskCancel, TaskFree, Expire, OwnInv, TypeOK
<1>5. ASSUME EditDisk \/ Rescan \/ UNCHANGED vars PROVE OwnInv'
  BY <1>5 DEF EditDisk, Rescan, vars, OwnInv
<1> QED
  BY <1>1, <1>2, <1>3, <1>4, <1>5 DEF Next, ThreadStep, HostStep, AllReturned, EarlyStep

\* The strings of a result belong to the task or to the host, never to both, and
\* a task is released only after its thread and without the host's strings.
THEOREM OneOwner == Spec => []ResultOwnership
<1> DEFINE All == TypeOK /\ WaitInv /\ OwnInv
<1>1. Init => All
  BY InitType DEF Init, OwnInv
<1>2. All /\ [Next]_vars => All'
  BY NextType, NextOwn
<1>3. All => ResultOwnership
  <2> SUFFICES ASSUME OwnInv, NEW i \in Inv PROVE Cardinality(owners[i]) <= 1
    BY DEF ResultOwnership, OwnInv
  <2>1. Cardinality({}) = 0 /\ Cardinality({"task"}) = 1 /\ Cardinality({"host"}) = 1
    BY FS_EmptySet, FS_Singleton
  <2>2. owners[i] = {} \/ owners[i] = {"task"} \/ owners[i] = {"host"}
    BY DEF OwnInv
  <2>3. CASE owners[i] = {}
    BY <2>1, <2>3
  <2>4. CASE owners[i] = {"task"}
    BY <2>1, <2>4
  <2>5. CASE owners[i] = {"host"}
    BY <2>1, <2>5
  <2> QED
    BY <2>2, <2>3, <2>4, <2>5
<1> QED
  BY <1>1, <1>2, <1>3, PTL DEF Spec

\* A call that was cancelled or has run out of time, and is not running.
Halted(i) == (cancelled[i] \/ expired[i]) /\ pc[i] # "run"

\* It stays so: the gate is the only way to the tool.
LEMMA HaltedStays ==
    ASSUME TypeOK, NEW i \in Inv, Halted(i), [Next]_vars PROVE Halted(i)'
<1> USE DEF TypeOK, Halted, Goto, Done, Proceed
<1>1. ASSUME NEW j \in Inv, EarlyStep(j) PROVE Halted(i)'
  BY <1>1 DEF EarlyStep, Start, Resolve, Prepare, AdmitCancelled, AdmitTimeout, AdmitGrant,
              AdmitWait, Recheck, Verify, CheckSnapshot, Gate, ExecReturns, ExecStopped
<1>2. ASSUME NEW j \in Inv, Count(j) \/ Audit(j) \/ Release(j) \/ Finish(j) PROVE Halted(i)'
  BY <1>2 DEF Count, Audit, Release, Finish
<1>3. ASSUME NEW j \in Inv, HostStep(j) \/ Expire(j) PROVE Halted(i)'
  BY <1>3 DEF HostStep, TaskCancel, TaskWait, TaskFree, TaskJoined, Expire
<1>4. ASSUME EditDisk \/ Rescan \/ UNCHANGED vars PROVE Halted(i)'
  BY <1>4 DEF EditDisk, Rescan, vars
<1> QED
  BY <1>1, <1>2, <1>3, <1>4 DEF Next, ThreadStep, AllReturned, EarlyStep

\* A call cancelled or expired before the dispatch of its tool never dispatches
\* it, however long it still waits.
THEOREM StoppedStaysStopped == Spec => StoppedNeverRuns
<1> SUFFICES ASSUME NEW i \in Inv
             PROVE  Spec => []((cancelled[i] \/ expired[i]) /\ pc[i] # "run" => [](pc[i] # "run"))
  BY DEF StoppedNeverRuns
<1>1. TypeOK /\ Halted(i) /\ [Next]_vars => Halted(i)'
  BY HaltedStays
<1>2. Halted(i) <=> (cancelled[i] \/ expired[i]) /\ pc[i] # "run"
  BY DEF Halted
<1>3. Halted(i) => pc[i] # "run"
  BY DEF Halted
<1> QED
  BY <1>1, <1>2, <1>3, TypeCorrect, PTL DEF Spec
=============================================================================
