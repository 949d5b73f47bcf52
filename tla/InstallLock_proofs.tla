------------------------ MODULE InstallLock_proofs ------------------------
(***************************************************************************)
(* What the lock file of docker/install-dynamic-plugins.py guarantees, for *)
(* every finite set of instances and every bound on their restarts.        *)
(***************************************************************************)
EXTENDS InstallLock, FiniteSetTheorems, TLAPS

(* The instances whose exit will remove the lock file.                     *)
Section == {i \in Instances : phase[i] \in {"working", "exiting"}}

(* A lock file with a living creator is still there, and its creator has   *)
(* yet to remove it.                                                       *)
OwnerHolds == owner # NoOne => Locked /\ owner \in Section

(* The pending removals are paid for by the one owner and by the signals.  *)
RemovalsPaidFor ==
  Cardinality(Section) <= hits + IF owner = NoOne THEN 0 ELSE 1

(* WorkersBounded is not inductive: an instance in "exiting" will remove   *)
(* a lock file too, so the count is taken over both phases and charged to  *)
(* the lock's owner and to the signals.                                    *)
IInv == TypeOK /\ OwnerHolds /\ RemovalsPaidFor

-----------------------------------------------------------------------------
LEMMA SectionFinite ==
  /\ IsFiniteSet(Section)
  /\ Cardinality(Section) \in Nat
<1>1. Section \in SUBSET Instances
  BY DEF Section
<1>2. IsFiniteSet(Section)
  BY <1>1, InstancesAssumption, FS_Subset
<1> QED
  BY <1>2, FS_CardinalityType

(* Type correctness of the lock protocol.                                  *)
LEMMA TypeStep == TypeOK /\ [Next]_vars => TypeOK'
<1> SUFFICES ASSUME TypeOK, [Next]_vars
             PROVE  TypeOK'
  OBVIOUS
<1> USE InstancesAssumption, MaxStartsAssumption DEF TypeOK, Phases
<1>1. ASSUME NEW i \in Instances, Start(i)
      PROVE  TypeOK'
  BY <1>1 DEF Start
<1>2. ASSUME NEW i \in Instances, Progress(i)
      PROVE  TypeOK'
  BY <1>2 DEF Progress, RegisterExitCallback, InstallTermHandler, CreateLock,
              LockExists, LockReleased, Finish, RemoveLock, Goto
<1>3. ASSUME NEW i \in Instances, Fault(i)
      PROVE  TypeOK'
  BY <1>3 DEF Fault, SigTermEnds, SigTermExits, SigKill, Disown
<1>4. ASSUME OperatorDelete
      PROVE  TypeOK'
  BY <1>4 DEF OperatorDelete
<1>5. CASE UNCHANGED vars
  BY <1>5 DEF vars
<1> QED
  BY <1>1, <1>2, <1>3, <1>4, <1>5 DEF Next

(* A step that touches no phase of the section and no history keeps IInv.  *)
LEMMA QuietStep ==
  ASSUME IInv, TypeOK', Section' = Section, UNCHANGED <<owner, hits>>,
         owner # NoOne => volume' = volume
  PROVE  IInv'
BY DEF IInv, OwnerHolds, RemovalsPaidFor, Locked

(* A step of i that leaves the section and settles the lock keeps IInv.    *)
LEMMA LeaveStep ==
  ASSUME IInv, TypeOK', NEW i \in Section, Section' = Section \ {i}, UNCHANGED hits,
         \/ owner' = NoOne
         \/ owner # i /\ UNCHANGED <<owner, volume>>
  PROVE  IInv'
<1>1. Cardinality(Section') = Cardinality(Section) - 1
  BY SectionFinite, FS_RemoveElement
<1>2. RemovalsPaidFor'
  BY <1>1, SectionFinite DEF IInv, TypeOK, RemovalsPaidFor
<1>3. OwnerHolds'
  BY DEF IInv, OwnerHolds, Locked
<1> QED
  BY <1>2, <1>3 DEF IInv

LEMMA InductiveStep == IInv /\ [Next]_vars => IInv'
<1> SUFFICES ASSUME IInv, [Next]_vars
             PROVE  IInv'
  OBVIOUS
<1>0. TypeOK /\ TypeOK'
  BY TypeStep DEF IInv
<1> DEFINE At(i, p) == phase' = [phase EXCEPT ![i] = p]
<1>a. ASSUME NEW i \in Instances, NEW p, At(i, p), i \notin Section,
             p \notin {"working", "exiting"}
      PROVE  Section' = Section
  BY <1>0, <1>a DEF Section, TypeOK
<1>b. ASSUME NEW i \in Instances, NEW p, At(i, p), i \in Section,
             p \in {"working", "exiting"}
      PROVE  Section' = Section
  BY <1>0, <1>b DEF Section, TypeOK
<1>c. ASSUME NEW i \in Instances, NEW p, At(i, p), i \notin Section,
             p \in {"working", "exiting"}
      PROVE  Section' = Section \cup {i}
  BY <1>0, <1>c DEF Section, TypeOK
<1>d. ASSUME NEW i \in Instances, NEW p, At(i, p), i \in Section,
             p \notin {"working", "exiting"}
      PROVE  Section' = Section \ {i}
  BY <1>0, <1>d DEF Section, TypeOK
<1>1. ASSUME NEW i \in Instances, Start(i)
      PROVE  IInv'
  <2>1. Section' = Section
    BY <1>1, <1>a DEF Start, Section
  <2> QED
    BY <1>0, <1>1, <2>1, QuietStep DEF Start
<1>2. ASSUME NEW i \in Instances, RegisterExitCallback(i)
      PROVE  IInv'
  <2>1. Section' = Section
    BY <1>2, <1>a DEF RegisterExitCallback, Goto, Section
  <2> QED
    BY <1>0, <1>2, <2>1, QuietStep DEF RegisterExitCallback
<1>3. ASSUME NEW i \in Instances, InstallTermHandler(i)
      PROVE  IInv'
  <2>1. Section' = Section
    BY <1>3, <1>a DEF InstallTermHandler, Goto, Section
  <2> QED
    BY <1>0, <1>3, <2>1, QuietStep DEF InstallTermHandler
<1>4. ASSUME NEW i \in Instances, CreateLock(i)
      PROVE  IInv'
  <2>1. owner = NoOne /\ owner' = i /\ i # NoOne /\ hits' = hits /\ hits \in Nat
    BY <1>0, <1>4, InstancesAssumption DEF CreateLock, IInv, OwnerHolds, TypeOK
  <2>2. i \notin Section /\ Section' = Section \cup {i}
    BY <1>4, <1>c DEF CreateLock, Goto, Section
  <2>3. Cardinality(Section') = Cardinality(Section) + 1
    BY <2>2, SectionFinite, FS_AddElement
  <2>4. RemovalsPaidFor'
    BY <2>1, <2>3, SectionFinite DEF IInv, RemovalsPaidFor
  <2>5. OwnerHolds'
    BY <1>4, <2>1, <2>2 DEF CreateLock, OwnerHolds, Locked
  <2> QED
    BY <1>0, <2>4, <2>5 DEF IInv
<1>5. ASSUME NEW i \in Instances, LockExists(i)
      PROVE  IInv'
  <2>1. Section' = Section
    BY <1>5, <1>a DEF LockExists, Goto, Section
  <2> QED
    BY <1>0, <1>5, <2>1, QuietStep DEF LockExists
<1>6. ASSUME NEW i \in Instances, LockReleased(i)
      PROVE  IInv'
  <2>1. Section' = Section
    BY <1>6, <1>a DEF LockReleased, Goto, Section
  <2> QED
    BY <1>0, <1>6, <2>1, QuietStep DEF LockReleased
<1>7. ASSUME NEW i \in Instances, Finish(i)
      PROVE  IInv'
  <2>1. Section' = Section
    BY <1>7, <1>b DEF Finish, Goto, Section
  <2> QED
    BY <1>0, <1>7, <2>1, QuietStep DEF Finish
<1>8. ASSUME NEW i \in Instances, RemoveLock(i)
      PROVE  IInv'
  <2>0. i \in Section
    BY <1>8 DEF RemoveLock, Goto, Section
  <2>1. Section' = Section \ {i}
    BY <1>8, <2>0, <1>d DEF RemoveLock, Goto
  <2> QED
    BY <1>0, <1>8, <2>0, <2>1, LeaveStep DEF RemoveLock
<1>9. ASSUME NEW i \in Instances, Fault(i)
      PROVE  IInv'
  <2>1. CASE phase'[i] = "ended" /\ (SigTermEnds(i) \/ SigKill(i))
    <3>1. CASE i \in Section
      <4>1. Section' = Section \ {i}
        BY <2>1, <3>1, <1>d DEF SigTermEnds, SigKill
      <4>2. owner' = NoOne \/ (owner # i /\ UNCHANGED <<owner, volume>>)
        BY <2>1 DEF SigTermEnds, SigKill, Disown
      <4> QED
        BY <1>0, <2>1, <3>1, <4>1, <4>2, LeaveStep DEF SigTermEnds, SigKill
    <3>2. CASE i \notin Section
      <4>1. Section' = Section
        BY <2>1, <3>2, <1>a DEF SigTermEnds, SigKill
      <4>2. owner # i
        BY <3>2, InstancesAssumption DEF IInv, OwnerHolds
      <4> QED
        BY <1>0, <2>1, <4>1, <4>2, QuietStep DEF SigTermEnds, SigKill, Disown
    <3> QED
      BY <3>1, <3>2
  <2>2. CASE SigTermExits(i) /\ phase[i] = "working"
    <3>1. Section' = Section
      BY <2>2, <1>b DEF SigTermExits, Section
    <3> QED
      BY <1>0, <2>2, <3>1, QuietStep DEF SigTermExits
  <2>3. CASE SigTermExits(i) /\ phase[i] # "working"
    <3>1. i \notin Section /\ Section' = Section \cup {i}
      BY <2>3, <1>c DEF SigTermExits, Section
    <3>2. Cardinality(Section') = Cardinality(Section) + 1
      BY <3>1, SectionFinite, FS_AddElement
    <3>3. hits' = hits + 1 /\ UNCHANGED <<owner, volume>>
      BY <2>3 DEF SigTermExits
    <3>4. RemovalsPaidFor'
      BY <1>0, <3>2, <3>3, SectionFinite DEF IInv, RemovalsPaidFor, TypeOK
    <3>5. OwnerHolds'
      BY <3>1, <3>3 DEF IInv, OwnerHolds, Locked
    <3> QED
      BY <1>0, <3>4, <3>5 DEF IInv
  <2>4. SigTermEnds(i) \/ SigKill(i) => phase'[i] = "ended"
    BY <1>0 DEF SigTermEnds, SigKill, TypeOK
  <2> QED
    BY <1>9, <2>1, <2>2, <2>3, <2>4 DEF Fault
<1>10. ASSUME OperatorDelete
       PROVE  IInv'
  <2>1. Section' = Section
    BY <1>10 DEF OperatorDelete, Section
  <2> QED
    BY <1>0, <1>10, <2>1, QuietStep DEF OperatorDelete, Orphaned
<1>11. CASE UNCHANGED vars
  <2>1. Section' = Section
    BY <1>11 DEF vars, Section
  <2> QED
    BY <1>0, <1>11, <2>1, QuietStep DEF vars
<1> QED
  BY <1>1, <1>2, <1>3, <1>4, <1>5, <1>6, <1>7, <1>8, <1>9, <1>10, <1>11
     DEF Next, Progress

LEMMA InductiveInit == Init => IInv
<1> SUFFICES ASSUME Init
             PROVE  IInv
  OBVIOUS
<1>1. TypeOK
  BY InstancesAssumption, MaxStartsAssumption DEF Init, TypeOK, Phases
<1>2. Section = {}
  BY DEF Init, Section
<1>3. Cardinality(Section) = 0
  BY <1>2, FS_EmptySet
<1> QED
  BY <1>1, <1>3 DEF IInv, Init, OwnerHolds, RemovalsPaidFor

THEOREM Inductive == Spec => []IInv
BY InductiveInit, InductiveStep, PTL DEF Spec

-----------------------------------------------------------------------------
(* Type correctness for every number of instances and restarts.            *)
THEOREM TypeCorrect == Spec => []TypeOK
<1>1. IInv => TypeOK
  BY DEF IInv
<1> QED
  BY <1>1, Inductive, PTL

LEMMA WorkersCounted ==
  ASSUME IInv
  PROVE  /\ IsFiniteSet(Working)
         /\ Cardinality(Working) \in Nat
         /\ Cardinality(Working) <= hits + IF owner = NoOne THEN 0 ELSE 1
<1>1. Working \in SUBSET Section
  BY DEF Working, Section
<1>2. /\ IsFiniteSet(Working)
      /\ Cardinality(Working) <= Cardinality(Section)
  BY <1>1, SectionFinite, FS_Subset
<1>3. Cardinality(Working) \in Nat
  BY <1>2, FS_CardinalityType
<1> QED
  BY <1>2, <1>3, SectionFinite DEF IInv, RemovalsPaidFor, TypeOK

(* However many instances run, and however they are killed or restarted,   *)
(* the number past create_lock exceeds one by at most the number of        *)
(* SIGTERMs that reached an instance without the lock.                     *)
THEOREM WorkersBoundedAlways == Spec => []WorkersBounded
<1>1. IInv => WorkersBounded
  BY WorkersCounted DEF WorkersBounded, IInv, TypeOK
<1> QED
  BY <1>1, Inductive, PTL

LEMMA AloneInside ==
  ASSUME IInv, hits = 0
  PROVE  /\ Mutex
         /\ owner = NoOne => Working = {}
<1>1. Cardinality(Working) \in {0, 1}
  BY WorkersCounted
<1>2. Working = {} \/ \E i : Working = {i}
  BY <1>1, WorkersCounted, FS_EmptySet, FS_Singleton
<1>3. owner = NoOne => Cardinality(Working) = 0
  BY WorkersCounted
<1> QED
  BY <1>2, <1>3, WorkersCounted, FS_EmptySet DEF Mutex

(* As long as no SIGTERM reaches a waiting instance, the comment of        *)
(* create_lock is true: the others wait for the one that holds the lock.   *)
THEOREM MutexUntilHit == Spec => [](hits = 0 => Mutex)
<1>1. IInv => (hits = 0 => Mutex)
  BY AloneInside
<1> QED
  BY <1>1, Inductive, PTL

-----------------------------------------------------------------------------
(* Until such a signal, the protocol implements mutual exclusion: every    *)
(* step lets one process in, lets one out, or is invisible.                *)
Inside == IF hits = 0 THEN Working ELSE {}

LEMMA ExclusionStep ==
  ASSUME IInv, [Next]_vars
  PROVE  Exclusion!Next \/ UNCHANGED Inside
<1> USE DEF Exclusion!Next, Exclusion!Enter, Exclusion!Leave, Inside
<1>0. TypeOK /\ TypeOK'
  BY TypeStep DEF IInv
<1>1. ASSUME NEW i \in Instances, CreateLock(i)
      PROVE  Exclusion!Next \/ UNCHANGED Inside
  <2>1. owner = NoOne /\ hits' = hits
    BY <1>1 DEF CreateLock, IInv, OwnerHolds
  <2>2. Working' = Working \cup {i}
    BY <1>0, <1>1 DEF CreateLock, Goto, Working, TypeOK
  <2>3. CASE hits = 0
    BY <2>1, <2>2, <2>3, AloneInside
  <2>4. CASE hits # 0
    BY <2>1, <2>4
  <2> QED
    BY <2>3, <2>4
<1>2. ASSUME NEW i \in Instances, UNCHANGED hits,
             Working' = Working \/ (i \in Working /\ Working' = Working \ {i})
      PROVE  Exclusion!Next \/ UNCHANGED Inside
  BY <1>2
<1>3. ASSUME NEW i \in Instances, SigTermExits(i)
      PROVE  Exclusion!Next \/ UNCHANGED Inside
  <2>1. CASE phase[i] = "working"
    <3>1. UNCHANGED hits /\ i \in Working /\ Working' = Working \ {i}
      BY <1>0, <1>3, <2>1 DEF SigTermExits, Working, TypeOK
    <3> QED
      BY <3>1, <1>2
  <2>2. CASE phase[i] # "working"
    <3>1. Inside' = {}
      BY <1>0, <1>3, <2>2 DEF SigTermExits, TypeOK
    <3>2. CASE Inside = {}
      BY <3>1, <3>2
    <3>3. CASE Inside # {}
      <4>1. PICK j \in Inside : TRUE
        BY <3>3
      <4>2. Inside = {j} /\ j \in Instances
        BY <4>1, <3>3, AloneInside DEF Mutex, Working
      <4> QED
        BY <3>1, <4>2
    <3> QED
      BY <3>2, <3>3
  <2> QED
    BY <2>1, <2>2
<1>4. ASSUME NEW i \in Instances, Start(i) \/ RegisterExitCallback(i)
               \/ InstallTermHandler(i) \/ LockExists(i) \/ LockReleased(i)
               \/ RemoveLock(i)
      PROVE  Exclusion!Next \/ UNCHANGED Inside
  <2>1. UNCHANGED hits /\ Working' = Working
    BY <1>0, <1>4 DEF Start, RegisterExitCallback, InstallTermHandler, LockExists,
                      LockReleased, RemoveLock, Goto, Working, TypeOK
  <2> QED
    BY <2>1
<1>5. ASSUME NEW i \in Instances, Finish(i) \/ SigTermEnds(i) \/ SigKill(i)
      PROVE  Exclusion!Next \/ UNCHANGED Inside
  <2>1. /\ UNCHANGED hits
        /\ Working' = Working \/ (i \in Working /\ Working' = Working \ {i})
    BY <1>0, <1>5 DEF Finish, SigTermEnds, SigKill, Goto, Working, TypeOK
  <2> QED
    BY <2>1, <1>2
<1>6. ASSUME OperatorDelete
      PROVE  UNCHANGED Inside
  BY <1>6 DEF OperatorDelete, Working
<1>7. CASE UNCHANGED vars
  BY <1>7 DEF vars, Working
<1> QED
  BY <1>1, <1>3, <1>4, <1>5, <1>6, <1>7 DEF Next, Progress, Fault

(* The safety half of ExclusionUntilHit; that no instance stays inside for *)
(* ever is left to TLC.                                                    *)
THEOREM ImplementsExclusion == Spec => Exclusion!Spec
<1>1. Init => Exclusion!Init
  BY DEF Init, Working, Exclusion!Init
<1>2. IInv /\ [Next]_vars => [Exclusion!Next]_Inside
  BY ExclusionStep
<1> QED
  BY <1>1, <1>2, Inductive, PTL DEF Spec, Exclusion!Spec, Inside
=============================================================================
