------------------------ MODULE GroupOwnership_proofs ------------------------
(***************************************************************************)
(* The groups of a user are complete and justified for every catalog, with *)
(* cycles or without, and however it changes during the sign-in.           *)
(***************************************************************************)
EXTENDS GroupOwnership, FiniteSetTheorems, SequenceTheorems, TLAPS

Calls == 1 .. Len(stack)

(* The calls have found what was processed, between them.                  *)
FoundOK ==
  Running => /\ \A i \in Calls : stack[i].found \subseteq processedGroups
             /\ \A g \in processedGroups : \E i \in Calls : g \in stack[i].found

(* Processed, or still on the list of some call.                           *)
Handled(r) == r \in processedGroups \/ \E i \in Calls : r \in stack[i].groupRefs

(* Nothing that has to be in the answer is forgotten, except the parents   *)
(* of the group being asked for.                                           *)
NothingLost ==
  Running =>
    /\ \A r \in Membership : Handled(r)
    /\ \A e \in always :
         e[1] \in processedGroups => Handled(e[2]) \/ (pc = "requesting" /\ e[1] = current)

(* A set of refs that holds the direct groups and all parents of its own.  *)
Bound(S) == S \in SUBSET Refs /\ Membership \subseteq S /\ Closed(S, ever)

NothingInvented ==
  Running =>
    /\ pc = "requesting" => current \in processedGroups
    /\ \A S : Bound(S) => /\ processedGroups \subseteq S
                          /\ \A i \in Calls : stack[i].groupRefs \subseteq S

(* Every call but the innermost has a processed group to itself.           *)
DepthOK ==
  Running => Len(stack) <= Cardinality(processedGroups) + (IF pc = "looping" THEN 1 ELSE 0)

(* The history brackets what the catalog holds now.                        *)
HistoryOK == always \subseteq Edges(catalog) /\ Edges(catalog) \subseteq ever

IInv ==
  /\ TypeOK /\ HistoryOK
  /\ Running => transitive
  /\ pc = "start" => processedGroups = {}
  /\ FoundOK /\ NothingLost /\ NothingInvented /\ DepthOK
  /\ Complete /\ Justified

-----------------------------------------------------------------------------
FrameType == [groupRefs : SUBSET Refs, found : SUBSET Refs]

(* Replacing the innermost call by r.                                      *)
LEMMA TopReplaced ==
  ASSUME stack \in Seq(FrameType), stack # <<>>, NEW r \in FrameType,
         stack' = [stack EXCEPT ![Depth] = r]
  PROVE  /\ stack' \in Seq(FrameType) /\ stack' # <<>>
         /\ Len(stack') = Len(stack)
         /\ stack'[Len(stack)] = r
         /\ \A i \in Calls : i # Len(stack) => stack'[i] = stack[i]
         /\ Len(stack) \in Calls
BY DEF Depth, Calls

LEMMA TopFrame ==
  ASSUME TypeOK, Running
  PROVE  stack \in Seq(FrameType) /\ stack # <<>> /\ Top \in FrameType
<1>1. stack \in Seq(FrameType) /\ stack # <<>>
  BY DEF TypeOK, FrameType
<1> QED
  BY <1>1 DEF Top, Depth

LEMMA InitIInv == Init => IInv
<1> SUFFICES ASSUME Init
             PROVE  IInv
  OBVIOUS
<1> USE DEF Init, Running
<1>1. TypeOK
  BY DEF TypeOK, Edges
<1> QED
  BY <1>1 DEF IInv, HistoryOK, FoundOK, NothingLost, NothingInvented, DepthOK, Complete, Justified

LEMMA ChangeStep == ASSUME IInv, ChangeCatalog PROVE IInv'
<1> USE DEF ChangeCatalog
<1>1. always' \subseteq always /\ ever \subseteq ever' /\ ever' \subseteq Refs \X Refs
  BY DEF IInv, TypeOK, Edges
<1>2. \A S : Closed(S, ever') => Closed(S, ever)
  BY <1>1 DEF Closed
<1>3. TypeOK' /\ (Running' => transitive')
  BY <1>1 DEF IInv, TypeOK, Running
<1>4. FoundOK' /\ DepthOK'
  BY DEF IInv, FoundOK, DepthOK, Running, Calls
<1>5. NothingLost'
  BY <1>1 DEF IInv, NothingLost, Handled, Running, Calls, Membership
<1>6. NothingInvented'
  BY <1>2 DEF IInv, NothingInvented, Bound, Running, Calls, Membership
<1>7. Complete'
  BY <1>1 DEF IInv, Complete, Closed
<1>8. Justified'
  BY <1>2 DEF IInv, Justified
<1> QED
  BY <1>3, <1>4, <1>5, <1>6, <1>7, <1>8 DEF IInv, HistoryOK

LEMMA DirectStep == ASSUME IInv, AnswerDirect PROVE IInv'
<1> USE DEF AnswerDirect
<1>0. Membership \subseteq Refs
  BY RefsAssumption DEF Membership
<1>1. TypeOK'
  BY <1>0 DEF IInv, TypeOK, Running
<1>2. Complete' /\ Justified'
  BY DEF Complete, Justified, Membership
<1> QED
  BY <1>1, <1>2 DEF IInv, HistoryOK, FoundOK, NothingLost, NothingInvented, DepthOK, Running

LEMMA BeginStep == ASSUME IInv, ResolveParentGroups PROVE IInv'
<1> USE DEF ResolveParentGroups
<1>0. Membership \subseteq Refs
  BY RefsAssumption DEF Membership
<1> DEFINE f == Frame(Membership)
<1>1. f \in FrameType /\ f.found = {} /\ f.groupRefs = Membership
  BY <1>0 DEF Frame, FrameType
<1> HIDE DEF f
<1>2. stack' = <<f>> /\ Len(stack') = 1 /\ stack'[1] = f /\ stack' # <<>> /\ stack' \in Seq(FrameType)
  BY <1>1 DEF f
<1>3. Calls' = {1}
  BY <1>2 DEF Calls
<1>4. TypeOK' /\ (Running' => transitive')
  BY <1>2 DEF IInv, TypeOK, Running, Edges, FrameType
<1>5. FoundOK'
  BY <1>1, <1>2, <1>3 DEF IInv, FoundOK
<1>6. NothingLost'
  BY <1>1, <1>2, <1>3 DEF IInv, NothingLost, Handled, Membership
<1>7. NothingInvented'
  BY <1>1, <1>2, <1>3 DEF IInv, NothingInvented, Bound, Membership
<1>8. DepthOK'
  <2>1. processedGroups' = {} /\ Cardinality({}) = 0
    BY FS_EmptySet DEF IInv
  <2> QED
    BY <1>2, <2>1 DEF DepthOK
<1> QED
  BY <1>4, <1>5, <1>6, <1>7, <1>8 DEF IInv, HistoryOK, Complete, Justified

LEMMA SkipStep == ASSUME IInv, NEW g \in Refs, SkipProcessed(g) PROVE IInv'
<1> USE DEF SkipProcessed
<1> DEFINE r == [Top EXCEPT !.groupRefs = @ \ {g}]
<1>1. stack \in Seq(FrameType) /\ stack # <<>> /\ Top \in FrameType
  BY TopFrame DEF IInv, Running
<1>2. r \in FrameType /\ r.found = Top.found /\ r.groupRefs = Top.groupRefs \ {g}
  BY <1>1 DEF FrameType
<1>3. stack' = [stack EXCEPT ![Depth] = r]
  BY <1>1 DEF Top
<1> HIDE DEF r
<1>4. /\ stack' \in Seq(FrameType) /\ stack' # <<>> /\ Len(stack') = Len(stack)
      /\ stack'[Len(stack)] = r /\ Len(stack) \in Calls
      /\ \A i \in Calls : i # Len(stack) => stack'[i] = stack[i]
  BY <1>1, <1>2, <1>3, TopReplaced
<1>5. Calls' = Calls /\ \A i \in Calls : stack'[i].found = stack[i].found
  BY <1>2, <1>4 DEF Calls, Top, Depth
<1>6. \A x \in Refs : Handled(x) => Handled(x)'
  BY <1>2, <1>4, <1>5 DEF Handled, Top, Depth
<1>7. \A i \in Calls : stack'[i].groupRefs \subseteq stack[i].groupRefs
  BY <1>2, <1>4 DEF Top, Depth
<1>8. TypeOK' /\ (Running' => transitive')
  BY <1>4 DEF IInv, TypeOK, Running, FrameType
<1>9. FoundOK'
  BY <1>5 DEF IInv, FoundOK, Running
<1>10. NothingLost'
  <2>1. Membership \subseteq Refs /\ \A e \in always : e[2] \in Refs
    BY RefsAssumption DEF IInv, TypeOK, Membership
  <2> QED
    BY <1>6, <2>1 DEF IInv, NothingLost, Running, Membership
<1>11. NothingInvented'
  BY <1>5, <1>7 DEF IInv, NothingInvented, Bound, Running, Membership
<1>12. DepthOK'
  BY <1>4 DEF IInv, DepthOK, Running
<1> QED
  BY <1>8, <1>9, <1>10, <1>11, <1>12 DEF IInv, HistoryOK, Complete, Justified

LEMMA VisitStep == ASSUME IInv, NEW g \in Refs, Visit(g) PROVE IInv'
<1> USE DEF Visit
<1> DEFINE r == [groupRefs |-> Top.groupRefs \ {g}, found |-> Top.found \cup {g}]
<1>1. stack \in Seq(FrameType) /\ stack # <<>> /\ Top \in FrameType
  BY TopFrame DEF IInv, Running
<1>2. /\ r \in FrameType /\ r.found = Top.found \cup {g}
      /\ r.groupRefs = Top.groupRefs \ {g}
  BY <1>1 DEF FrameType
<1>3. stack' = [stack EXCEPT ![Depth] = r]
  BY <1>1 DEF Top
<1> HIDE DEF r
<1>4. /\ stack' \in Seq(FrameType) /\ stack' # <<>> /\ Len(stack') = Len(stack)
      /\ stack'[Len(stack)] = r /\ Len(stack) \in Calls
      /\ \A i \in Calls : i # Len(stack) => stack'[i] = stack[i]
  BY <1>1, <1>2, <1>3, TopReplaced
<1>5. Calls' = Calls
  BY <1>4 DEF Calls
<1>6. \A x \in Refs : Handled(x) => Handled(x)'
  BY <1>2, <1>4, <1>5 DEF Handled, Top, Depth
<1>7. \A i \in Calls : stack'[i].groupRefs \subseteq stack[i].groupRefs
  BY <1>2, <1>4 DEF Top, Depth
<1>8. TypeOK' /\ (Running' => transitive')
  BY <1>4 DEF IInv, TypeOK, Running, FrameType
<1>9. FoundOK'
  <2>1. \A i \in Calls : stack'[i].found \subseteq processedGroups'
    BY <1>2, <1>4 DEF IInv, FoundOK, Running, Top, Depth
  <2>2. ASSUME NEW x \in processedGroups'
        PROVE  \E i \in Calls : x \in stack'[i].found
    <3>1. CASE x = g
      BY <1>2, <1>4, <3>1
    <3>2. CASE x \in processedGroups
      <4>1. PICK i \in Calls : x \in stack[i].found
        BY <3>2 DEF IInv, FoundOK, Running
      <4>2. x \in stack'[i].found
        BY <1>2, <1>4, <4>1 DEF Top, Depth
      <4> QED
        BY <4>2
    <3> QED
      BY <3>1, <3>2
  <2> QED
    BY <1>5, <2>1, <2>2 DEF FoundOK
<1>10. NothingLost'
  <2>1. Membership \subseteq Refs /\ \A e \in always : e[2] \in Refs
    BY RefsAssumption DEF IInv, TypeOK, Membership
  <2> QED
    BY <1>6, <2>1 DEF IInv, NothingLost, Running, Membership
<1>11. NothingInvented'
  <2>1. \A S : Bound(S)' => Bound(S)
    BY DEF Bound, Membership
  <2>2. ASSUME NEW S, Bound(S)
        PROVE  processedGroups' \subseteq S
    BY <1>1, <1>4, <2>2 DEF IInv, NothingInvented, Running, Top, Depth
  <2> QED
    BY <1>5, <1>7, <2>1, <2>2 DEF IInv, NothingInvented, Running
<1>12. DepthOK'
  <2>1. IsFiniteSet(processedGroups) /\ g \notin processedGroups
    BY RefsAssumption, FS_Subset DEF IInv, TypeOK
  <2>2. /\ Cardinality(processedGroups') = Cardinality(processedGroups) + 1
        /\ Cardinality(processedGroups) \in Nat
    BY <2>1, FS_AddElement, FS_CardinalityType
  <2> QED
    BY <1>4, <2>2 DEF IInv, DepthOK, Running
<1> QED
  BY <1>8, <1>9, <1>10, <1>11, <1>12 DEF IInv, HistoryOK, Complete, Justified

LEMMA NoSuchGroupStep == ASSUME IInv, NoSuchGroup PROVE IInv'
<1> USE DEF NoSuchGroup
<1>1. TypeOK' /\ (Running' => transitive')
  BY DEF IInv, TypeOK, Running
<1>2. FoundOK' /\ NothingInvented'
  BY DEF IInv, FoundOK, NothingInvented, Bound, Running, Calls, Membership
<1>3. NothingLost'
  <2>1. \A e \in always : e[1] \in DOMAIN catalog
    BY DEF IInv, HistoryOK, Edges
  <2> QED
    BY <2>1 DEF IInv, NothingLost, Handled, Running, Calls, Membership
<1>4. DepthOK'
  BY RefsAssumption, FS_Subset, FS_CardinalityType DEF IInv, TypeOK, DepthOK, Running
<1> QED
  BY <1>1, <1>2, <1>3, <1>4 DEF IInv, HistoryOK, Complete, Justified

LEMMA DescendStep == ASSUME IInv, Descend PROVE IInv'
<1> USE DEF Descend
<1> DEFINE f == Frame(catalog[current])
<1>1. /\ stack \in Seq(FrameType) /\ stack # <<>>
      /\ current \in Refs /\ catalog[current] \subseteq Refs
  BY TopFrame, CatalogsAssumption DEF IInv, TypeOK, Running
<1>2. f \in FrameType /\ f.found = {} /\ f.groupRefs = catalog[current]
  BY <1>1 DEF Frame, FrameType
<1> HIDE DEF f
<1>3. /\ stack' \in Seq(FrameType) /\ stack' # <<>> /\ Len(stack') = Len(stack) + 1
      /\ stack'[Len(stack')] = f /\ \A i \in Calls : stack'[i] = stack[i]
  BY <1>1, <1>2 DEF Calls, f
<1>4. Calls' = Calls \cup {Len(stack')} /\ Len(stack') \in Calls'
  BY <1>1, <1>3 DEF Calls
<1>5. \A x \in Refs : Handled(x) => Handled(x)'
  BY <1>3, <1>4 DEF Handled
<1>6. TypeOK' /\ (Running' => transitive')
  BY <1>3 DEF IInv, TypeOK, Running, FrameType
<1>7. FoundOK'
  BY <1>2, <1>3, <1>4 DEF IInv, FoundOK, Running
<1>8. NothingLost'
  <2>1. Membership \subseteq Refs /\ \A e \in always : e[2] \in Refs
    BY RefsAssumption DEF IInv, TypeOK, Membership
  <2>2. \A e \in always : e[1] = current => Handled(e[2])'
    <3>1. \A e \in always : e[1] = current => e[2] \in stack'[Len(stack')].groupRefs
      BY <1>2, <1>3 DEF IInv, HistoryOK, Edges
    <3> QED
      BY <1>4, <3>1 DEF Handled
  <2> QED
    BY <1>5, <2>1, <2>2 DEF IInv, NothingLost, Running, Membership
<1>9. NothingInvented'
  <2>1. \A S : Bound(S)' => Bound(S)
    BY DEF Bound, Membership
  <2>2. ASSUME NEW S, Bound(S)
        PROVE  catalog[current] \subseteq S
    <3>1. current \in S
      BY <2>2 DEF IInv, NothingInvented, Running
    <3>2. \A p \in catalog[current] : <<current, p>> \in ever
      BY <1>1 DEF IInv, HistoryOK, Edges
    <3> QED
      BY <2>2, <3>1, <3>2 DEF Bound, Closed
  <2> QED
    BY <1>2, <1>3, <1>4, <2>1, <2>2 DEF IInv, NothingInvented, Running
<1>10. DepthOK'
  <2>1. Cardinality(processedGroups) \in Nat /\ Len(stack) \in Nat
    BY <1>1, RefsAssumption, FS_Subset, FS_CardinalityType DEF IInv, TypeOK
  <2> QED
    BY <1>3, <2>1 DEF IInv, DepthOK, Running
<1> QED
  BY <1>6, <1>7, <1>8, <1>9, <1>10 DEF IInv, HistoryOK, Complete, Justified

LEMMA SameInterval ==
  ASSUME NEW a \in Nat, NEW b \in Nat, 1 .. a = 1 .. b
  PROVE  a = b
<1>1. a >= 1 => a \in 1 .. a
  OBVIOUS
<1>2. b >= 1 => b \in 1 .. b
  OBVIOUS
<1>3. /\ \A x \in 1 .. b : x <= b /\ x >= 1
      /\ \A x \in 1 .. a : x <= a /\ x >= 1
  OBVIOUS
<1> QED
  BY <1>1, <1>2, <1>3

LEMMA LenFromDomain ==
  ASSUME NEW S, NEW m \in Nat, NEW s \in Seq(S), DOMAIN s = 1 .. m
  PROVE  Len(s) = m
<1>1. Len(s) \in Nat /\ 1 .. Len(s) = 1 .. m
  BY LenProperties
<1> QED
  BY <1>1, SameInterval

LEMMA ReturnStep == ASSUME IInv, Return PROVE IInv'
<1> DEFINE n == Len(stack)
<1> DEFINE r == [stack[n - 1] EXCEPT !.found = @ \cup Top.found]
<1>0. /\ pc = "looping" /\ Top.groupRefs = {} /\ n > 1
      /\ UNCHANGED <<transitive, memberOf, catalog, pc, processedGroups, current, answer,
                     always, ever>>
  BY DEF Return, Depth
<1>1. stack \in Seq(FrameType) /\ n \in Nat /\ n > 1 /\ Top = stack[n] /\ Top \in FrameType
  BY <1>0, TopFrame DEF IInv, TypeOK, Running, Depth, Top
<1>2. stack[n - 1] \in FrameType /\ n - 1 \in Calls /\ n \in Calls
  BY <1>1 DEF Calls
<1>3. /\ r \in FrameType /\ r.groupRefs = stack[n - 1].groupRefs
      /\ r.found = stack[n - 1].found \cup Top.found
  BY <1>1, <1>2 DEF FrameType
<1>4. stack' = [i \in 1 .. n - 1 |-> IF i = n - 1 THEN r ELSE stack[i]]
  BY DEF Return, Depth
<1> HIDE DEF r
<1>5. /\ stack' \in Seq(FrameType) /\ Len(stack') = n - 1 /\ stack' # <<>>
      /\ stack'[n - 1] = r /\ \A i \in 1 .. n - 1 : i # n - 1 => stack'[i] = stack[i]
  <2>1. n - 1 \in Nat /\ n - 1 >= 1 /\ \A i \in 1 .. n - 1 : stack[i] \in FrameType
    BY <1>1
  <2>2. stack' \in [1 .. n - 1 -> FrameType]
    BY <1>3, <1>4, <2>1
  <2>3. stack' \in Seq(FrameType) /\ Len(stack') = n - 1
    <3>1. stack' \in Seq(FrameType)
      BY <1>4, <2>1, <2>2, IsASeq
    <3>2. n - 1 \in Nat /\ DOMAIN stack' = 1 .. n - 1
      BY <2>1, <2>2
    <3> HIDE DEF n
    <3> QED
      BY <3>1, <3>2, LenFromDomain
  <2> HIDE DEF n
  <2>4. stack'[n - 1] = r
    <3>1. n - 1 \in 1 .. n - 1
      BY <2>1
    <3> QED
      BY ONLY <1>4, <3>1, Zenon
  <2>5. \A i \in 1 .. n - 1 : i # n - 1 => stack'[i] = stack[i]
    BY ONLY <1>4, Zenon
  <2>6. stack' # <<>>
    <3> SUFFICES ASSUME stack' = <<>>
                 PROVE  FALSE
      OBVIOUS
    <3>1. Len(stack') = 0
      BY EmptySeq
    <3> QED
      BY ONLY <2>1, <2>3, <3>1
  <2> QED
    BY ONLY <2>3, <2>4, <2>5, <2>6
<1>6. Calls' = Calls \ {n} /\ Calls = 1 .. n /\ Calls' = 1 .. n - 1
  <2>1. Calls = 1 .. n /\ Calls' = 1 .. n - 1
    BY <1>5 DEF Calls
  <2>2. 1 .. n - 1 = (1 .. n) \ {n}
    BY <1>1
  <2> QED
    BY <2>1, <2>2
<1>7. \A i \in Calls' : stack'[i].groupRefs = stack[i].groupRefs
  BY <1>1, <1>3, <1>5, <1>6 DEF Calls
<1>8. \A x \in Refs : Handled(x) => Handled(x)'
  BY <1>0, <1>1, <1>6, <1>7 DEF Handled
<1>9. TypeOK' /\ (Running' => transitive')
  BY <1>0, <1>5 DEF IInv, TypeOK, Running, FrameType
<1>10. FoundOK'
  <2>1. \A i \in Calls' : stack'[i].found \subseteq processedGroups'
    BY <1>0, <1>1, <1>2, <1>3, <1>5, <1>6 DEF IInv, FoundOK, Running, Calls
  <2>2. ASSUME NEW x \in processedGroups'
        PROVE  \E i \in Calls' : x \in stack'[i].found
    <3>1. PICK i \in Calls : x \in stack[i].found
      BY <1>0, <2>2 DEF IInv, FoundOK, Running
    <3>2. CASE i \in {n - 1, n}
      <4>1. x \in r.found
        BY <1>1, <1>3, <3>1, <3>2
      <4> QED
        BY <1>1, <1>2, <1>5, <1>6, <4>1
    <3>3. CASE i \notin {n - 1, n}
      <4>1. i \in Calls' /\ stack'[i] = stack[i]
        BY <1>1, <1>5, <1>6, <3>3 DEF Calls
      <4> QED
        BY <3>1, <4>1
    <3> QED
      BY <3>2, <3>3
  <2> QED
    BY <1>0, <2>1, <2>2 DEF FoundOK
<1>11. NothingLost'
  <2>1. Membership \subseteq Refs /\ \A e \in always : e[2] \in Refs
    BY RefsAssumption DEF IInv, TypeOK, Membership
  <2> QED
    BY <1>0, <1>8, <2>1 DEF IInv, NothingLost, Running, Membership
<1>12. NothingInvented'
  BY <1>0, <1>6, <1>7 DEF IInv, NothingInvented, Bound, Running, Membership
<1>13. DepthOK'
  <2>1. Cardinality(processedGroups) \in Nat
    BY RefsAssumption, FS_Subset, FS_CardinalityType DEF IInv, TypeOK
  <2> QED
    BY <1>0, <1>1, <1>5, <2>1 DEF IInv, DepthOK, Running
<1> QED
  BY <1>0, <1>9, <1>10, <1>11, <1>12, <1>13 DEF IInv, HistoryOK, Complete, Justified

LEMMA AnswerStep == ASSUME IInv, Answer PROVE IInv'
<1> USE DEF Answer
<1>1. stack \in Seq(FrameType) /\ Len(stack) = 1 /\ Top = stack[1] /\ Top \in FrameType
  BY TopFrame DEF IInv, TypeOK, Running, Depth, Top
<1>2. Calls = {1}
  BY <1>1 DEF Calls
<1>3. processedGroups = Top.found /\ processedGroups \subseteq Refs
  BY <1>1, <1>2 DEF IInv, FoundOK, TypeOK, Running
<1>4. answer' = {User} \cup processedGroups
  BY <1>3
<1>5. \A x \in Refs : Handled(x) => x \in processedGroups
  BY <1>1, <1>2 DEF Handled
<1>6. Membership \subseteq Refs /\ \A e \in always : e[1] \in Refs /\ e[2] \in Refs
  BY RefsAssumption DEF IInv, TypeOK, Membership
<1>7. TypeOK'
  BY <1>3, <1>4 DEF IInv, TypeOK, Running
<1>8. Complete'
  <2>1. Membership \subseteq processedGroups
    BY <1>5, <1>6 DEF IInv, NothingLost, Running
  <2>2. \A e \in always : e[1] \in processedGroups => e[2] \in processedGroups
    BY <1>5, <1>6 DEF IInv, NothingLost, Running
  <2> QED
    BY <1>4, <1>6, <2>1, <2>2, RefsAssumption DEF Complete, Closed, Membership
<1>9. Justified'
  <2>1. \A S \in SUBSET Refs : Membership \subseteq S /\ Closed(S, ever) => processedGroups \subseteq S
    BY DEF IInv, NothingInvented, Running, Bound
  <2>2. transitive
    BY DEF IInv, Running
  <2> QED
    BY <1>4, <2>1, <2>2 DEF Justified, Membership
<1> QED
  BY <1>7, <1>8, <1>9
     DEF IInv, HistoryOK, FoundOK, NothingLost, NothingInvented, DepthOK, Running

LEMMA RejectStep == ASSUME IInv, Reject PROVE IInv'
<1> USE DEF Reject
<1>1. TypeOK'
  BY DEF IInv, TypeOK, Running
<1> QED
  BY <1>1 DEF IInv, HistoryOK, FoundOK, NothingLost, NothingInvented, DepthOK, Complete,
              Justified, Running

-----------------------------------------------------------------------------
LEMMA NextStep == IInv /\ [Next]_vars => IInv'
<1> SUFFICES ASSUME IInv, [Next]_vars
             PROVE  IInv'
  OBVIOUS
<1>1. CASE ChangeCatalog
  BY <1>1, ChangeStep
<1>2. CASE AnswerDirect \/ ResolveParentGroups
  BY <1>2, DirectStep, BeginStep
<1>3. CASE \E g \in Refs : SkipProcessed(g) \/ Visit(g)
  BY <1>3, SkipStep, VisitStep
<1>4. CASE NoSuchGroup \/ Descend
  BY <1>4, NoSuchGroupStep, DescendStep
<1>5. CASE Return \/ Answer \/ Reject
  BY <1>5, ReturnStep, AnswerStep, RejectStep
<1>6. CASE UNCHANGED vars
  <2> USE <1>6 DEF vars
  <2>1. TypeOK' /\ HistoryOK' /\ Complete' /\ Justified'
    BY DEF IInv, TypeOK, HistoryOK, Complete, Justified, Running
  <2>2. FoundOK' /\ NothingLost' /\ DepthOK'
    BY DEF IInv, FoundOK, NothingLost, Handled, DepthOK, Running, Calls, Membership
  <2>3. NothingInvented'
    BY DEF IInv, NothingInvented, Bound, Running, Calls, Membership
  <2> QED
    BY <2>1, <2>2, <2>3 DEF IInv, Running
<1> QED
  BY <1>1, <1>2, <1>3, <1>4, <1>5, <1>6 DEF Next, Resolve

LEMMA DepthFromInv == IInv => DepthBounded
<1> SUFFICES ASSUME IInv
             PROVE  DepthBounded
  OBVIOUS
<1>1. /\ Cardinality(processedGroups) \in Nat /\ Cardinality(Refs) \in Nat
      /\ Cardinality(processedGroups) <= Cardinality(Refs)
  BY RefsAssumption, FS_Subset, FS_CardinalityType DEF IInv, TypeOK
<1>2. CASE Running
  <2>1. Len(stack) \in Nat
    BY <1>2, TopFrame DEF IInv
  <2> QED
    BY <1>1, <1>2, <2>1 DEF IInv, DepthOK, DepthBounded, Depth
<1>3. CASE ~Running
  <2>1. Len(stack) = 0
    BY <1>3 DEF IInv, TypeOK
  <2> QED
    BY <1>1, <2>1 DEF DepthBounded, Depth
<1> QED
  BY <1>2, <1>3

(* The invariant of a sign-in.                                             *)
THEOREM Inductive == Spec => []IInv
BY InitIInv, NextStep, PTL DEF Spec

(* The resolver stays in its types, for every catalog.                     *)
THEOREM TypeCorrect == Spec => []TypeOK
BY Inductive, PTL DEF IInv

(* The answer holds the direct groups and every parent that was in the     *)
(* catalog throughout, for every shape of the group hierarchy.             *)
THEOREM CompleteAlways == Spec => []Complete
BY Inductive, PTL DEF IInv

(* The answer holds nothing else.                                          *)
THEOREM JustifiedAlways == Spec => []Justified
BY Inductive, PTL DEF IInv

(* The recursion is bounded by the number of refs: cycles end it.          *)
THEOREM DepthBoundedAlways == Spec => []DepthBounded
BY DepthFromInv, Inductive, PTL
==============================================================================
