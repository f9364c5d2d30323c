---------------------- MODULE InstanceSelectionProofs ----------------------
(***************************************************************************)
(* Proofs about InstanceSelection for every number of instances and every  *)
(* range of loads: the loop of selectOptimalInstance computes the first    *)
(* minimum, although the code never compares two instances directly.       *)
(***************************************************************************)
EXTENDS InstanceSelection, TLAPS

\* The local variables before the loop of selectOptimalInstance.
Fresh == selected = 0 /\ minLoad = MaxInt

\* While ListInstances reads: an undisturbed one holds what the store holds.
Listing ==
    /\ Fresh
    /\ undisturbed => /\ keys = {i \in Ids : instances[i] # NoRecord}
                      /\ \A i \in Ids : list[i] = IF i < at THEN instances[i]
                                                            ELSE NoRecord

\* minLoad is a lower bound of the loads compared so far, and the load of the
\* selected instance, which is the first to have it.
Selecting ==
    /\ IF selected = 0 THEN minLoad = MaxInt
       ELSE /\ selected < at /\ list[selected].status = "active"
            /\ seen[selected] = minLoad /\ minLoad < MaxInt
    /\ \A i \in Ids : i < at /\ list[i].status = "active" =>
         /\ minLoad <= seen[i]
         /\ i < selected => minLoad < seen[i]

\* An undisturbed selection compares the loads the store holds.
SeenIsCurrent ==
    undisturbed =>
        \A i \in Ids : /\ list[i] = instances[i]
                       /\ i < at /\ Active(i) => seen[i] = LoadOf(i)

LoopInv ==
    /\ pc = "idle" => /\ Fresh /\ at = 1
                      /\ \A i \in Ids : list[i] = NoRecord
    /\ pc = "list" => Listing
    /\ pc = "select" => Selecting /\ SeenIsCurrent
    /\ pc = "answered" => \/ Fresh /\ ~undisturbed
                          \/ at = N + 1 /\ Selecting /\ SeenIsCurrent

IInv == TypeOK /\ LoopInv

-----------------------------------------------------------------------------

LEMMA InitIInv == Init => IInv
  BY SelectionAssumption
     DEF Init, IInv, TypeOK, LoopInv, Fresh, Ids, Loads, Records, NoRecord, NoMetrics

\* Every step keeps the types.
LEMMA TypeStep == IInv /\ [Next]_vars => TypeOK'
<1> SUFFICES ASSUME TypeOK, [Next]_vars PROVE TypeOK'
  BY DEF IInv
<1> USE SelectionAssumption DEF TypeOK, Ids, Loads
<1>1. ASSUME NEW i \in Ids, NEW r \in Records, RegisterInstance(i, r)
      PROVE  TypeOK'
  BY <1>1 DEF RegisterInstance, selection
<1>2. ASSUME NEW i \in Ids, NEW load \in Loads, UpdateInstanceMetrics(i, load)
      PROVE  TypeOK'
  BY <1>2 DEF UpdateInstanceMetrics, selection
<1>3. CASE ListKeys
  <2>1. keys' \in SUBSET Ids /\ pc' \in {"list", "answered"}
        /\ undisturbed' \in BOOLEAN
    BY <1>3 DEF ListKeys
  <2> QED
    BY <1>3, <2>1 DEF ListKeys, store
<1>4. CASE ReadInstance
  <2>1. at \in Ids /\ at' = at + 1 /\ undisturbed' \in BOOLEAN
    BY <1>4 DEF ReadInstance
  <2>2. list' \in [Ids -> Records \cup {NoRecord}]
    BY <1>4, <2>1 DEF ReadInstance
  <2> QED
    BY <1>4, <2>1, <2>2 DEF ReadInstance, store
<1>5. CASE SkipKey \/ ListDone \/ SkipInstance \/ Answer
  <2>1. at' \in 1..(N + 1) /\ pc' \in {"list", "select", "answered"}
    BY <1>5 DEF SkipKey, ListDone, SkipInstance, Answer
  <2>2. UNCHANGED <<instances, metrics, keys, list, selected, minLoad, seen,
                    undisturbed>>
    BY <1>5 DEF SkipKey, ListDone, SkipInstance, Answer, store
  <2> QED
    BY <2>1, <2>2
<1>6. CASE CompareInstance
  <2>1. PICK load \in LoadsRead(at) :
          /\ undisturbed' = (undisturbed /\ (metrics[at] = NoMetrics \/ load = metrics[at]))
          /\ seen' = [seen EXCEPT ![at] = load]
          /\ TakeIfLess(load)
    BY <1>6 DEF CompareInstance
  <2>2. load \in Loads
    BY <1>6 DEF CompareInstance, LoadsRead, Records, NoRecord, NoMetrics
  <2>3. undisturbed' \in BOOLEAN
    BY <2>1
  <2>4. selected' \in 0..N /\ minLoad' \in Loads
    BY <1>6, <2>1, <2>2 DEF CompareInstance, TakeIfLess
  <2> QED
    BY <1>6, <2>1, <2>2, <2>3, <2>4 DEF CompareInstance, store
<1>7. CASE NextRequest
  BY <1>7 DEF NextRequest, store
<1>8. CASE UNCHANGED vars
  BY <1>8 DEF vars, store, selection
<1> QED
  BY <1>1, <1>2, <1>3, <1>4, <1>5, <1>6, <1>7, <1>8 DEF Next, Select

\* Every step keeps what is known of the two loops.
LEMMA LoopStep == IInv /\ [Next]_vars => LoopInv'
<1> SUFFICES ASSUME TypeOK, LoopInv, [Next]_vars PROVE LoopInv'
  BY DEF IInv
<1> USE SelectionAssumption DEF TypeOK, LoopInv, Ids, Loads, Fresh
<1>1. CASE \/ \E i \in Ids, r \in Records : RegisterInstance(i, r)
           \/ \E i \in Ids, load \in Loads : UpdateInstanceMetrics(i, load)
  <2>1. ~undisturbed' /\ UNCHANGED selection
    BY <1>1 DEF RegisterInstance, UpdateInstanceMetrics
  <2> QED
    BY <2>1 DEF selection, Listing, Selecting, SeenIsCurrent
<1>2. CASE ListKeys
  BY <1>2 DEF ListKeys, store, Listing
<1>3. CASE ReadInstance
  <2>1. at \in Ids /\ at' = at + 1 /\ pc' = "list" /\ Listing
        /\ UNCHANGED <<instances, keys, selected, minLoad>>
    BY <1>3 DEF ReadInstance, store
  <2>2. undisturbed' => undisturbed /\ list' = [list EXCEPT ![at] = instances[at]]
    BY <1>3 DEF ReadInstance
  <2> QED
    BY <2>1, <2>2 DEF Listing
<1>4. CASE SkipKey
  <2>1. at \in Ids \ keys /\ at' = at + 1 /\ pc' = "list" /\ Listing
        /\ UNCHANGED <<instances, keys, list, selected, minLoad, undisturbed>>
    BY <1>4 DEF SkipKey, store
  <2>2. undisturbed => instances[at] = NoRecord
    BY <2>1 DEF Listing
  <2> QED
    BY <2>1, <2>2 DEF Listing
<1>5. CASE ListDone
  BY <1>5 DEF ListDone, store, Listing, Selecting, SeenIsCurrent
<1>6. CASE SkipInstance
  <2>1. /\ at \in Ids /\ list[at].status # "active" /\ at' = at + 1 /\ pc' = "select"
        /\ UNCHANGED <<instances, metrics, list, selected, minLoad, seen, undisturbed>>
        /\ Selecting /\ SeenIsCurrent
    BY <1>6 DEF SkipInstance, store
  <2>2. Selecting'
    BY <2>1 DEF Selecting
  <2>3. SeenIsCurrent'
    BY <2>1 DEF SeenIsCurrent, Active, LoadOf
  <2> QED
    BY <2>1, <2>2, <2>3
<1>7. CASE CompareInstance
  <2>1. PICK load \in LoadsRead(at) :
          /\ undisturbed' = (undisturbed /\ (metrics[at] = NoMetrics \/ load = metrics[at]))
          /\ seen' = [seen EXCEPT ![at] = load]
          /\ TakeIfLess(load)
    BY <1>7 DEF CompareInstance
  <2>0. list[at] \in Records
    BY <1>7 DEF CompareInstance, NoRecord
  <2>2. load \in Loads /\ at \in Ids /\ pc' = "select" /\ at' = at + 1
        /\ UNCHANGED <<instances, metrics, list>> /\ list[at].status = "active"
    BY <1>7, <2>0 DEF CompareInstance, LoadsRead, Records, NoMetrics, store
  <2>3. Selecting'
    <3>1. /\ seen'[at] = load /\ \A i \in Ids : i # at => seen'[i] = seen[i]
          /\ Selecting
      BY <1>7, <2>1, <2>2 DEF CompareInstance
    <3>2. CASE load < minLoad
      BY <2>1, <2>2, <3>1, <3>2 DEF Selecting, TakeIfLess
    <3>3. CASE ~(load < minLoad)
      BY <2>1, <2>2, <3>1, <3>3 DEF Selecting, TakeIfLess
    <3> QED
      BY <3>2, <3>3
  <2>4. SeenIsCurrent'
    <3> SUFFICES ASSUME undisturbed'
                 PROVE  \A i \in Ids :
                          /\ list[i] = instances[i]
                          /\ i < at + 1 /\ Active(i) => seen'[i] = LoadOf(i)
      BY <2>2 DEF SeenIsCurrent, Active, LoadOf
    <3>1. undisturbed /\ (metrics[at] = NoMetrics \/ load = metrics[at])
      BY <2>1
    <3>2. SeenIsCurrent
      BY <1>7 DEF CompareInstance
    <3>3. load = LoadOf(at)
      BY <2>1, <2>2, <3>1, <3>2 DEF LoadOf, LoadsRead, SeenIsCurrent
    <3>4. \A i \in Ids : seen'[i] = IF i = at THEN load ELSE seen[i]
      BY <2>1, <2>2
    <3> QED
      BY <2>2, <3>1, <3>2, <3>3, <3>4 DEF SeenIsCurrent
  <2> QED
    BY <2>2, <2>3, <2>4
<1>8. CASE Answer
  BY <1>8 DEF Answer, store, Selecting, SeenIsCurrent, Active, LoadOf
<1>9. CASE NextRequest
  BY <1>9 DEF NextRequest
<1>10. CASE UNCHANGED vars
  BY <1>10 DEF vars, store, selection, Listing, Selecting, SeenIsCurrent, Active, LoadOf
<1> QED
  BY <1>1, <1>2, <1>3, <1>4, <1>5, <1>6, <1>7, <1>8, <1>9, <1>10 DEF Next, Select

THEOREM Invariance == Spec => []IInv
<1>1. IInv /\ [Next]_vars => IInv'
  BY TypeStep, LoopStep DEF IInv
<1> QED
  BY <1>1, InitIInv, PTL DEF Spec

\* Every variable of a selection keeps its type.
THEOREM TypeCorrect == Spec => []TypeOK
<1>1. IInv => TypeOK
  BY DEF IInv
<1> QED
  BY <1>1, Invariance, PTL

\* An undisturbed selection answers with the first least loaded instance.
THEOREM LeastLoaded == Spec => []SelectsLeastLoaded
<1>1. IInv => SelectsLeastLoaded
  <2> SUFFICES ASSUME TypeOK, LoopInv, pc = "answered", undisturbed
               PROVE  IF Candidates = {} THEN selected = 0 ELSE IsBest(selected)
    BY DEF IInv, SelectsLeastLoaded
  <2> USE SelectionAssumption DEF TypeOK, Ids, Loads
  <2>1. at = N + 1 /\ Selecting /\ SeenIsCurrent
    BY DEF LoopInv
  <2>2. \A i \in Ids : Active(i) =>
          /\ minLoad <= LoadOf(i)
          /\ i < selected => minLoad < LoadOf(i)
    BY <2>1 DEF Selecting, SeenIsCurrent, Active
  <2>3. CASE selected = 0
    <3>1. minLoad = MaxInt
      BY <2>1, <2>3 DEF Selecting
    <3>2. \A i \in Ids : LoadOf(i) \in Nat
      BY DEF LoadOf, Records, NoRecord, NoMetrics
    <3>3. Candidates = {}
      BY <2>2, <3>1, <3>2 DEF Candidates
    <3> QED
      BY <2>3, <3>3
  <2>4. CASE selected # 0
    <3>1. selected \in Candidates /\ LoadOf(selected) = minLoad
      BY <2>1, <2>4 DEF Selecting, SeenIsCurrent, Candidates, Active
    <3> QED
      BY <2>2, <3>1 DEF IsBest, Candidates
  <2> QED
    BY <2>3, <2>4
<1> QED
  BY <1>1, Invariance, PTL

\* Whatever changes meanwhile, no load that was compared is below the choice's.
THEOREM LeastOfSeen == Spec => []SelectsLeastOfSeen
<1>1. IInv => SelectsLeastOfSeen
  BY SelectionAssumption
     DEF IInv, TypeOK, LoopInv, Fresh, Selecting, SelectsLeastOfSeen, Ids, Loads
<1> QED
  BY <1>1, Invariance, PTL

=============================================================================
