------------------------- MODULE InstanceSelection -------------------------
(***************************************************************************)
(* How the access manager chooses the instance a new credential goes to:   *)
(*   access-manager/internal/service/manager.go    selectOptimalInstance   *)
(*   access-manager/internal/repository/vault.go   ListInstances           *)
(*   access-manager/internal/repository/redis.go   GetInstanceMetrics      *)
(*                                                                         *)
(* The records of the instances are in Vault, their metrics in Redis; both *)
(* change while a selection reads them one call at a time, and any of the  *)
(* calls may fail.  A selection writes nothing, so selections running side *)
(* by side do not influence each other: the model has one.                 *)
(***************************************************************************)
EXTENDS Naturals

CONSTANTS
    N,        \* instances are 1..N, numbered in the order Vault lists them
    MaxInt    \* the largest int: minLoad before any instance is selected

ASSUME SelectionAssumption == N \in Nat \ {0} /\ MaxInt \in Nat \ {0}

Ids   == 1..N
Loads == 0..MaxInt

\* Record of an instance, reduced to what selection reads: every status but
\* "active" is the same to it.  NoRecord when Vault has none or it was not read.
NoRecord  == [status |-> "none", load |-> 0]
Records   == [status : {"active", "inactive"}, load : Loads]
NoMetrics == MaxInt + 1

VARIABLES
    instances,   \* Vault: instances/<id>
    metrics,     \* Redis: metrics:instance:<id>
    pc,          \* "idle", "list", "select" or "answered"
    keys,        \* the ids Vault listed
    list,        \* the records ListInstances has read
    at,          \* the id both loops are at
    selected,    \* selectedInstance, 0 when nil
    minLoad,
    seen,        \* history: the load each active instance was compared with
    undisturbed  \* history: nothing changed and no call failed since the List

store     == <<instances, metrics>>
selection == <<pc, keys, list, at, selected, minLoad, seen>>
vars      == <<store, selection, undisturbed>>

TypeOK ==
    /\ instances \in [Ids -> Records \cup {NoRecord}]
    /\ metrics \in [Ids -> Loads \cup {NoMetrics}]
    /\ pc \in {"idle", "list", "select", "answered"}
    /\ keys \in SUBSET Ids
    /\ list \in [Ids -> Records \cup {NoRecord}]
    /\ at \in 1..(N + 1)
    /\ selected \in 0..N
    /\ minLoad \in Loads
    /\ seen \in [Ids -> Loads]
    /\ undisturbed \in BOOLEAN

Init ==
    /\ instances = [i \in Ids |-> NoRecord]
    /\ metrics = [i \in Ids |-> NoMetrics]
    /\ pc = "idle" /\ keys = {} /\ at = 1
    /\ list = [i \in Ids |-> NoRecord]
    /\ selected = 0 /\ minLoad = MaxInt
    /\ seen = [i \in Ids |-> 0]
    /\ undisturbed = TRUE

(***************************************************************************)
(* What other requests do meanwhile.                                       *)
(***************************************************************************)

\* RegisterInstance: a new instance, or a new record for a known one.
RegisterInstance(i, r) ==
    /\ instances' = [instances EXCEPT ![i] = r]
    /\ undisturbed' = FALSE
    /\ UNCHANGED <<metrics, selection>>

\* UpdateInstanceMetrics, for whatever id the client names.
UpdateInstanceMetrics(i, load) ==
    /\ metrics' = [metrics EXCEPT ![i] = load]
    /\ undisturbed' = FALSE
    /\ UNCHANGED <<instances, selection>>

(***************************************************************************)
(* ListInstances: one List, then one Read for each key.                    *)
(***************************************************************************)

\* The List of Vault; its failure ends the selection with an error, which
\* is the same to the caller as finding no instance.
ListKeys ==
    /\ pc = "idle"
    /\ \/ /\ pc' = "list"
          /\ keys' = {i \in Ids : instances[i] # NoRecord}
          /\ undisturbed' = TRUE
       \/ /\ pc' = "answered"
          /\ keys' = {}
          /\ undisturbed' = FALSE
    /\ UNCHANGED <<store, list, at, selected, minLoad, seen>>

\* Mutant: a read that fails starts the list over.
ReadInstanceStartsOver ==
    /\ pc = "list" /\ at \in keys
    /\ \/ /\ list' = [list EXCEPT ![at] = instances[at]]
          /\ at' = at + 1
          /\ UNCHANGED undisturbed
       \/ /\ at' = 1
          /\ undisturbed' = FALSE
          /\ UNCHANGED list
    /\ UNCHANGED <<store, pc, keys, selected, minLoad, seen>>

\* GetInstance for the next key: a record, or a key that is skipped because
\* its read failed or its record is gone.
ReadInstance ==
    /\ pc = "list" /\ at \in keys
    /\ \/ /\ list' = [list EXCEPT ![at] = instances[at]]
          /\ UNCHANGED undisturbed
       \/ /\ undisturbed' = FALSE
          /\ UNCHANGED list
    /\ at' = at + 1
    /\ UNCHANGED <<store, pc, keys, selected, minLoad, seen>>

\* No instance has this key.
SkipKey ==
    /\ pc = "list" /\ at \in Ids \ keys
    /\ at' = at + 1
    /\ UNCHANGED <<store, pc, keys, list, selected, minLoad, seen, undisturbed>>

ListDone ==
    /\ pc = "list" /\ at = N + 1
    /\ pc' = "select" /\ at' = 1
    /\ UNCHANGED <<store, keys, list, selected, minLoad, seen, undisturbed>>

(***************************************************************************)
(* The loop of selectOptimalInstance.                                      *)
(***************************************************************************)

\* Instances not read, and instances that are not active, are passed over.
SkipInstance ==
    /\ pc = "select" /\ at \in Ids /\ list[at].status # "active"
    /\ at' = at + 1
    /\ UNCHANGED <<store, pc, keys, list, selected, minLoad, seen, undisturbed>>

\* Mutant: an instance as loaded as the selected one takes its place.
TakeLastTie(load) ==
    IF load <= minLoad THEN selected' = at /\ minLoad' = load
                       ELSE UNCHANGED <<selected, minLoad>>

\* Mutant: minLoad is not lowered with the selection.
TakeWithoutMin(load) ==
    IF load < minLoad THEN selected' = at /\ UNCHANGED minLoad
                      ELSE UNCHANGED <<selected, minLoad>>

\* if instance.Load < minLoad { select it }
TakeIfLess(load) ==
    IF load < minLoad THEN selected' = at /\ minLoad' = load
                      ELSE UNCHANGED <<selected, minLoad>>

\* Mutant: the error of GetInstanceMetrics is not looked at.
LoadsReadUnchecked(i) == {metrics[i]}

\* Metrics replace the load of the record when they can be read.
LoadsRead(i) == {metrics[i], list[i].load} \ {NoMetrics}

CompareInstance ==
    /\ pc = "select" /\ at \in Ids /\ list[at].status = "active"
    /\ \E load \in LoadsRead(at) :
         /\ undisturbed' = (undisturbed /\ (metrics[at] = NoMetrics \/ load = metrics[at]))
         /\ seen' = [seen EXCEPT ![at] = load]
         /\ TakeIfLess(load)
    /\ at' = at + 1
    /\ UNCHANGED <<store, pc, keys, list>>

Answer ==
    /\ pc = "select" /\ at = N + 1
    /\ pc' = "answered"
    /\ UNCHANGED <<store, keys, list, at, selected, minLoad, seen, undisturbed>>

\* The next request starts from fresh local variables.
NextRequest ==
    /\ pc = "answered"
    /\ pc' = "idle" /\ keys' = {} /\ at' = 1
    /\ list' = [i \in Ids |-> NoRecord]
    /\ selected' = 0 /\ minLoad' = MaxInt
    /\ seen' = [i \in Ids |-> 0]
    /\ undisturbed' = TRUE
    /\ UNCHANGED store

Select ==
    \/ ListKeys \/ ReadInstance \/ SkipKey \/ ListDone
    \/ SkipInstance \/ CompareInstance \/ Answer

Next ==
    \/ \E i \in Ids, r \in Records : RegisterInstance(i, r)
    \/ \E i \in Ids, load \in Loads : UpdateInstanceMetrics(i, load)
    \/ Select
    \/ NextRequest

Spec == Init /\ [][Next]_vars

\* Every call of Vault and Redis returns: the clients have timeouts.
FairSpec == Spec /\ WF_vars(Select)

(***************************************************************************)
(* Properties.                                                             *)
(***************************************************************************)

Active(i) == instances[i].status = "active"
LoadOf(i) == IF metrics[i] # NoMetrics THEN metrics[i] ELSE instances[i].load

\* The instance a selection should choose from the store as it is: the first
\* of the least loaded active ones, none (0) if they all report the maximum.
Candidates == {i \in Ids : Active(i) /\ LoadOf(i) < MaxInt}
IsBest(i)  ==
    /\ i \in Candidates
    /\ \A j \in Candidates : LoadOf(i) <= LoadOf(j)
    /\ \A j \in Candidates : j < i => LoadOf(i) < LoadOf(j)

\* A selection during which nothing changed and no call failed answers with
\* the first least loaded active instance, and finds none only if there is
\* none whose load is below the maximum.
SelectsLeastLoaded ==
    pc = "answered" /\ undisturbed =>
        IF Candidates = {} THEN selected = 0 ELSE IsBest(selected)

\* Whatever changes or fails meanwhile, the selected instance was active when
\* its record was read, and no active instance that was compared had a lower
\* load, as the selection saw it.
SelectsLeastOfSeen ==
    pc = "answered" /\ selected # 0 =>
        /\ list[selected].status = "active"
        /\ \A i \in Ids : list[i].status = "active" => seen[selected] <= seen[i]

\* Every selection comes to an answer however often instances register and
\* report meanwhile.
SelectionAnswers == pc = "list" ~> pc = "answered"

=============================================================================
