-------------------------- MODULE InstanceManager --------------------------
(***************************************************************************)
(* The manager of the order-book service, which starts, stops and replaces *)
(* exchange modules when credentials come and go:                          *)
(*   order-book-service/internal/service/manager.go                        *)
(*   order-book-service/internal/exchange/factory.go                       *)
(*                                                                         *)
(* Every exported method takes the mutex for its whole length and returns  *)
(* early in many places; between two of its steps the modules do network   *)
(* I/O that may fail.  A module is started or stopped here; what it does   *)
(* with its connections meanwhile is in ExchangeClient.                    *)
(***************************************************************************)
EXTENDS Naturals, FiniteSets

CONSTANTS
    Ids,            \* instance ids
    Exchanges,      \* exchange ids
    Registered,     \* the exchanges RegisterModuleFactory was called for
    Keys,           \* api keys
    Callers,        \* goroutines that call the manager
    Main,           \* the one that runs Start
    ConfigEnabled,  \* exchanges Start finds enabled in the config, none when
                    \* the access manager is in charge
    DefaultId,      \* exchange id -> instance id "<exchange>-default"
    Ops,            \* the methods the callers use
    Modules,        \* module objects
    None            \* no key, no module, the empty exchange id

ASSUME ManagerAssumption ==
    /\ Registered \subseteq Exchanges /\ ConfigEnabled \subseteq Exchanges
    /\ None \notin Exchanges \cup Keys \cup Modules \cup Callers
    /\ DefaultId \in [Exchanges -> Ids] /\ Main \in Callers
    /\ Ops \subseteq {"start", "stop", "update", "close"}

\* One object for each instance and one for the module that is being built.
ASSUME EnoughModules ==
    /\ IsFiniteSet(Ids) /\ IsFiniteSet(Modules)
    /\ Cardinality(Modules) > Cardinality(Ids)

NoInstance == [module |-> None, exchange |-> None, named |-> None, key |-> None]
NoCall     == [op |-> "none", id |-> None, exchange |-> None, key |-> None]
NoModule   == [kind |-> None, exchange |-> None, key |-> None, started |-> FALSE]

VARIABLES
    instances,  \* m.instances: id -> module, ExchangeID and Credentials, of
                \* which "named" is their ExchangeID and "key" the api key
    modules,    \* per object: its factory, its config, whether it was started
    mutex,      \* the caller that holds m.mutex, or None
    pc, call,   \* per caller: position and arguments
    new,        \* per caller: the module it has created, its local variable
    toStart     \* exchanges Start has still to range over

vars == <<instances, modules, mutex, pc, call, new, toStart>>

TypeOK ==
    /\ instances \in [Ids -> [module : Modules, exchange : Exchanges, named : Exchanges,
                              key : Keys] \cup {NoInstance}]
    /\ modules \in [Modules -> [kind : Exchanges, exchange : Exchanges, key : Keys,
                                started : BOOLEAN] \cup {NoModule}]
    /\ mutex \in Callers \cup {None}
    /\ pc \in [Callers -> {"idle", "lock", "check", "stop", "delete", "create",
                           "start", "store"}]
    /\ call \in [Callers -> [op : Ops \cup {"start", "stop"}, id : Ids \cup {None},
                             exchange : Exchanges \cup {None}, key : Keys \cup {None}]
                            \cup {NoCall}]
    /\ new \in [Callers -> Modules \cup {None}]
    /\ toStart \in SUBSET ConfigEnabled

Init ==
    /\ instances = [i \in Ids |-> NoInstance]
    /\ modules = [m \in Modules |-> NoModule]
    /\ mutex = None
    /\ pc = [c \in Callers |-> "idle"]
    /\ call = [c \in Callers |-> NoCall]
    /\ new = [c \in Callers |-> None]
    /\ toStart = ConfigEnabled

Found(i) == instances[i] # NoInstance
Started(i) == Found(i) /\ modules[instances[i].module].started

\* An object nothing refers to any more, or that was never made.
Fresh(m) ==
    /\ ~modules[m].started
    /\ \A i \in Ids : instances[i].module # m
    /\ \A c \in Callers : new[c] # m

Goto(c, to) == pc' = [pc EXCEPT ![c] = to]

\* Every return, with an error or without, runs the deferred Unlock.
Return(c) ==
    /\ Goto(c, "idle")
    /\ mutex' = None
    /\ new' = [new EXCEPT ![c] = None]
    /\ call' = [call EXCEPT ![c] = NoCall]

Call(c, op, i, e, k) ==
    /\ pc[c] = "idle"
    /\ Goto(c, "lock")
    /\ call' = [call EXCEPT ![c] = [op |-> op, id |-> i, exchange |-> e, key |-> k]]
    /\ UNCHANGED <<instances, modules, mutex, new>>

\* HandleCredentialsUpdate with action "add" or "update", or "remove", or a
\* shutdown.
Request(c) ==
    /\ c # Main
    /\ \/ \E op \in Ops \cap {"start", "update"}, i \in Ids, e \in Exchanges, k \in Keys :
             Call(c, op, i, e, k)
       \/ \E op \in Ops \cap {"stop"}, i \in Ids : Call(c, op, i, None, None)
       \/ \E op \in Ops \cap {"close"} : Call(c, op, None, None, None)
    /\ UNCHANGED toStart

\* One iteration of Start: the credentials it passes have no ExchangeID.
ConfigStart ==
    \E e \in toStart, k \in Keys :
        /\ Call(Main, "start", DefaultId[e], None, k)
        /\ toStart' = toStart \ {e}

\* Mutant: the registry is not locked.
LockAnyway(c) ==
    /\ pc[c] = "lock"
    /\ mutex' = c
    /\ Goto(c, "check")
    /\ UNCHANGED <<instances, modules, call, new, toStart>>

Lock(c) ==
    /\ pc[c] = "lock" /\ mutex = None
    /\ mutex' = c
    /\ Goto(c, "check")
    /\ UNCHANGED <<instances, modules, call, new, toStart>>

\* StartInstance: is there an instance with this id already?
CheckStart(c) ==
    /\ pc[c] = "check" /\ call[c].op = "start"
    /\ \/ Found(call[c].id) /\ Return(c)
       \/ /\ ~Found(call[c].id) /\ Goto(c, "create")
          /\ UNCHANGED <<mutex, call, new>>
    /\ UNCHANGED <<instances, modules, toStart>>

\* Mutant: the early return forgets the mutex.
CheckOldKeepsLock(c) ==
    /\ pc[c] = "check" /\ call[c].op \in {"stop", "update"}
    /\ \/ ~Found(call[c].id) /\ Goto(c, "idle")
       \/ Found(call[c].id) /\ Goto(c, "stop")
    /\ UNCHANGED <<instances, modules, mutex, call, new, toStart>>

\* StopInstance and UpdateInstanceCredentials: the instance must exist.
CheckOld(c) ==
    /\ pc[c] = "check" /\ call[c].op \in {"stop", "update"}
    /\ \/ ~Found(call[c].id) /\ Return(c)
       \/ /\ Found(call[c].id) /\ Goto(c, "stop")
          /\ UNCHANGED <<mutex, call, new>>
    /\ UNCHANGED <<instances, modules, toStart>>

\* Close holds the mutex and calls StopInstance, which takes it again: its
\* first iteration is its last.
CheckClose(c) ==
    /\ pc[c] = "check" /\ call[c].op = "close"
    /\ \/ (\A i \in Ids : ~Found(i)) /\ Return(c)
       \/ \E i \in Ids :
            /\ Found(i) /\ Goto(c, "lock")
            /\ call' = [call EXCEPT ![c].op = "stop", ![c].id = i]
            /\ UNCHANGED <<mutex, new>>
    /\ UNCHANGED <<instances, modules, toStart>>

\* Mutant: an update does not stop the module it replaces.
StopOnlyToDelete(c) ==
    /\ pc[c] = "stop"
    /\ \/ /\ call[c].op = "stop"
          /\ modules' = [modules EXCEPT ![instances[call[c].id].module].started = FALSE]
          /\ Goto(c, "delete")
       \/ call[c].op = "update" /\ UNCHANGED modules /\ Goto(c, "create")
    /\ UNCHANGED <<instances, mutex, call, new, toStart>>

\* Module.Stop; an error of it is logged, the module is stopped all the same.
StopModule(c) ==
    /\ pc[c] = "stop"
    /\ modules' = [modules EXCEPT ![instances[call[c].id].module].started = FALSE]
    /\ Goto(c, IF call[c].op = "stop" THEN "delete" ELSE "create")
    /\ UNCHANGED <<instances, mutex, call, new, toStart>>

DeleteInstance(c) ==
    /\ pc[c] = "delete"
    /\ instances' = [instances EXCEPT ![call[c].id] = NoInstance]
    /\ Return(c)
    /\ UNCHANGED <<modules, toStart>>

\* The factory is that of the credentials; the config of an update names the
\* exchange of the old instance.
ConfigExchange(c) ==
    IF call[c].op = "update" THEN instances[call[c].id].exchange ELSE call[c].exchange

\* Mutant: the factory is that of the exchange the config names.
CreateModuleOfOld(c) ==
    /\ pc[c] = "create" /\ call[c].exchange \in Registered
    /\ \E m \in Modules :
         /\ Fresh(m)
         /\ modules' = [modules EXCEPT ![m] =
              [kind |-> ConfigExchange(c), exchange |-> ConfigExchange(c),
               key |-> call[c].key, started |-> FALSE]]
         /\ new' = [new EXCEPT ![c] = m]
    /\ Goto(c, "start")
    /\ UNCHANGED <<instances, mutex, call, toStart>>

CreateModule(c) ==
    /\ pc[c] = "create" /\ call[c].exchange \in Registered
    /\ \E m \in Modules :
         /\ Fresh(m)
         /\ modules' = [modules EXCEPT ![m] =
              [kind |-> call[c].exchange, exchange |-> ConfigExchange(c),
               key |-> call[c].key, started |-> FALSE]]
         /\ new' = [new EXCEPT ![c] = m]
    /\ Goto(c, "start")
    /\ UNCHANGED <<instances, mutex, call, toStart>>

\* Mutant: modules are created without looking for a factory.
CreateFailsGoesOn(c) ==
    /\ pc[c] = "create" /\ call[c].exchange \notin Registered
    /\ Goto(c, "store")
    /\ UNCHANGED <<instances, modules, mutex, call, new, toStart>>

\* No factory for this exchange.
CreateFails(c) ==
    /\ pc[c] = "create" /\ call[c].exchange \notin Registered
    /\ Return(c)
    /\ UNCHANGED <<instances, modules, toStart>>

StartModule(c) ==
    /\ pc[c] = "start"
    /\ modules' = [modules EXCEPT ![new[c]].started = TRUE]
    /\ Goto(c, "store")
    /\ UNCHANGED <<instances, mutex, call, new, toStart>>

\* The pairs could not be read, before anything was connected.
StartFails(c) ==
    /\ pc[c] = "start"
    /\ Return(c)
    /\ UNCHANGED <<instances, modules, toStart>>

StoreInstance(c) ==
    /\ pc[c] = "store"
    /\ instances' = [instances EXCEPT ![call[c].id] =
         [module |-> new[c], exchange |-> ConfigExchange(c),
          named |-> call[c].exchange, key |-> call[c].key]]
    /\ Return(c)
    /\ UNCHANGED <<modules, toStart>>

\* What a caller does with the mutex and without waiting for anybody.
Working(c) ==
    \/ CheckStart(c) \/ CheckOld(c) \/ CheckClose(c)
    \/ StopModule(c) \/ DeleteInstance(c)
    \/ CreateModule(c) \/ CreateFails(c) \/ StoreInstance(c)

\* Module.Start returns when the database has answered it, if it ever does.
Locked(c) == Working(c) \/ StartModule(c) \/ StartFails(c)

Next ==
    \/ ConfigStart
    \/ \E c \in Callers : Request(c) \/ Lock(c) \/ Locked(c)

Spec == Init /\ [][Next]_vars

\* A goroutine is scheduled, and a waiting Lock is granted sooner or later if the
\* mutex keeps becoming free: Go's mutexes hand over to the longest waiter.
\* Nothing says that Module.Start returns: it reads the pairs of its exchange
\* from a database, without a timeout and with the mutex held.
FairSpec ==
    /\ Spec
    /\ \A c \in Callers : SF_vars(Lock(c)) /\ WF_vars(Working(c))

(***************************************************************************)
(* Properties.                                                             *)
(***************************************************************************)

\* Whatever call fails at whatever step, a started module is in the registry
\* or in the hands of the one caller that will put it there: no module streams
\* books that nobody can stop.
NoOrphanModule ==
    \A m \in Modules : modules[m].started =>
        \/ \E i \in Ids : instances[i].module = m
        \/ \E c \in Callers : mutex = c /\ new[c] = m

\* The record of an instance tells what its module is, through any number of
\* updates, failed or not: it connects with the key of the record's credentials
\* and to the exchange they name, and it saves under the record's ExchangeID.
\* An update with credentials of another exchange leaves the two apart; that an
\* instance streams one exchange under the name of another is then on record.
RecordMatchesModule ==
    \A i \in Ids : Found(i) =>
        LET m == modules[instances[i].module] IN
        /\ m.key = instances[i].key
        /\ m.kind = instances[i].named
        /\ m.exchange = instances[i].exchange

\* What a call has found in the registry is still so when it acts on it, after
\* any number of network calls: an instance to stop or to replace is there, an
\* id to start is free, and the module that is replaced does not run beside the
\* new one.
CheckedStillHolds ==
    \A c \in Callers :
        /\ pc[c] \in {"stop", "delete"} => Found(call[c].id)
        /\ pc[c] \in {"create", "start", "store"} =>
             IF call[c].op = "update" THEN Found(call[c].id) /\ ~Started(call[c].id)
             ELSE ~Found(call[c].id)

\* Close has locked the mutex and waits for it.
ClosedForEver == \E c \in Callers : pc[c] = "lock" /\ mutex = c

\* Nothing but Close locks the others out: every early return gives
\* the mutex back, whoever holds it is inside a method with what its next step
\* needs (a module that is to be created finds an object), and who waits for a
\* mutex it holds is a Close that met an instance.
OnlyCloseBlocks ==
    \A c \in Callers : mutex = c =>
        /\ pc[c] # "idle"
        /\ pc[c] = "lock" => c # Main /\ call[c].op = "stop" /\ Found(call[c].id)
        /\ pc[c] = "create" => \E m \in Modules : Fresh(m)

\* If no start of a module waits for the database for ever, every call of the
\* manager returns, through all its early returns and whoever else calls, unless
\* Close was called while there were instances.
CallsReturn ==
    (\A c \in Callers : []<>(pc[c] # "start")) =>
        \A c \in Callers : pc[c] = "lock" ~> (pc[c] = "idle" \/ ClosedForEver)

\* StartInstance refuses an id whose instance "is already running", none other.
ExistsMeansRunning ==
    \A c \in Callers :
        pc[c] = "check" /\ call[c].op = "start" /\ Found(call[c].id) => Started(call[c].id)

(***************************************************************************)
(* Refinement.                                                             *)
(***************************************************************************)
state == [i \in Ids |-> IF ~Found(i) THEN "absent"
                        ELSE IF Started(i) THEN "serving" ELSE "halted"]
inForce == [i \in Ids |-> instances[i].key]

Registry == INSTANCE InstanceRegistry WITH state <- state, inForce <- inForce

\* The manager keeps its promises about every instance.
ImplementsRegistry == Registry!Spec

=============================================================================
