----------------------- MODULE InstanceManagerProofs -----------------------
(***************************************************************************)
(* Proofs about InstanceManager for every set of ids, exchanges, keys and  *)
(* callers: whatever fails between two steps of a call, no started module  *)
(* is lost, and each instance is recorded as its module was made.          *)
(***************************************************************************)
EXTENDS InstanceManager, FiniteSetTheorems, TLAPS

\* Positions inside the manager's critical section.
Inside == {"check", "stop", "delete", "create", "start", "store"}

\* The arguments a call was made with.
Arguments(c) ==
    /\ pc[c] # "idle" =>
         /\ call[c].op \in {"start", "stop", "update", "close"}
         /\ call[c].op # "close" => call[c].id \in Ids
         /\ call[c].op \in {"start", "update"} => call[c].key \in Keys
         /\ c = Main => call[c].op = "start" /\ call[c].exchange = None

\* What a call knows of the registry at each of its steps.
Checked(c) ==
    /\ pc[c] = "stop" => call[c].op \in {"stop", "update"} /\ Found(call[c].id)
    /\ pc[c] = "delete" =>
         /\ call[c].op = "stop" /\ Found(call[c].id)
         /\ ~modules[instances[call[c].id].module].started
    /\ pc[c] \in {"create", "start", "store"} =>
         /\ call[c].op \in {"start", "update"}
         /\ call[c].op = "start" => ~Found(call[c].id)
         /\ call[c].op = "update" =>
              /\ Found(call[c].id)
              /\ ~modules[instances[call[c].id].module].started

\* The module a call has created is configured as the call says, and nobody
\* else's.
Created(c) ==
    /\ pc[c] \notin {"start", "store"} => new[c] = None
    /\ pc[c] \in {"start", "store"} =>
         /\ new[c] \in Modules /\ call[c].exchange \in Registered
         /\ modules[new[c]].key = call[c].key
         /\ modules[new[c]].exchange = ConfigExchange(c)
         /\ modules[new[c]].kind = call[c].exchange
         /\ modules[new[c]].started <=> pc[c] = "store"
         /\ \A i \in Ids : instances[i].module # new[c]

CallInv(c) ==
    /\ pc[c] \in Inside => mutex = c
    /\ Arguments(c) /\ Checked(c) /\ Created(c)

\* No module serves two instances.
OwnModules ==
    \A i, j \in Ids :
        Found(i) /\ Found(j) /\ instances[i].module = instances[j].module => i = j

IInv ==
    /\ TypeOK /\ \A c \in Callers : CallInv(c)
    /\ OwnModules /\ NoOrphanModule /\ RecordMatchesModule

-----------------------------------------------------------------------------

LEMMA InitIInv == Init => IInv
  BY ManagerAssumption
     DEF Init, IInv, TypeOK, CallInv, Arguments, Checked, Created, Inside, Found,
         NoInstance, NoModule, NoCall, OwnModules, NoOrphanModule, RecordMatchesModule

\* A caller outside the critical section is not affected by what another does
\* inside it.
LEMMA Outside ==
  ASSUME NEW d \in Callers, CallInv(d), pc[d] \notin Inside,
         pc'[d] = pc[d], call'[d] = call[d], new'[d] = new[d]
  PROVE  CallInv(d)'
  BY DEF CallInv, Arguments, Checked, Created, Inside

\* Nor is any by a step that leaves the registry and the mutex alone.
LEMMA Unaffected ==
  ASSUME NEW d \in Callers, CallInv(d), UNCHANGED <<instances, modules, mutex>>,
         pc'[d] = pc[d], call'[d] = call[d], new'[d] = new[d]
  PROVE  CallInv(d)'
  BY DEF CallInv, Arguments, Checked, Created, Inside, Found, ConfigExchange

\* Only one caller is in the critical section.
LEMMA Exclusive ==
  ASSUME IInv, NEW c \in Callers, pc[c] \in Inside, NEW d \in Callers \ {c}
  PROVE  mutex = c /\ pc[d] \notin Inside
  BY DEF IInv, CallInv

\* Types of what a step writes.
LEMMA TypeStep == IInv /\ [Next]_vars => TypeOK'
<1> SUFFICES ASSUME IInv, [Next]_vars PROVE TypeOK'
  OBVIOUS
<1>0. TypeOK /\ \A c \in Callers : CallInv(c)
  BY DEF IInv
<1>1. ASSUME NEW c \in Callers, NEW op \in Ops \cup {"start"}, NEW i \in Ids \cup {None},
             NEW e \in Exchanges \cup {None}, NEW k \in Keys \cup {None},
             Call(c, op, i, e, k), toStart' \in SUBSET ConfigEnabled
      PROVE  TypeOK'
  BY <1>0, <1>1 DEF TypeOK, Call, Goto
<1>2. CASE ConfigStart
  <2>1. PICK e \in toStart, k \in Keys :
          Call(Main, "start", DefaultId[e], None, k) /\ toStart' = toStart \ {e}
    BY <1>2 DEF ConfigStart
  <2>2. e \in Exchanges /\ DefaultId[e] \in Ids /\ Main \in Callers
    BY <1>0, <2>1, ManagerAssumption DEF TypeOK
  <2>3. toStart' \in SUBSET ConfigEnabled
    BY <1>0, <2>1 DEF TypeOK
  <2> QED
    BY <1>1, <2>1, <2>2, <2>3
<1>3. ASSUME NEW c \in Callers, Request(c)
      PROVE  TypeOK'
  <2>1. toStart' \in SUBSET ConfigEnabled
    BY <1>0, <1>3 DEF Request, TypeOK
  <2> QED
    BY <1>1, <1>3, <2>1 DEF Request
<1>4. ASSUME NEW c \in Callers, Lock(c)
      PROVE  TypeOK'
  BY <1>0, <1>4 DEF TypeOK, Lock, Goto
<1>5. ASSUME NEW c \in Callers, CheckStart(c)
      PROVE  TypeOK'
  BY <1>0, <1>5 DEF TypeOK, CheckStart, Goto, Return
<1>6. ASSUME NEW c \in Callers, CheckOld(c)
      PROVE  TypeOK'
  BY <1>0, <1>6 DEF TypeOK, CheckOld, Goto, Return
<1>7. ASSUME NEW c \in Callers, CheckClose(c)
      PROVE  TypeOK'
  <2>1. CASE Return(c) /\ UNCHANGED <<instances, modules, toStart>>
    BY <1>0, <2>1 DEF TypeOK, Goto, Return
  <2>2. ASSUME NEW i \in Ids, Goto(c, "lock"),
               call' = [call EXCEPT ![c].op = "stop", ![c].id = i],
               UNCHANGED <<instances, modules, mutex, new, toStart>>
        PROVE  TypeOK'
    <3>1. call[c] # NoCall
      BY <1>0, <1>7 DEF CheckClose, NoCall
    <3>2. call[c] \in [op : Ops \cup {"start", "stop"}, id : Ids \cup {None},
                       exchange : Exchanges \cup {None}, key : Keys \cup {None}]
      BY <1>0, <3>1 DEF TypeOK
    <3>3. [call[c] EXCEPT !.op = "stop", !.id = i]
            \in [op : Ops \cup {"start", "stop"}, id : Ids \cup {None},
                 exchange : Exchanges \cup {None}, key : Keys \cup {None}]
      BY <3>2
    <3>4. call' = [call EXCEPT ![c] = [call[c] EXCEPT !.op = "stop", !.id = i]]
      BY <1>0, <2>2 DEF TypeOK
    <3>5. call' \in [Callers -> [op : Ops \cup {"start", "stop"}, id : Ids \cup {None},
                                 exchange : Exchanges \cup {None}, key : Keys \cup {None}]
                                \cup {NoCall}]
      BY <1>0, <3>3, <3>4 DEF TypeOK
    <3> QED
      BY <1>0, <2>2, <3>5 DEF TypeOK, Goto
  <2> QED
    BY <1>7, <2>1, <2>2 DEF CheckClose
<1>8. ASSUME NEW c \in Callers, StopModule(c)
      PROVE  TypeOK'
  <2>1. Found(call[c].id) /\ call[c].id \in Ids
    BY <1>0, <1>8 DEF StopModule, CallInv, Checked, Arguments
  <2>2. /\ instances[call[c].id].module \in Modules
        /\ modules[instances[call[c].id].module] # NoModule
    BY <1>0, <2>1, ManagerAssumption
       DEF IInv, TypeOK, Found, RecordMatchesModule, NoModule
  <2>3. PICK m : m = instances[call[c].id].module
    OBVIOUS
  <2>4. modules[m] \in [kind : Exchanges, exchange : Exchanges, key : Keys, started : BOOLEAN]
    BY <1>0, <2>2, <2>3 DEF TypeOK
  <2>5. modules' = [modules EXCEPT ![m].started = FALSE]
    BY <1>8, <2>3 DEF StopModule
  <2>6. modules' \in [Modules -> [kind : Exchanges, exchange : Exchanges, key : Keys,
                                  started : BOOLEAN] \cup {NoModule}]
    BY <1>0, <2>2, <2>3, <2>4, <2>5 DEF TypeOK
  <2> QED
    BY <1>0, <1>8, <2>6 DEF TypeOK, StopModule, Goto
<1>9. ASSUME NEW c \in Callers, DeleteInstance(c)
      PROVE  TypeOK'
  BY <1>0, <1>9 DEF TypeOK, DeleteInstance, Goto, Return
<1>10. ASSUME NEW c \in Callers, CreateModule(c)
       PROVE  TypeOK'
  <2>1. PICK m \in Modules :
          /\ modules' = [modules EXCEPT ![m] =
               [kind |-> call[c].exchange, exchange |-> ConfigExchange(c),
                key |-> call[c].key, started |-> FALSE]]
          /\ new' = [new EXCEPT ![c] = m]
    BY <1>10 DEF CreateModule
  <2>2. call[c].exchange \in Exchanges /\ call[c].key \in Keys /\ ConfigExchange(c) \in Exchanges
    BY <1>0, <1>10, ManagerAssumption
       DEF CreateModule, TypeOK, CallInv, Arguments, Checked, ConfigExchange, Found
  <2>3. modules' \in [Modules -> [kind : Exchanges, exchange : Exchanges, key : Keys,
                                  started : BOOLEAN] \cup {NoModule}]
    BY <1>0, <2>1, <2>2 DEF TypeOK
  <2> QED
    BY <1>0, <1>10, <2>1, <2>3 DEF TypeOK, CreateModule, Goto
<1>11. ASSUME NEW c \in Callers, CreateFails(c) \/ StartFails(c)
       PROVE  TypeOK'
  BY <1>0, <1>11 DEF TypeOK, CreateFails, StartFails, Goto, Return
<1>12. ASSUME NEW c \in Callers, StartModule(c)
       PROVE  TypeOK'
  <2>1. new[c] \in Modules /\ modules[new[c]] # NoModule
    BY <1>0, <1>12, ManagerAssumption
       DEF StartModule, CallInv, Created, Checked, Arguments, NoModule
  <2>2. modules' \in [Modules -> [kind : Exchanges, exchange : Exchanges, key : Keys,
                                  started : BOOLEAN] \cup {NoModule}]
    BY <1>0, <1>12, <2>1 DEF TypeOK, StartModule
  <2> QED
    BY <1>0, <1>12, <2>2 DEF TypeOK, StartModule, Goto
<1>13. ASSUME NEW c \in Callers, StoreInstance(c)
       PROVE  TypeOK'
  <2>1. /\ new[c] \in Modules /\ call[c].key \in Keys /\ ConfigExchange(c) \in Exchanges
        /\ call[c].exchange \in Exchanges
    BY <1>0, <1>13, ManagerAssumption
       DEF StoreInstance, TypeOK, CallInv, Created, Arguments, Checked, ConfigExchange, Found
  <2> QED
    BY <1>0, <1>13, <2>1 DEF TypeOK, StoreInstance, Goto, Return
<1>14. CASE UNCHANGED vars
  BY <1>0, <1>14 DEF TypeOK, vars
<1> QED
  BY <1>2, <1>3, <1>4, <1>5, <1>6, <1>7, <1>8, <1>9, <1>10, <1>11, <1>12, <1>13, <1>14
     DEF Next, Locked, Working

\* What the callers know stays true.
LEMMA CallStep == IInv /\ [Next]_vars => \A c \in Callers : CallInv(c)'
<1> SUFFICES ASSUME IInv, [Next]_vars PROVE \A c \in Callers : CallInv(c)'
  OBVIOUS
<1>0. TypeOK /\ \A c \in Callers : CallInv(c)
  BY DEF IInv
<1>1. ASSUME NEW c \in Callers, NEW op \in {"start", "stop", "update", "close"},
             NEW i \in Ids \cup {None}, NEW e \in Exchanges \cup {None},
             NEW k \in Keys \cup {None}, Call(c, op, i, e, k),
             op # "close" => i \in Ids, op \in {"start", "update"} => k \in Keys,
             c = Main => op = "start" /\ e = None
      PROVE  \A d \in Callers : CallInv(d)'
  <2>1. CallInv(c)'
    BY <1>0, <1>1
       DEF Call, Goto, TypeOK, CallInv, Arguments, Checked, Created, Inside
  <2>2. ASSUME NEW d \in Callers \ {c} PROVE CallInv(d)'
    BY <1>0, <1>1, <2>2, Unaffected DEF Call, Goto, TypeOK
  <2> QED
    BY <2>1, <2>2
<1>2. CASE ConfigStart
  <2>1. PICK e \in toStart, k \in Keys : Call(Main, "start", DefaultId[e], None, k)
    BY <1>2 DEF ConfigStart
  <2>2. DefaultId[e] \in Ids /\ Main \in Callers
    BY <1>0, <2>1, ManagerAssumption DEF TypeOK
  <2> QED
    BY <1>1, <2>1, <2>2
<1>3. ASSUME NEW c \in Callers, Request(c)
      PROVE  \A d \in Callers : CallInv(d)'
  BY <1>1, <1>3 DEF Request
\* The steps inside the critical section: only the caller that takes one matters.
<1>4. ASSUME NEW c \in Callers, CallInv(c)',
             \A d \in Callers \ {c} : /\ pc[d] \notin Inside /\ pc'[d] = pc[d]
                                      /\ call'[d] = call[d] /\ new'[d] = new[d]
      PROVE  \A d \in Callers : CallInv(d)'
  BY <1>0, <1>4, Outside
<1>5. ASSUME NEW c \in Callers, Lock(c)
      PROVE  \A d \in Callers : CallInv(d)'
  <2>1. c # None /\ \A d \in Callers : pc[d] \notin Inside
    BY <1>0, <1>5, ManagerAssumption DEF Lock, CallInv, Inside
  <2>2. CallInv(c)'
    BY <1>0, <1>5
       DEF Lock, Goto, TypeOK, CallInv, Arguments, Checked, Created, Inside
  <2> QED
    BY <1>0, <1>4, <1>5, <2>1, <2>2 DEF Lock, Goto, TypeOK
<1>6. ASSUME NEW c \in Callers, pc[c] \in Inside, Return(c)
      PROVE  \A d \in Callers : CallInv(d)'
  <2>1. CallInv(c)'
    BY <1>0, <1>6
       DEF Return, Goto, TypeOK, CallInv, Arguments, Checked, Created, Inside
  <2> QED
    BY <1>0, <1>4, <1>6, <2>1, Exclusive DEF Return, Goto, TypeOK
<1>7. ASSUME NEW c \in Callers, CheckStart(c)
      PROVE  \A d \in Callers : CallInv(d)'
  <2>1. CASE Return(c)
    BY <1>6, <1>7, <2>1 DEF CheckStart, Inside
  <2>2. CASE ~Found(call[c].id) /\ Goto(c, "create") /\ UNCHANGED <<mutex, call, new>>
    <3>1. CallInv(c)'
      BY <1>0, <1>7, <2>2 DEF CheckStart, Goto, TypeOK, CallInv, Arguments,
         Checked, Created, Inside, Found
    <3> QED
      BY <1>0, <1>4, <1>7, <2>2, <3>1, Exclusive DEF CheckStart, Goto, TypeOK, Inside
  <2> QED
    BY <1>7, <2>1, <2>2 DEF CheckStart
<1>8. ASSUME NEW c \in Callers, CheckOld(c)
      PROVE  \A d \in Callers : CallInv(d)'
  <2>1. CASE Return(c)
    BY <1>6, <1>8, <2>1 DEF CheckOld, Inside
  <2>2. CASE Found(call[c].id) /\ Goto(c, "stop") /\ UNCHANGED <<mutex, call, new>>
    <3>1. CallInv(c)'
      BY <1>0, <1>8, <2>2 DEF CheckOld, Goto, TypeOK, CallInv, Arguments,
         Checked, Created, Inside, Found
    <3> QED
      BY <1>0, <1>4, <1>8, <2>2, <3>1, Exclusive DEF CheckOld, Goto, TypeOK, Inside
  <2> QED
    BY <1>8, <2>1, <2>2 DEF CheckOld
<1>9. ASSUME NEW c \in Callers, CheckClose(c)
      PROVE  \A d \in Callers : CallInv(d)'
  <2>1. CASE Return(c)
    BY <1>6, <1>9, <2>1 DEF CheckClose, Inside
  <2>2. ASSUME NEW i \in Ids, Goto(c, "lock"),
               call' = [call EXCEPT ![c].op = "stop", ![c].id = i],
               UNCHANGED <<mutex, new>>
        PROVE  \A d \in Callers : CallInv(d)'
    <3>1. c # Main
      BY <1>0, <1>9 DEF CheckClose, CallInv, Arguments
    <3>2. CallInv(c)'
      <4>1. call'[c].op = "stop" /\ call'[c].id = i
        BY <1>0, <2>2 DEF TypeOK, NoCall
      <4> QED
        BY <1>0, <1>9, <2>2, <3>1, <4>1 DEF CheckClose, Goto, TypeOK, CallInv,
           Arguments, Checked, Created, Inside
    <3> QED
      BY <1>0, <1>4, <1>9, <2>2, <3>2, Exclusive DEF CheckClose, Goto, TypeOK, Inside
  <2> QED
    BY <1>9, <2>1, <2>2 DEF CheckClose
<1>10. ASSUME NEW c \in Callers, StopModule(c)
       PROVE  \A d \in Callers : CallInv(d)'
  <2>1. Found(call[c].id) /\ call[c].id \in Ids /\ call[c].op \in {"stop", "update"}
    BY <1>0, <1>10 DEF StopModule, CallInv, Checked, Arguments
  <2>2. instances[call[c].id].module \in Modules
    BY <1>0, <2>1 DEF TypeOK, Found
  <2>3. ~modules'[instances[call[c].id].module].started
    <3>1. modules[instances[call[c].id].module] \in
            [kind : Exchanges, exchange : Exchanges, key : Keys, started : BOOLEAN]
            \cup {NoModule}
      BY <1>0, <2>2 DEF TypeOK
    <3> QED
      BY <1>0, <1>10, <2>2, <3>1 DEF TypeOK, StopModule, NoModule
  <2>4. CallInv(c)'
    BY <1>0, <1>10, <2>1, <2>3 DEF StopModule, Goto, TypeOK, CallInv, Arguments,
       Checked, Created, Inside, Found
  <2> QED
    BY <1>0, <1>4, <1>10, <2>4, Exclusive DEF StopModule, Goto, TypeOK, Inside
<1>11. ASSUME NEW c \in Callers, DeleteInstance(c) \/ CreateFails(c)
                                 \/ StartFails(c) \/ StoreInstance(c)
       PROVE  \A d \in Callers : CallInv(d)'
  BY <1>6, <1>11 DEF DeleteInstance, CreateFails, StartFails, StoreInstance, Inside
<1>12. ASSUME NEW c \in Callers, CreateModule(c)
       PROVE  \A d \in Callers : CallInv(d)'
  <2>1. PICK m \in Modules :
          /\ Fresh(m)
          /\ modules' = [modules EXCEPT ![m] =
               [kind |-> call[c].exchange, exchange |-> ConfigExchange(c),
                key |-> call[c].key, started |-> FALSE]]
          /\ new' = [new EXCEPT ![c] = m]
    BY <1>12 DEF CreateModule
  <2>2. new'[c] = m /\ pc'[c] = "start" /\ mutex' = mutex /\ call' = call
        /\ instances' = instances /\ ConfigExchange(c)' = ConfigExchange(c)
    BY <1>0, <1>12, <2>1 DEF CreateModule, Goto, TypeOK, ConfigExchange
  <2>3. modules'[m] = [kind |-> call[c].exchange, exchange |-> ConfigExchange(c),
                       key |-> call[c].key, started |-> FALSE]
    BY <1>0, <2>1 DEF TypeOK
  <2>4. \A i \in Ids : instances[i].module # m /\ (Found(i) => modules'[instances[i].module]
                                                     = modules[instances[i].module])
    BY <1>0, <2>1 DEF TypeOK, Fresh, Found
  <2>5. Created(c)'
    BY <1>12, <2>1, <2>2, <2>3, <2>4 DEF Created, CreateModule
  <2>6. Checked(c)'
    BY <1>0, <1>12, <2>2, <2>4 DEF CreateModule, CallInv, Checked, Arguments, Found
  <2>7. CallInv(c)'
    BY <1>0, <1>12, <2>2, <2>5, <2>6 DEF CreateModule, CallInv, Arguments, Inside
  <2> QED
    BY <1>0, <1>4, <1>12, <2>1, <2>7, Exclusive DEF CreateModule, Goto, TypeOK, Inside
<1>13. ASSUME NEW c \in Callers, StartModule(c)
       PROVE  \A d \in Callers : CallInv(d)'
  <2>1. /\ new[c] \in Modules /\ modules[new[c]].key \in Keys
        /\ \A i \in Ids : instances[i].module # new[c]
    BY <1>0, <1>13 DEF StartModule, CallInv, Created, Checked, Arguments
  <2>2. /\ modules'[new[c]].started
        /\ modules'[new[c]].key = modules[new[c]].key
        /\ modules'[new[c]].exchange = modules[new[c]].exchange
        /\ modules'[new[c]].kind = modules[new[c]].kind
    <3>1. modules[new[c]] \in [kind : Exchanges, exchange : Exchanges, key : Keys,
                               started : BOOLEAN]
      BY <1>0, <2>1, ManagerAssumption DEF TypeOK, NoModule
    <3> QED
      BY <1>0, <1>13, <2>1, <3>1 DEF StartModule, TypeOK
  <2>3. pc'[c] = "store" /\ UNCHANGED <<mutex, call, new, instances>>
    BY <1>0, <1>13 DEF StartModule, Goto, TypeOK
  <2>4. \A i \in Ids : Found(i) => modules'[instances[i].module] = modules[instances[i].module]
    BY <1>0, <1>13, <2>1 DEF StartModule, TypeOK, Found
  <2>5. Created(c)'
    BY <1>0, <1>13, <2>1, <2>2, <2>3 DEF StartModule, CallInv, Created, ConfigExchange
  <2>6. Checked(c)'
    BY <1>0, <1>13, <2>3, <2>4 DEF StartModule, CallInv, Checked, Arguments, Found
  <2>7. CallInv(c)'
    BY <1>0, <1>13, <2>3, <2>5, <2>6 DEF StartModule, CallInv, Arguments, Inside
  <2> QED
    BY <1>0, <1>4, <1>13, <2>7, Exclusive DEF StartModule, Goto, TypeOK, Inside
<1>14. CASE UNCHANGED vars
  BY <1>0, <1>14, Unaffected DEF vars
<1> QED
  BY <1>2, <1>3, <1>5, <1>7, <1>8, <1>9, <1>10, <1>11, <1>12, <1>13, <1>14
     DEF Next, Locked, Working

\* What StopModule does to the modules.
LEMMA StopEffect ==
  ASSUME IInv, NEW c \in Callers, StopModule(c)
  PROVE  LET m == instances[call[c].id].module IN
         /\ Found(call[c].id) /\ call[c].id \in Ids /\ m \in Modules
         /\ ~modules'[m].started
         /\ modules'[m].key = modules[m].key /\ modules'[m].exchange = modules[m].exchange
         /\ modules'[m].kind = modules[m].kind
         /\ \A n \in Modules \ {m} : modules'[n] = modules[n]
         /\ UNCHANGED <<instances, mutex, new>>
<1> DEFINE m == instances[call[c].id].module
<1>1. Found(call[c].id) /\ call[c].id \in Ids
  BY DEF IInv, StopModule, CallInv, Checked, Arguments
<1>2. m \in Modules /\ modules[m] # NoModule
  BY <1>1, ManagerAssumption DEF IInv, TypeOK, Found, RecordMatchesModule, NoModule
<1>3. modules[m] \in [kind : Exchanges, exchange : Exchanges, key : Keys, started : BOOLEAN]
  BY <1>2 DEF IInv, TypeOK
<1>4. modules' = [modules EXCEPT ![m].started = FALSE] /\ UNCHANGED <<instances, mutex, new>>
  BY DEF StopModule
<1> QED
  BY <1>1, <1>2, <1>3, <1>4 DEF IInv, TypeOK

\* What StartModule does to them: its module is in nobody's hands but the
\* caller's.
LEMMA StartEffect ==
  ASSUME IInv, NEW c \in Callers, StartModule(c)
  PROVE  /\ new[c] \in Modules /\ mutex = c
         /\ \A i \in Ids : instances[i].module # new[c]
         /\ \A n \in Modules \ {new[c]} : modules'[n] = modules[n]
         /\ UNCHANGED <<instances, mutex, new>>
  BY DEF IInv, TypeOK, StartModule, CallInv, Created, Inside

\* And CreateModule: the module it takes was in nobody's.
LEMMA CreateEffect ==
  ASSUME IInv, NEW c \in Callers, CreateModule(c)
  PROVE  \E m \in Modules :
           /\ Fresh(m) /\ ~modules'[m].started /\ new' = [new EXCEPT ![c] = m]
           /\ \A n \in Modules \ {m} : modules'[n] = modules[n]
           /\ new[c] = None /\ mutex = c
           /\ UNCHANGED <<instances, mutex>>
<1>1. PICK m \in Modules :
        /\ Fresh(m)
        /\ modules' = [modules EXCEPT ![m] =
             [kind |-> call[c].exchange, exchange |-> ConfigExchange(c),
              key |-> call[c].key, started |-> FALSE]]
        /\ new' = [new EXCEPT ![c] = m]
  BY DEF CreateModule
<1>2. ~modules'[m].started /\ \A n \in Modules \ {m} : modules'[n] = modules[n]
  BY <1>1 DEF IInv, TypeOK
<1>3. new[c] = None /\ mutex = c /\ UNCHANGED <<instances, mutex>>
  BY DEF IInv, CallInv, Created, Inside, CreateModule
<1> QED
  BY <1>1, <1>2, <1>3

\* What StoreInstance puts into the registry.
LEMMA StoreEffect ==
  ASSUME IInv, NEW c \in Callers, StoreInstance(c)
  PROVE  /\ call[c].id \in Ids /\ new[c] \in Modules /\ modules[new[c]].started
         /\ modules[new[c]].key = call[c].key /\ call[c].key \in Keys
         /\ modules[new[c]].exchange = ConfigExchange(c)
         /\ modules[new[c]].kind = call[c].exchange
         /\ \A i \in Ids : instances[i].module # new[c]
         /\ Found(call[c].id) => ~modules[instances[call[c].id].module].started
         /\ instances'[call[c].id] = [module |-> new[c], exchange |-> ConfigExchange(c),
                                      named |-> call[c].exchange, key |-> call[c].key]
         /\ \A i \in Ids \ {call[c].id} : instances'[i] = instances[i]
         /\ mutex = c /\ UNCHANGED modules
<1>1. call[c].id \in Ids /\ call[c].key \in Keys
  BY DEF IInv, StoreInstance, CallInv, Checked, Arguments
<1>2. /\ new[c] \in Modules /\ modules[new[c]].started
      /\ modules[new[c]].key = call[c].key
      /\ modules[new[c]].exchange = ConfigExchange(c)
      /\ modules[new[c]].kind = call[c].exchange
      /\ \A i \in Ids : instances[i].module # new[c]
      /\ mutex = c
  BY DEF IInv, StoreInstance, CallInv, Created, Inside
<1>3. Found(call[c].id) => ~modules[instances[call[c].id].module].started
  BY DEF IInv, StoreInstance, CallInv, Checked
<1> QED
  BY <1>1, <1>2, <1>3 DEF IInv, TypeOK, StoreInstance

\* Steps that change neither the registry nor a module, and give up no module
\* that was started.
Keeps ==
    /\ UNCHANGED <<instances, modules>>
    /\ \/ UNCHANGED <<mutex, new>>
       \/ mutex = None
       \/ \E c \in Callers :
            /\ mutex = c
            /\ new[c] # None => ~modules[new[c]].started

LEMMA StepKinds ==
  ASSUME IInv, [Next]_vars
  PROVE  \/ Keeps
         \/ \E c \in Callers : \/ StopModule(c) \/ DeleteInstance(c) \/ CreateModule(c)
                              \/ StartModule(c) \/ StoreInstance(c)
<1>1. CASE ConfigStart
  BY <1>1 DEF ConfigStart, Call, Keeps
<1>2. ASSUME NEW c \in Callers, Request(c) \/ Lock(c) PROVE Keeps
  BY <1>2 DEF Request, Call, Lock, Keeps
<1>3. ASSUME NEW c \in Callers, CheckStart(c) \/ CheckOld(c) \/ CheckClose(c)
                                \/ CreateFails(c) \/ StartFails(c)
      PROVE  Keeps
  <2>1. UNCHANGED <<instances, modules>>
    BY <1>3 DEF CheckStart, CheckOld, CheckClose, CreateFails, StartFails
  <2>2. pc[c] \in {"check", "create", "start"}
    BY <1>3 DEF CheckStart, CheckOld, CheckClose, CreateFails, StartFails
  <2>3. mutex = c /\ (new[c] # None => ~modules[new[c]].started)
    BY <2>2 DEF IInv, CallInv, Created, Inside
  <2> QED
    BY <2>1, <2>3 DEF Keeps
<1>4. CASE UNCHANGED vars
  BY <1>4 DEF vars, Keeps
<1> QED
  BY <1>1, <1>2, <1>3, <1>4 DEF Next, Locked, Working

\* No step loses a started module, or lets two instances share one.
LEMMA RegistryStep ==
  IInv /\ [Next]_vars => OwnModules' /\ NoOrphanModule' /\ RecordMatchesModule'
<1> SUFFICES ASSUME IInv, [Next]_vars
             PROVE  OwnModules' /\ NoOrphanModule' /\ RecordMatchesModule'
  OBVIOUS
<1>0. TypeOK /\ OwnModules /\ NoOrphanModule /\ RecordMatchesModule
  BY DEF IInv
<1>1. \A i \in Ids : Found(i) => instances[i].module \in Modules
  BY <1>0 DEF TypeOK, Found
<1>2. CASE Keeps
  <2>1. OwnModules' /\ RecordMatchesModule'
    BY <1>0, <1>2 DEF Keeps, OwnModules, RecordMatchesModule, Found
  <2>2. NoOrphanModule'
    <3>1. None \notin Modules /\ None \notin Callers
      BY ManagerAssumption
    <3>2. ASSUME NEW m \in Modules, modules[m].started
          PROVE  \/ \E i \in Ids : instances'[i].module = m
                 \/ \E c \in Callers : mutex' = c /\ new'[c] = m
      BY <1>0, <1>2, <3>1, <3>2 DEF Keeps, NoOrphanModule
    <3> QED
      BY <1>2, <3>2 DEF Keeps, NoOrphanModule
  <2> QED
    BY <2>1, <2>2
<1>3. ASSUME NEW c \in Callers, StopModule(c)
      PROVE  OwnModules' /\ NoOrphanModule' /\ RecordMatchesModule'
  BY <1>0, <1>1, <1>3, StopEffect DEF OwnModules, NoOrphanModule, RecordMatchesModule, Found
<1>4. ASSUME NEW c \in Callers, DeleteInstance(c)
      PROVE  OwnModules' /\ NoOrphanModule' /\ RecordMatchesModule'
  <2>1. /\ call[c].id \in Ids /\ Found(call[c].id) /\ new[c] = None /\ mutex = c
        /\ ~modules[instances[call[c].id].module].started
    BY <1>4 DEF IInv, DeleteInstance, CallInv, Checked, Arguments, Created, Inside
  <2>2. /\ instances'[call[c].id] = NoInstance /\ UNCHANGED modules
        /\ \A i \in Ids \ {call[c].id} : instances'[i] = instances[i]
    BY <1>0, <1>4, <2>1 DEF DeleteInstance, TypeOK
  <2>3. OwnModules' /\ RecordMatchesModule'
    BY <1>0, <2>1, <2>2 DEF OwnModules, RecordMatchesModule, Found
  <2>4. ASSUME NEW m \in Modules, modules[m].started
        PROVE  \E i \in Ids : instances'[i].module = m
    <3>1. PICK i \in Ids : instances[i].module = m
      BY <1>0, <2>1, <2>4, ManagerAssumption DEF NoOrphanModule
    <3>2. i # call[c].id
      BY <2>1, <2>4, <3>1
    <3> QED
      BY <2>2, <3>1, <3>2
  <2> QED
    BY <2>2, <2>3, <2>4 DEF NoOrphanModule
<1>5. ASSUME NEW c \in Callers, CreateModule(c)
      PROVE  OwnModules' /\ NoOrphanModule' /\ RecordMatchesModule'
  <2>1. PICK m \in Modules :
          /\ Fresh(m) /\ ~modules'[m].started /\ new' = [new EXCEPT ![c] = m]
          /\ \A n \in Modules \ {m} : modules'[n] = modules[n]
          /\ new[c] = None /\ mutex = c
          /\ UNCHANGED <<instances, mutex>>
    BY <1>5, CreateEffect
  <2>2. OwnModules' /\ RecordMatchesModule'
    BY <1>0, <1>1, <2>1 DEF OwnModules, RecordMatchesModule, Found, Fresh
  <2>3. ASSUME NEW n \in Modules, modules'[n].started
        PROVE  \E i \in Ids : instances'[i].module = n
    BY <1>0, <2>1, <2>3, ManagerAssumption DEF NoOrphanModule
  <2> QED
    BY <2>2, <2>3 DEF NoOrphanModule
<1>6. ASSUME NEW c \in Callers, StartModule(c)
      PROVE  OwnModules' /\ NoOrphanModule' /\ RecordMatchesModule'
  <2>1. OwnModules' /\ RecordMatchesModule'
    BY <1>0, <1>1, <1>6, StartEffect DEF OwnModules, RecordMatchesModule, Found
  <2>2. NoOrphanModule'
    BY <1>0, <1>6, StartEffect DEF NoOrphanModule
  <2> QED
    BY <2>1, <2>2
<1>7. ASSUME NEW c \in Callers, StoreInstance(c)
      PROVE  OwnModules' /\ NoOrphanModule' /\ RecordMatchesModule'
  <2> DEFINE id == call[c].id
  <2>1. /\ id \in Ids /\ new[c] \in Modules
        /\ modules[new[c]].key = call[c].key
        /\ modules[new[c]].exchange = ConfigExchange(c)
        /\ modules[new[c]].kind = call[c].exchange
        /\ \A i \in Ids : instances[i].module # new[c]
        /\ Found(id) => ~modules[instances[id].module].started
        /\ instances'[id] = [module |-> new[c], exchange |-> ConfigExchange(c),
                             named |-> call[c].exchange, key |-> call[c].key]
        /\ \A i \in Ids \ {id} : instances'[i] = instances[i]
        /\ mutex = c /\ UNCHANGED modules
    BY <1>7, StoreEffect
  <2> HIDE DEF id
  <2>2. OwnModules'
    BY <1>0, <2>1 DEF OwnModules, Found
  <2>3. RecordMatchesModule'
    BY <1>0, <2>1 DEF RecordMatchesModule, Found
  <2>4. ASSUME NEW n \in Modules, modules[n].started
        PROVE  \E i \in Ids : instances'[i].module = n
    <3>1. CASE n = new[c]
      BY <2>1, <3>1
    <3>2. CASE n # new[c]
      <4>1. PICK i \in Ids : instances[i].module = n
        BY <1>0, <2>1, <2>4, <3>2 DEF NoOrphanModule
      <4>2. i # id
        BY <2>1, <2>4, <4>1, ManagerAssumption DEF Found, NoInstance
      <4> QED
        BY <2>1, <4>1, <4>2
    <3> QED
      BY <3>1, <3>2
  <2> QED
    BY <2>1, <2>2, <2>3, <2>4 DEF NoOrphanModule
<1> QED
  BY <1>2, <1>3, <1>4, <1>5, <1>6, <1>7, StepKinds

LEMMA IInvStep == IInv /\ [Next]_vars => IInv'
  BY TypeStep, CallStep, RegistryStep DEF IInv

LEMMA Invariant == Spec => []IInv
  BY InitIInv, IInvStep, PTL DEF Spec

-----------------------------------------------------------------------------

\* The manager's variables keep their types.
THEOREM TypeCorrect == Spec => []TypeOK
<1>1. IInv => TypeOK
  BY DEF IInv
<1> QED
  BY <1>1, Invariant, PTL

\* No call, wherever it fails, leaves a started module that nobody can stop.
THEOREM NoModuleOrphaned == Spec => []NoOrphanModule
<1>1. IInv => NoOrphanModule
  BY DEF IInv
<1> QED
  BY <1>1, Invariant, PTL

\* Each instance is recorded with the key its module connects with, the exchange
\* it connects to and the exchange it saves under, equal or not.
THEOREM RecordsMatch == Spec => []RecordMatchesModule
<1>1. IInv => RecordMatchesModule
  BY DEF IInv
<1> QED
  BY <1>1, Invariant, PTL

\* Start does not change the registry while its goroutine holds the mutex.
ConfigStartsNothing == [][mutex = Main => \A i \in Ids : Found(i)' = Found(i)]_vars

\* Start is there to "start instances from the config", and never starts one: the
\* credentials it passes name no exchange, and the empty exchange id has no
\* factory, whatever is registered, stopped or updated meanwhile.
THEOREM StartStartsNothing == Spec => ConfigStartsNothing
<1> DEFINE Step == mutex = Main => \A i \in Ids : Found(i)' = Found(i)
<1>1. IInv /\ [Next]_vars => Step
  <2> SUFFICES ASSUME IInv, [Next]_vars, mutex = Main
               PROVE  \A i \in Ids : Found(i)' = Found(i)
    OBVIOUS
  <2>1. CASE UNCHANGED instances
    BY <2>1 DEF Found
  <2>2. ASSUME NEW c \in Callers, DeleteInstance(c) \/ StoreInstance(c)
        PROVE  FALSE
    <3>1. c = Main
      BY <2>2, ManagerAssumption DEF IInv, CallInv, Inside, DeleteInstance, StoreInstance
    <3>2. call[c].op = "start" /\ call[c].exchange = None
      BY <2>2, <3>1 DEF IInv, CallInv, Arguments, DeleteInstance, StoreInstance
    <3>3. StoreInstance(c) => call[c].exchange \in Registered
      BY DEF IInv, CallInv, Created, StoreInstance
    <3>4. DeleteInstance(c) => call[c].op = "stop"
      BY DEF IInv, CallInv, Checked, DeleteInstance
    <3> QED
      BY <2>2, <3>2, <3>3, <3>4, ManagerAssumption
  <2>3. UNCHANGED instances
    BY <2>2, StepKinds DEF Keeps, StopModule, CreateModule, StartModule
  <2> QED
    BY <2>1, <2>3
<1>2. IInv /\ [Next]_vars => [Step]_vars
  BY <1>1
<1> QED
  BY <1>2, Invariant, PTL DEF Spec, ConfigStartsNothing

-----------------------------------------------------------------------------

\* What a call has checked under the mutex holds until it is done with it.
THEOREM ChecksHold == Spec => []CheckedStillHolds
<1>1. IInv => CheckedStillHolds
  BY DEF IInv, CallInv, Checked, CheckedStillHolds, Started
<1> QED
  BY <1>1, Invariant, PTL

\* There are more objects than instances, so a call that creates a module finds
\* one that is in nobody's hands: EnoughModules cuts no behaviour off.
LEMMA ObjectToSpare ==
  ASSUME IInv, NEW c \in Callers, pc[c] = "create"
  PROVE  \E m \in Modules : Fresh(m)
<1>1. PICK m \in Modules : \A i \in Ids : instances[i].module # m
  <2> SUFFICES ASSUME \A m \in Modules : \E i \in Ids : instances[i].module = m
               PROVE  FALSE
    OBVIOUS
  <2> DEFINE owner == [m \in Modules |-> CHOOSE i \in Ids : instances[i].module = m]
  <2>1. \A m \in Modules : owner[m] \in Ids /\ instances[owner[m]].module = m
    OBVIOUS
  <2>2. owner \in [Modules -> Ids]
    BY <2>1
  <2> HIDE DEF owner
  <2>3. Cardinality(Ids) \in Nat /\ Cardinality(Modules) \in Nat
    BY EnoughModules, FS_CardinalityType
  <2>4. PICK m \in Modules, n \in Modules : m # n /\ owner[m] = owner[n]
    BY <2>2, <2>3, EnoughModules, FS_PigeonHole
  <2> QED
    BY <2>1, <2>4
<1>2. mutex = c /\ new[c] = None
  BY DEF IInv, CallInv, Created, Inside
<1>3. \A d \in Callers : new[d] # m
  <2>1. \A d \in Callers \ {c} : new[d] = None
    BY Exclusive DEF IInv, CallInv, Created, Inside
  <2> QED
    BY <1>2, <2>1, ManagerAssumption
<1>4. ~modules[m].started
  BY <1>1, <1>3 DEF IInv, NoOrphanModule
<1> QED
  BY <1>1, <1>3, <1>4 DEF Fresh

\* Who holds the mutex is inside a method, or it is Close before an instance.
Holder ==
    \A c \in Callers : mutex = c =>
        /\ pc[c] # "idle"
        /\ pc[c] = "lock" => c # Main /\ call[c].op = "stop" /\ Found(call[c].id)

LEMMA HolderStep == IInv /\ Holder /\ [Next]_vars => Holder'
<1> SUFFICES ASSUME IInv, Holder, [Next]_vars, NEW c \in Callers, mutex' = c
             PROVE  /\ pc'[c] # "idle"
                    /\ pc'[c] = "lock" =>
                         c # Main /\ call'[c].op = "stop" /\ Found(call[c].id)'
  BY DEF Holder
<1>0. TypeOK /\ None \notin Callers
  BY ManagerAssumption DEF IInv
<1>1. ASSUME NEW d \in Callers, NEW op, NEW i, NEW e, NEW k, Call(d, op, i, e, k)
      PROVE  /\ mutex = c /\ UNCHANGED instances
             /\ pc'[c] = pc[c] /\ call'[c] = call[c]
  <2>1. mutex = c /\ UNCHANGED instances /\ pc[d] = "idle"
    BY <1>1 DEF Call
  <2>2. d # c
    BY <2>1 DEF Holder
  <2> QED
    BY <1>0, <1>1, <2>1, <2>2 DEF Call, Goto, TypeOK
<1>2. ASSUME mutex = c, UNCHANGED instances, pc'[c] = pc[c], call'[c] = call[c]
      PROVE  /\ pc'[c] # "idle"
             /\ pc'[c] = "lock" =>
                  c # Main /\ call'[c].op = "stop" /\ Found(call[c].id)'
  BY <1>2 DEF Holder, Found
<1>3. CASE ConfigStart
  BY <1>1, <1>2, <1>3, ManagerAssumption DEF ConfigStart
<1>4. ASSUME NEW d \in Callers, Request(d)
      PROVE  /\ mutex = c /\ UNCHANGED instances
             /\ pc'[c] = pc[c] /\ call'[c] = call[c]
  BY <1>1, <1>4 DEF Request
<1>5. ASSUME NEW d \in Callers, Lock(d)
      PROVE  pc'[c] = "check"
  BY <1>0, <1>5 DEF Lock, Goto, TypeOK
<1>6. ASSUME NEW d \in Callers, Return(d)
      PROVE  FALSE
  BY <1>0, <1>6 DEF Return
<1>7. ASSUME NEW d \in Callers, CheckStart(d) \/ CheckOld(d) \/ StopModule(d) \/ CreateModule(d)
                                \/ StartModule(d)
      PROVE  pc'[c] \in {"create", "stop", "delete", "start", "store"}
  <2>1. mutex = d
    BY <1>7 DEF IInv, CallInv, Inside, CheckStart, CheckOld, StopModule, CreateModule, StartModule
  <2>2. UNCHANGED mutex
    BY <1>6, <1>7 DEF CheckStart, CheckOld, StopModule, CreateModule, StartModule
  <2>3. c = d
    BY <2>1, <2>2
  <2> QED
    BY <1>0, <1>6, <1>7, <2>3
       DEF CheckStart, CheckOld, StopModule, CreateModule, StartModule, Goto, TypeOK
<1>8. ASSUME NEW d \in Callers, CheckClose(d)
      PROVE  c # Main /\ pc'[c] = "lock" /\ call'[c].op = "stop" /\ Found(call[c].id)'
  <2>1. PICK i \in Ids :
          /\ Found(i) /\ Goto(d, "lock")
          /\ call' = [call EXCEPT ![d].op = "stop", ![d].id = i]
          /\ UNCHANGED <<mutex, instances>>
    BY <1>6, <1>8 DEF CheckClose
  <2>2. pc[d] = "check" /\ call[d].op = "close" /\ mutex = d
    BY <1>8 DEF CheckClose, IInv, CallInv, Inside
  <2>3. c = d /\ c # Main
    BY <2>1, <2>2 DEF IInv, CallInv, Arguments
  <2>4. pc'[c] = "lock" /\ call'[c].op = "stop" /\ call'[c].id = i
    BY <1>0, <2>1, <2>2, <2>3 DEF Goto, TypeOK, NoCall
  <2> QED
    BY <2>1, <2>3, <2>4 DEF Found
<1>9. ASSUME NEW d \in Callers, DeleteInstance(d) \/ CreateFails(d) \/ StartFails(d)
                                \/ StoreInstance(d)
      PROVE  FALSE
  BY <1>6, <1>9 DEF DeleteInstance, CreateFails, StartFails, StoreInstance
<1>10. CASE UNCHANGED vars
  BY <1>2, <1>10 DEF vars
<1> QED
  BY <1>2, <1>3, <1>4, <1>5, <1>7, <1>8, <1>9, <1>10 DEF Next, Locked, Working

LEMMA HolderInvariant == Spec => []Holder
<1>1. Init => Holder
  BY ManagerAssumption DEF Init, Holder
<1> QED
  BY <1>1, HolderStep, Invariant, PTL DEF Spec

\* Every call gives the mutex back, and can go on until it does, unless it is a
\* Close that has met an instance.
THEOREM OnlyCloseLocksOut == Spec => []OnlyCloseBlocks
<1>1. IInv /\ Holder => OnlyCloseBlocks
  BY ObjectToSpare DEF Holder, OnlyCloseBlocks
<1> QED
  BY <1>1, Invariant, HolderInvariant, PTL

\* After a Close that has locked itself out no step changes the registry, a
\* module or the mutex.
LEMMA FrozenStep ==
  IInv /\ [Next]_vars /\ ClosedForEver
    => ClosedForEver' /\ UNCHANGED <<instances, modules, mutex>>
<1> SUFFICES ASSUME IInv, [Next]_vars, NEW c \in Callers, pc[c] = "lock", mutex = c
             PROVE  ClosedForEver' /\ UNCHANGED <<instances, modules, mutex>>
  BY DEF ClosedForEver
<1>0. TypeOK /\ None \notin Callers /\ \A d \in Callers : pc[d] \notin Inside
  BY ManagerAssumption DEF IInv, CallInv, Inside
<1>1. ASSUME NEW d \in Callers, NEW op, NEW i, NEW e, NEW k, Call(d, op, i, e, k)
      PROVE  pc'[c] = "lock" /\ UNCHANGED <<instances, modules, mutex>>
  BY <1>0, <1>1 DEF Call, Goto, TypeOK
<1>2. CASE ConfigStart
  BY <1>1, <1>2, ManagerAssumption DEF ConfigStart, ClosedForEver
<1>3. ASSUME NEW d \in Callers, Request(d)
      PROVE  ClosedForEver' /\ UNCHANGED <<instances, modules, mutex>>
  BY <1>1, <1>3 DEF Request, ClosedForEver
<1>4. ASSUME NEW d \in Callers, Lock(d) \/ Locked(d)
      PROVE  FALSE
  BY <1>0, <1>4
     DEF Lock, Locked, Working, Inside, CheckStart, CheckOld, CheckClose, StopModule, DeleteInstance,
         CreateModule, CreateFails, StartModule, StartFails, StoreInstance
<1>5. CASE UNCHANGED vars
  BY <1>5 DEF vars, ClosedForEver
<1> QED
  BY <1>2, <1>3, <1>4, <1>5 DEF Next

\* A Close that met a running instance waits for itself, and does so for ever:
\* nothing is stopped, replaced or started after it.
THEOREM LockedOutForGood ==
  Spec => [](ClosedForEver => [][UNCHANGED <<instances, modules, mutex>>]_vars /\ []ClosedForEver)
<1> DEFINE Still == UNCHANGED <<instances, modules, mutex>>
<1>1. IInv /\ [Next]_vars /\ ClosedForEver => ClosedForEver'
  BY FrozenStep
<1>2. IInv /\ [Next]_vars => [ClosedForEver => Still]_vars
  BY FrozenStep
<1> HIDE DEF Still
<1>3. Spec => [](ClosedForEver => [][Still]_vars /\ []ClosedForEver)
  BY <1>1, <1>2, Invariant, PTL DEF Spec
<1> QED
  BY <1>3 DEF Still

-----------------------------------------------------------------------------

\* The key of one record becomes k.
LEMMA InForceIs ==
  ASSUME NEW id \in Ids, NEW k, instances'[id].key = k,
         \A i \in Ids \ {id} : instances'[i] = instances[i]
  PROVE  inForce' = [inForce EXCEPT ![id] = k]
<1>1. /\ inForce = [i \in Ids |-> inForce[i]] /\ inForce' = [i \in Ids |-> inForce'[i]]
  BY DEF inForce
<1>2. \A i \in Ids : inForce'[i] = IF i = id THEN k ELSE inForce[i]
  BY DEF inForce
<1> QED
  BY <1>1, <1>2

\* The registry an outsider sees changes by what a step writes, or not at all.
LEMMA RefinementStep == IInv /\ [Next]_vars => [Registry!Next]_(Registry!vars)
<1> SUFFICES ASSUME IInv, [Next]_vars
             PROVE  [Registry!Next]_(Registry!vars)
  OBVIOUS
<1>0. TypeOK /\ OwnModules
  BY DEF IInv
<1>1. \A i \in Ids : Found(i) => instances[i].module \in Modules
  BY <1>0 DEF TypeOK, Found
<1>2. CASE Keeps
  BY <1>2 DEF Keeps, Registry!vars, state, inForce, Found, Started
<1>3. ASSUME NEW c \in Callers, StopModule(c)
      PROVE  [Registry!Next]_(Registry!vars)
  <2> DEFINE id == call[c].id
             m == instances[id].module
  <2>1. /\ Found(id) /\ id \in Ids /\ m \in Modules
        /\ ~modules'[m].started
        /\ \A n \in Modules \ {m} : modules'[n] = modules[n]
        /\ UNCHANGED instances
    BY <1>3, StopEffect
  <2> HIDE DEF id
  <2>2. state'[id] = "halted" /\ \A i \in Ids \ {id} : state'[i] = state[i]
    BY <1>0, <1>1, <2>1 DEF state, Found, Started, OwnModules
  <2>3. UNCHANGED inForce
    BY <2>1 DEF inForce
  <2>4. CASE modules[m].started
    <3>1. state[id] = "serving"
      BY <2>1, <2>4 DEF state, Started
    <3>2. state' = [state EXCEPT ![id] = "halted"]
      BY <2>1, <2>2 DEF state
    <3> QED
      BY <2>1, <2>3, <3>1, <3>2 DEF Registry!Next, Registry!Halt
  <2>5. CASE ~modules[m].started
    <3>1. state[id] = "halted"
      BY <2>1, <2>5 DEF state, Started
    <3>2. UNCHANGED state
      BY <2>2, <3>1 DEF state
    <3> QED
      BY <2>3, <3>2 DEF Registry!vars
  <2> QED
    BY <2>4, <2>5
<1>4. ASSUME NEW c \in Callers, DeleteInstance(c)
      PROVE  [Registry!Next]_(Registry!vars)
  <2>1. PICK id \in Ids :
          id = call[c].id /\ Found(id) /\ ~modules[instances[id].module].started
    BY <1>4 DEF IInv, DeleteInstance, CallInv, Checked, Arguments
  <2>2. /\ instances'[id] = NoInstance /\ UNCHANGED modules
        /\ \A i \in Ids \ {id} : instances'[i] = instances[i]
    BY <1>0, <1>4, <2>1 DEF DeleteInstance, TypeOK
  <2>3. state[id] = "halted"
    BY <2>1 DEF state, Started
  <2>4. state' = [state EXCEPT ![id] = "absent"]
    BY <2>1, <2>2 DEF state, Found, Started
  <2>5. inForce' = [inForce EXCEPT ![id] = None]
    BY <2>2, InForceIs DEF NoInstance
  <2> QED
    BY <2>1, <2>3, <2>4, <2>5 DEF Registry!Next, Registry!Remove
<1>5. ASSUME NEW c \in Callers, CreateModule(c)
      PROVE  [Registry!Next]_(Registry!vars)
  <2>1. PICK m \in Modules :
          /\ Fresh(m) /\ \A n \in Modules \ {m} : modules'[n] = modules[n]
          /\ UNCHANGED instances
    BY <1>5, CreateEffect
  <2> QED
    BY <1>1, <2>1 DEF Fresh, Registry!vars, state, inForce, Found, Started
<1>6. ASSUME NEW c \in Callers, StartModule(c)
      PROVE  [Registry!Next]_(Registry!vars)
  BY <1>1, <1>6, StartEffect DEF Registry!vars, state, inForce, Found, Started
<1>7. ASSUME NEW c \in Callers, StoreInstance(c)
      PROVE  [Registry!Next]_(Registry!vars)
  <2>1. PICK id \in Ids, k \in Keys :
          /\ new[c] \in Modules /\ modules[new[c]].started
          /\ Found(id) => ~modules[instances[id].module].started
          /\ instances'[id] = [module |-> new[c], exchange |-> ConfigExchange(c),
                               named |-> call[c].exchange, key |-> k]
          /\ \A i \in Ids \ {id} : instances'[i] = instances[i]
          /\ UNCHANGED modules
    <3>1. call[c].id \in Ids /\ call[c].key \in Keys
      BY <1>7, StoreEffect
    <3> QED
      BY <1>7, <3>1, StoreEffect
  <2>2. state[id] \in {"absent", "halted"}
    BY <2>1 DEF state, Started
  <2>3. Found(id)' /\ Started(id)'
    BY <2>1, ManagerAssumption DEF Found, Started, NoInstance
  <2>4. state' = [state EXCEPT ![id] = "serving"]
    BY <2>1, <2>3 DEF state, Found, Started
  <2>5. inForce' = [inForce EXCEPT ![id] = k]
    <3>1. instances'[id].key = k
      BY <2>1
    <3> QED
      BY <2>1, <3>1, InForceIs
  <2> QED
    BY <2>1, <2>2, <2>4, <2>5 DEF Registry!Next, Registry!Serve
<1> QED
  BY <1>2, <1>3, <1>4, <1>5, <1>6, <1>7, StepKinds

\* The manager implements the registry: an instance serves with one key at a
\* time, and goes only after it was halted.
THEOREM RegistryImplemented == Spec => ImplementsRegistry
<1>1. Init => Registry!Init
  BY DEF Init, Registry!Init, state, inForce, Found, NoInstance
<1> QED
  BY <1>1, RefinementStep, Invariant, PTL DEF Spec, ImplementsRegistry, Registry!Spec

\* What the registry's promise means for the manager: an instance that runs
\* stays registered until it was stopped, and runs on with the same key.
RunningIsKept ==
    [][\A i \in Ids : Started(i) =>
          Found(i)' /\ (Started(i)' => instances'[i].key = instances[i].key)]_vars

\* No update or removal touches the record of an instance that runs.
THEOREM RunningKept == Spec => RunningIsKept
<1> DEFINE Step == \A i \in Ids : Started(i) =>
                     Found(i)' /\ (Started(i)' => instances'[i].key = instances[i].key)
<1>1. IInv /\ [Next]_vars => Step
  <2> SUFFICES ASSUME IInv, [Next]_vars, NEW i \in Ids, Started(i)
               PROVE  Found(i)' /\ (Started(i)' => instances'[i].key = instances[i].key)
    OBVIOUS
  <2>1. state[i] = "serving" /\ inForce[i] = instances[i].key
        /\ inForce'[i] = instances'[i].key
        /\ (state'[i] # "absent" => Found(i)')
    BY DEF state, inForce, Started, Found
  <2>2. CASE UNCHANGED Registry!vars
    BY <2>1, <2>2 DEF Registry!vars
  <2>3. ASSUME NEW j \in Ids, NEW k \in Keys, Registry!Serve(j, k)
        PROVE  j # i /\ state'[i] = state[i] /\ inForce'[i] = inForce[i]
    BY <2>1, <2>3 DEF Registry!Serve, state, inForce
  <2>4. ASSUME NEW j \in Ids, Registry!Halt(j)
        PROVE  state'[i] # "absent" /\ inForce'[i] = inForce[i]
    BY <2>1, <2>4 DEF Registry!Halt, state, inForce
  <2>5. ASSUME NEW j \in Ids, Registry!Remove(j)
        PROVE  state'[i] = state[i] /\ inForce'[i] = inForce[i]
    BY <2>1, <2>5 DEF Registry!Remove, state, inForce
  <2> QED
    BY <2>1, <2>2, <2>3, <2>4, <2>5, RefinementStep DEF Registry!Next
<1>2. IInv /\ [Next]_vars => [Step]_vars
  BY <1>1
<1> QED
  BY <1>2, Invariant, PTL DEF Spec, RunningIsKept

=============================================================================
