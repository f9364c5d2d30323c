--------------------------- MODULE PairsAPIProofs ---------------------------
(***************************************************************************)
(* Proofs about PairsAPI for any number of requests, exchanges, lists of   *)
(* pairs and readings of the clock: the shutdown closes the repository     *)
(* under nobody, and both databases implement the register of pairs.       *)
(***************************************************************************)
EXTENDS PairsAPI, WellFoundedInduction, TLAPS

\* What the requests carry.
Carried ==
    \A r \in Requests :
        /\ pc[r] \in {"idle", "accepted"} => req[r] = NoRequest
        /\ pc[r] \in {"save", "writing", "written"} => req[r] \in Writes
        /\ pc[r] \in {"get", "query", "read"} => req[r].exchange \in Exchanges
        /\ pc[r] # "read" => reply[r] = None

\* No stamp is ahead of the clock, and TimescaleDB knows none.
Past(t) == t <= clock /\ (backend = "timescaledb" => t = 0)
Stamped ==
    /\ \A e \in Exchanges, t \in Stamps : stored[e][t] # None => Past(t)
    /\ \A w \in late : Past(w.stamp)
    /\ \A r \in Requests : Past(req[r].stamp)

\* How far the shutdown has come.
Draining ==
    /\ main \in {"shutdown", "deferred", "closing", "exited"} => shut
    /\ repo = "closed" => main \in {"closing", "exited"}
    /\ main \in {"deferred", "closing", "exited"} /\ ~timedOut =>
         \A r \in Requests : pc[r] = "idle"

PInv == TypeOK /\ Carried /\ Stamped /\ Draining

-----------------------------------------------------------------------------
(***************************************************************************)
(* The newest stamp.                                                       *)
(***************************************************************************)

\* A set of stamps has a greatest one: the complements to the bound have a
\* least one, since the natural numbers are well-founded.
LEMMA GreatestStamp ==
  ASSUME NEW S \in SUBSET Stamps, S # {}
  PROVE  \E m \in S : \A n \in S : n <= m
<1> DEFINE T == {t \in Nat : \E s \in S : t = MaxStamp - s}
<1>0. MaxStamp \in Nat /\ \A s \in S : s \in 0 .. MaxStamp
  BY PairsAssumption DEF Stamps
<1>1. PICK s0 \in S : s0 \in 0 .. MaxStamp
  BY <1>0
<1>2. MaxStamp - s0 \in T
  BY <1>0, <1>1
<1>3. PICK x \in T : \A y \in T : ~ (<<y, x>> \in OpToRel(<, Nat))
  <2> HIDE DEF T
  <2>1. T # {} /\ T \subseteq Nat
    BY <1>2 DEF T
  <2> QED
    BY <2>1, WFMin, NatLessThanWellFounded
<1>4. \A y \in T : ~ (y < x)
  BY <1>3 DEF OpToRel
<1>5. PICK m \in S : x = MaxStamp - m /\ m \in 0 .. MaxStamp
  BY <1>0
<1>6. ASSUME NEW n \in S PROVE n <= m
  <2>1. n \in 0 .. MaxStamp /\ MaxStamp - n \in T
    BY <1>0, <1>6
  <2>2. ~ (MaxStamp - n < MaxStamp - m)
    BY <1>4, <1>5, <2>1
  <2>3. n \in Nat /\ m \in Nat
    BY <1>5, <2>1
  <2> HIDE DEF T
  <2> QED
    BY <1>0, <2>2, <2>3
<1> QED
  BY <1>6

LEMMA ChosenIsGreatest ==
  ASSUME NEW S \in SUBSET Stamps, NEW t \in S, \A u \in S : u <= t
  PROVE  t = CHOOSE m \in S : \A u \in S : u <= m
<1>1. PICK g : g = CHOOSE m \in S : \A u \in S : u <= m
  OBVIOUS
<1>2. g \in S /\ \A u \in S : u <= g
  BY <1>1
<1>3. t <= g /\ g <= t /\ t \in Nat /\ g \in Nat
  BY <1>2, PairsAssumption DEF Stamps
<1> QED
  BY <1>1, <1>3

\* What a query answers with is what is stored under the newest stamp.
LEMMA CurrentIs ==
  ASSUME NEW e \in Exchanges
  PROVE  /\ StampsOf(e) = {} => Current(e) = None
         /\ \A t \in StampsOf(e) : (\A u \in StampsOf(e) : u <= t) => Current(e) = stored[e][t]
<1>1. StampsOf(e) \in SUBSET Stamps
  BY DEF StampsOf
<1>2. ASSUME NEW t \in StampsOf(e), \A u \in StampsOf(e) : u <= t
      PROVE  Current(e) = stored[e][t]
  BY <1>1, <1>2, ChosenIsGreatest DEF Current, Newest
<1> QED
  BY <1>2 DEF Current

LEMMA CurrentIsThen ==
  ASSUME NEW e \in Exchanges
  PROVE  /\ StampsOf(e)' = {} => Current(e)' = None
         /\ \A t \in StampsOf(e)' :
              (\A u \in StampsOf(e)' : u <= t) => Current(e)' = stored'[e][t]
<1>1. StampsOf(e)' \in SUBSET Stamps
  BY DEF StampsOf
<1>2. ASSUME NEW t \in StampsOf(e)', \A u \in StampsOf(e)' : u <= t
      PROVE  Current(e)' = stored'[e][t]
  BY <1>1, <1>2, ChosenIsGreatest DEF Current, Newest
<1> QED
  BY <1>2 DEF Current

LEMMA CurrentType ==
  ASSUME TypeOK, NEW e \in Exchanges
  PROVE  Current(e) \in Pairs \cup {None}
<1>1. CASE StampsOf(e) = {}
  BY <1>1, CurrentIs
<1>2. CASE StampsOf(e) # {}
  <2>1. StampsOf(e) \in SUBSET Stamps
    BY DEF StampsOf
  <2>2. PICK t \in StampsOf(e) : \A u \in StampsOf(e) : u <= t
    BY <1>2, <2>1, GreatestStamp
  <2> QED
    BY <2>1, <2>2, CurrentIs DEF TypeOK
<1> QED
  BY <1>1, <1>2


-----------------------------------------------------------------------------
(***************************************************************************)
(* Types.                                                                  *)
(***************************************************************************)
LEMMA RequestFacts ==
  /\ Writes \subseteq Request /\ NoRequest \in Request
  /\ 0 \in Stamps /\ \A t \in Stamps : t \in Nat
  /\ \A w \in Writes : w.exchange \in Exchanges /\ w.pairs \in Pairs /\ w.stamp \in Stamps
  /\ 1 .. MaxStamp \subseteq Stamps
  BY PairsAssumption DEF Writes, Request, NoRequest, Stamps

LEMMA InitPInv == Init => PInv
<1> SUFFICES ASSUME Init PROVE PInv
  OBVIOUS
<1>1. TypeOK
  <2>1. clock \in 1 .. MaxStamp
    BY PairsAssumption DEF Init
  <2>2. stored \in [Exchanges -> [Stamps -> Pairs \cup {None}]] /\ late \in SUBSET Writes
    BY DEF Init
  <2>3. req \in [Requests -> Request]
    BY RequestFacts DEF Init
  <2> QED
    BY <2>1, <2>2, <2>3 DEF Init, TypeOK
<1>2. Carried /\ Draining
  BY DEF Init, Carried, Draining
<1>3. NoRequest.stamp = 0 /\ 0 <= clock
  BY DEF Init, NoRequest
<1>4. Stamped
  BY <1>3 DEF Init, Stamped, Past
<1> QED
  BY <1>1, <1>2, <1>4 DEF PInv

\* A write puts its pairs under its stamp and leaves the others alone.
LEMMA KeepEffect ==
  ASSUME NEW w \in Writes, TypeOK, Keep(w)
  PROVE  /\ stored' \in [Exchanges -> [Stamps -> Pairs \cup {None}]]
         /\ \A e \in Exchanges \ {w.exchange} : stored'[e] = stored[e]
         /\ \A t \in Stamps \ {w.stamp} : stored'[w.exchange][t] = stored[w.exchange][t]
         /\ stored'[w.exchange][w.stamp] = w.pairs
  BY RequestFacts DEF TypeOK, Keep

\* An answer ends a request.
LEMMA AnswerEffect ==
  ASSUME NEW r \in Requests, NEW a \in {"ok", "error"}, TypeOK, Answer(r, a)
  PROVE  /\ pc' \in [Requests -> {"idle", "accepted", "save", "writing", "written", "get",
                                  "query", "read"}]
         /\ req' \in [Requests -> Request] /\ reply' \in [Requests -> Pairs \cup {None}]
         /\ told' \in [Requests -> {"none", "ok", "error"}]
         /\ pc'[r] = "idle" /\ req'[r] = NoRequest /\ reply'[r] = None
         /\ \A q \in Requests \ {r} : pc'[q] = pc[q] /\ req'[q] = req[q] /\ reply'[q] = reply[q]
         /\ UNCHANGED <<backend, stored, clock, process>>
  BY RequestFacts DEF TypeOK, Answer, Goto

\* A step of request r alone.
Alone(r) == \A q \in Requests \ {r} : pc'[q] = pc[q] /\ req'[q] = req[q] /\ reply'[q] = reply[q]

\* What a step of a request does to it and to the database.
LEMMA HandleEffect ==
  ASSUME NEW r \in Requests, PInv, Handle(r)
  PROVE  /\ TypeOK' /\ Alone(r) /\ UNCHANGED <<backend, clock, process>>
         /\ pc[r] # "idle" \/ (pc'[r] = "accepted" /\ ~shut)
         /\ Past(req[r].stamp) => Past(req'[r].stamp)
         /\ pc'[r] \in {"idle", "accepted"} => req'[r] = NoRequest
         /\ pc'[r] \in {"save", "writing", "written"} => req'[r] \in Writes
         /\ pc'[r] \in {"get", "query", "read"} => req'[r].exchange \in Exchanges
         /\ pc'[r] # "read" => reply'[r] = None
         /\ \/ UNCHANGED stored
            \/ pc[r] = "writing" /\ req[r] \in Writes /\ Keep(req[r])
         /\ late' = late \/ (req[r] \in Writes /\ late' = late \cup {req[r]})
<1> DEFINE Goal ==
         /\ TypeOK' /\ Alone(r) /\ UNCHANGED <<backend, clock, process>>
         /\ pc[r] # "idle" \/ (pc'[r] = "accepted" /\ ~shut)
         /\ Past(req[r].stamp) => Past(req'[r].stamp)
         /\ pc'[r] \in {"idle", "accepted"} => req'[r] = NoRequest
         /\ pc'[r] \in {"save", "writing", "written"} => req'[r] \in Writes
         /\ pc'[r] \in {"get", "query", "read"} => req'[r].exchange \in Exchanges
         /\ pc'[r] # "read" => reply'[r] = None
         /\ \/ UNCHANGED stored
            \/ pc[r] = "writing" /\ req[r] \in Writes /\ Keep(req[r])
         /\ late' = late \/ (req[r] \in Writes /\ late' = late \cup {req[r]})
<1>0. TypeOK /\ Carried /\ clock \in 1 .. MaxStamp /\ 0 <= clock /\ clock \in Stamps
  BY RequestFacts, PairsAssumption DEF PInv, TypeOK
<1>1. CASE Accept(r) \/ Decline(r)
  BY <1>0, <1>1 DEF Accept, Decline, Goto, TypeOK, Carried, Alone, process, database
<1>2. ASSUME NEW e \in Exchanges, NEW body \in Exchanges \cup {None}, NEW p \in Pairs,
             UpdatePairs(r, e, body, p)
      PROVE  Goal
  <2>0. [exchange |-> e, pairs |-> p, stamp |-> 0] \in Writes
    BY RequestFacts DEF Writes
  <2>1. PICK d \in Writes : d = Decoded(e, body, p) /\ d.stamp = 0
    BY <2>0 DEF Decoded
  <2>2. /\ pc' = [pc EXCEPT ![r] = "save"] /\ req' = [req EXCEPT ![r] = d]
        /\ told' = [told EXCEPT ![r] = "none"] /\ pc[r] = "accepted"
        /\ UNCHANGED <<backend, database, process, reply>>
    BY <1>2, <2>1 DEF UpdatePairs, Goto
  <2>3. TypeOK' /\ Alone(r) /\ req'[r] = d /\ pc'[r] = "save"
    BY <1>0, <2>2, RequestFacts DEF TypeOK, Alone, database, process
  <2> QED
    BY <1>0, <2>1, <2>2, <2>3 DEF Carried, Past, database
<1>3. CASE SavePairs(r)
  <2>1. req[r] \in Writes /\ pc[r] = "save"
    BY <1>0, <1>3 DEF Carried, SavePairs
  <2>2. PICK t \in Stamps : t = (IF backend = "influxdb" THEN clock ELSE 0) /\ t <= clock
                            /\ (backend = "timescaledb" => t = 0)
    BY <1>0, RequestFacts
  <2>3. PICK d \in Writes : d = [req[r] EXCEPT !.stamp = t] /\ d.stamp = t
    <3>1. PICK w \in Writes : w = req[r]
      BY <2>1
    <3>2. [w EXCEPT !.stamp = t] \in Writes /\ [w EXCEPT !.stamp = t].stamp = t
      BY DEF Writes
    <3> QED
      BY <3>1, <3>2
  <2>4. /\ pc' = [pc EXCEPT ![r] = "writing"] /\ req' = [req EXCEPT ![r] = d]
        /\ UNCHANGED <<backend, database, process, reply, told>>
    BY <1>0, <1>3, <2>2, <2>3 DEF SavePairs, Goto, TypeOK
  <2>5. TypeOK' /\ Alone(r) /\ req'[r] = d /\ pc'[r] = "writing"
    BY <1>0, <2>4, RequestFacts DEF TypeOK, Alone, database, process
  <2> QED
    BY <1>0, <2>1, <2>2, <2>3, <2>4, <2>5 DEF Carried, Past, database
<1>4. CASE Write(r)
  <2>1. req[r] \in Writes /\ pc[r] = "writing" /\ Keep(req[r])
    BY <1>0, <1>4 DEF Carried, Write
  <2>2. PICK w \in Writes : w = req[r]
    BY <2>1
  <2>3. stored' \in [Exchanges -> [Stamps -> Pairs \cup {None}]]
    BY <1>0, <2>1, <2>2, KeepEffect
  <2> QED
    BY <1>0, <1>4, <2>1, <2>3 DEF Write, Goto, TypeOK, Carried, Past, Alone, process
<1>5. ASSUME NEW a \in {"ok", "error"}, Answer(r, a), pc[r] # "idle",
             late' = late \/ (req[r] \in Writes /\ late' = late \cup {req[r]})
      PROVE  Goal
  <2>1. late' \in SUBSET Writes
    BY <1>0, <1>5 DEF TypeOK
  <2>2. TypeOK'
    <3>1. /\ pc' \in [Requests -> {"idle", "accepted", "save", "writing", "written", "get",
                                   "query", "read"}]
          /\ req' \in [Requests -> Request] /\ reply' \in [Requests -> Pairs \cup {None}]
          /\ told' \in [Requests -> {"none", "ok", "error"}]
      BY <1>0, <1>5, AnswerEffect
    <3>2. UNCHANGED <<backend, stored, clock, process>>
      BY <1>0, <1>5, AnswerEffect
    <3> QED
      BY <1>0, <2>1, <3>1, <3>2 DEF TypeOK, process
  <2>3. Past(req'[r].stamp)
    BY <1>0, <1>5, AnswerEffect DEF Past, NoRequest
  <2> QED
    BY <1>0, <1>5, <2>2, <2>3, AnswerEffect DEF Alone
<1>6. CASE Confirm(r) \/ Refuse(r)
  BY <1>5, <1>6 DEF Confirm, Refuse
<1>7. CASE WriteFails(r)
  <2>1. req[r] \in Writes
    BY <1>0, <1>7 DEF Carried, WriteFails
  <2> QED
    BY <1>5, <1>7, <2>1 DEF WriteFails
<1>8. ASSUME NEW e \in Exchanges, GetPairs(r, e) PROVE Goal
  <2>1. PICK d \in Request : d = [exchange |-> e, pairs |-> None, stamp |-> 0]
    BY RequestFacts DEF Request
  <2>2. /\ pc' = [pc EXCEPT ![r] = "get"] /\ req' = [req EXCEPT ![r] = d]
        /\ told' = [told EXCEPT ![r] = "none"] /\ pc[r] = "accepted"
        /\ UNCHANGED <<backend, database, process, reply>>
    BY <1>8, <2>1 DEF GetPairs, Goto
  <2>3. TypeOK' /\ Alone(r) /\ req'[r] = d /\ pc'[r] = "get"
    BY <1>0, <2>2 DEF TypeOK, Alone, database, process
  <2> QED
    BY <1>0, <2>1, <2>2, <2>3 DEF Carried, Past, database
<1>9. CASE QueryPairs(r)
  <2>1. PICK p \in Pairs \cup {None} : p = Current(req[r].exchange)
    BY <1>0, <1>9, CurrentType DEF QueryPairs, Carried
  <2>2. /\ pc' = [pc EXCEPT ![r] = "read"] /\ reply' = [reply EXCEPT ![r] = p]
        /\ pc[r] = "query" /\ UNCHANGED <<backend, database, process, req, told>>
    BY <1>9, <2>1 DEF QueryPairs, Goto
  <2>3. TypeOK' /\ Alone(r) /\ pc'[r] = "read"
    BY <1>0, <2>2 DEF TypeOK, Alone, database, process
  <2> QED
    BY <1>0, <2>2, <2>3 DEF Carried, Past, database
<1>10. CASE SendQuery(r)
  BY <1>0, <1>10 DEF SendQuery, Goto, TypeOK, Carried, Past, Alone, process, database
<1> QED
  BY <1>1, <1>2, <1>3, <1>4, <1>6, <1>7, <1>8, <1>9, <1>10 DEF Handle


\* The other steps leave requests and what is stored alone.
LEMMA MainEffect ==
  ASSUME PInv, Main \/ ListenAndServe \/ Signal
  PROVE  /\ TypeOK' /\ UNCHANGED <<backend, database, request>>
         /\ shut => shut'
<1>0. TypeOK
  BY DEF PInv
<1>1. CASE LoadConfig \/ OpenRepository \/ StartServer \/ StartManager
  BY <1>0, <1>1 DEF TypeOK, LoadConfig, OpenRepository, StartServer, StartManager, At, database,
     request
<1>2. CASE Shutdown \/ ShutdownReturns \/ ShutdownTimesOut
  BY <1>0, <1>2 DEF TypeOK, Shutdown, ShutdownReturns, ShutdownTimesOut, At, database, request
<1>3. CASE CloseRepository \/ Exit
  BY <1>0, <1>3 DEF TypeOK, CloseRepository, Exit, At, database, request
<1>4. CASE ListenAndServe
  BY <1>0, <1>4 DEF TypeOK, ListenAndServe, database, request
<1>5. CASE Signal
  BY <1>0, <1>5 DEF TypeOK, Signal, database, request
<1> QED
  BY <1>1, <1>2, <1>3, <1>4, <1>5 DEF Main

LEMMA DrainingStep ==
  ASSUME PInv, Main \/ ListenAndServe \/ Signal
  PROVE  Draining'
<1>0. TypeOK /\ Draining
  BY DEF PInv
<1>1. CASE LoadConfig \/ OpenRepository \/ StartServer \/ StartManager
  BY <1>0, <1>1 DEF TypeOK, Draining, LoadConfig, OpenRepository, StartServer, StartManager, At,
     request
<1>2. CASE Shutdown \/ ShutdownReturns \/ ShutdownTimesOut
  BY <1>0, <1>2 DEF TypeOK, Draining, Shutdown, ShutdownReturns, ShutdownTimesOut, At, request
<1>3. CASE CloseRepository \/ Exit \/ ListenAndServe \/ Signal
  BY <1>0, <1>3 DEF TypeOK, Draining, CloseRepository, Exit, ListenAndServe, Signal, At, request
<1> QED
  BY <1>1, <1>2, <1>3 DEF Main

LEMMA PInvStep == PInv /\ [Next]_vars => PInv'
<1> SUFFICES ASSUME PInv, [Next]_vars PROVE PInv'
  OBVIOUS
<1>0. /\ TypeOK /\ Carried /\ Stamped /\ Draining /\ clock \in Nat
      /\ \A r \in Requests : req[r].stamp \in Stamps
  BY RequestFacts DEF PInv, TypeOK, Request
<1>1. CASE Main \/ ListenAndServe \/ Signal
  <2>1. TypeOK' /\ UNCHANGED <<backend, stored, late, clock, pc, req, reply>>
    BY <1>1, MainEffect DEF database, request
  <2>2. Carried' /\ Stamped'
    BY <1>0, <2>1 DEF Carried, Stamped, Past
  <2> QED
    BY <1>1, <2>1, <2>2, DrainingStep DEF PInv
<1>2. CASE LateWrite
  <2>1. PICK w \in Writes : w \in late /\ Keep(w) /\ late' = late \ {w}
    BY <1>0, <1>2 DEF LateWrite, TypeOK
  <2>2. UNCHANGED <<backend, clock, pc, req, reply, told, repo, main, cancelled, listener, shut,
                    timedOut>>
    BY <1>2 DEF LateWrite, process, request
  <2>3. stored' \in [Exchanges -> [Stamps -> Pairs \cup {None}]] /\ late' \in SUBSET Writes
    BY <1>0, <2>1, KeepEffect DEF TypeOK
  <2>4. TypeOK' /\ Carried' /\ Draining'
    BY <1>0, <2>2, <2>3 DEF TypeOK, Carried, Draining
  <2>5. ASSUME NEW e \in Exchanges, NEW t \in Stamps, stored'[e][t] # None PROVE Past(t)
    <3>1. Past(w.stamp)
      BY <1>0, <2>1 DEF Stamped
    <3>2. stored'[e][t] = stored[e][t] \/ t = w.stamp
      BY <1>0, <2>1, KeepEffect
    <3> QED
      BY <1>0, <2>5, <3>1, <3>2 DEF Stamped
  <2>6. Stamped'
    BY <1>0, <2>1, <2>2, <2>5 DEF Stamped, Past
  <2> QED
    BY <2>4, <2>6 DEF PInv
<1>3. CASE Tick
  <2>1. /\ clock < MaxStamp /\ clock' = clock + 1
        /\ UNCHANGED <<backend, stored, late, pc, req, reply, told, repo, main, cancelled, listener,
                       shut, timedOut>>
    BY <1>3 DEF Tick, process, request
  <2>2. clock' \in 1 .. MaxStamp
    BY <1>0, <2>1, PairsAssumption DEF TypeOK
  <2>3. TypeOK' /\ Carried' /\ Draining'
    BY <1>0, <2>1, <2>2 DEF TypeOK, Carried, Draining
  <2>4. \A t \in Stamps : Past(t) => Past(t)'
    BY <1>0, <2>1, RequestFacts DEF Past
  <2>5. \A w \in late : w.stamp \in Stamps
    BY <1>0, RequestFacts DEF TypeOK
  <2>6. /\ \A e \in Exchanges, t \in Stamps : stored'[e][t] # None => Past(t)'
        /\ \A w \in late' : Past(w.stamp)'
        /\ \A r \in Requests : Past(req[r].stamp)'
    BY <1>0, <2>1, <2>4, <2>5 DEF Stamped
  <2> QED
    BY <2>3, <2>6 DEF PInv, Stamped
<1>4. ASSUME NEW r \in Requests, Handle(r) PROVE PInv'
  <2>1. /\ TypeOK' /\ Alone(r) /\ UNCHANGED <<backend, clock, process>>
        /\ Past(req'[r].stamp)
        /\ pc[r] # "idle" \/ (pc'[r] = "accepted" /\ ~shut)
    BY <1>0, <1>4, HandleEffect DEF Stamped
  <2>2. Carried'
    <3>1. /\ pc'[r] \in {"idle", "accepted"} => req'[r] = NoRequest
          /\ pc'[r] \in {"save", "writing", "written"} => req'[r] \in Writes
          /\ pc'[r] \in {"get", "query", "read"} => req'[r].exchange \in Exchanges
          /\ pc'[r] # "read" => reply'[r] = None
      BY <1>4, HandleEffect
    <3> QED
      BY <1>0, <2>1, <3>1 DEF Carried, Alone
  <2>3. Draining'
    BY <1>0, <2>1 DEF Draining, Alone, process
  <2>4. ASSUME NEW e \in Exchanges, NEW t \in Stamps, stored'[e][t] # None PROVE Past(t)
    <3>1. CASE UNCHANGED stored
      BY <1>0, <2>4, <3>1 DEF Stamped
    <3>2. CASE req[r] \in Writes /\ Keep(req[r])
      <4>1. PICK w \in Writes : w = req[r]
        BY <3>2
      <4>2. stored'[e][t] = stored[e][t] \/ t = w.stamp
        BY <1>0, <3>2, <4>1, KeepEffect
      <4> QED
        BY <1>0, <2>4, <4>1, <4>2 DEF Stamped
    <3> QED
      BY <1>4, <3>1, <3>2, HandleEffect
  <2>5. \A w \in late' : Past(w.stamp)
    <3>1. late' = late \/ late' = late \cup {req[r]}
      BY <1>4, HandleEffect
    <3> QED
      BY <1>0, <3>1 DEF Stamped
  <2>6. \A q \in Requests : Past(req'[q].stamp)
    BY <1>0, <2>1 DEF Stamped, Alone
  <2>7. Stamped'
    BY <2>1, <2>4, <2>5, <2>6 DEF Stamped, Past
  <2> QED
    BY <2>1, <2>2, <2>3, <2>7 DEF PInv
<1>5. CASE UNCHANGED vars
  BY <1>0, <1>5 DEF PInv, vars, database, process, request, TypeOK, Carried, Stamped, Past, Draining
<1> QED
  BY <1>1, <1>2, <1>3, <1>4, <1>5 DEF Next

LEMMA Invariance == Spec => []PInv
  BY InitPInv, PInvStep, PTL DEF Spec

\* The databases, the process and the requests keep their types.
THEOREM TypeCorrect == Spec => []TypeOK
<1>1. PInv => TypeOK
  BY DEF PInv
<1> QED
  BY <1>1, Invariance, PTL

\* The repository is closed under no request, unless the shutdown ran out of time.
THEOREM NobodyLosesTheRepository == Spec => []RepoOutlivesRequests
<1>1. PInv => RepoOutlivesRequests
  BY DEF PInv, Draining, RepoOutlivesRequests
<1> QED
  BY <1>1, Invariance, PTL


-----------------------------------------------------------------------------
(***************************************************************************)
(* Refinement: what a step means for the register.                         *)
(***************************************************************************)
LEMMA PhaseIs ==
  ASSUME NEW r \in Requests
  PROVE  /\ pc[r] \in {"idle", "accepted"} => phase[r] = "idle"
         /\ pc[r] = "save" => phase[r] = "asked"
         /\ pc[r] = "writing" /\ Outdated(req[r]) => phase[r] = "effective"
         /\ pc[r] = "writing" /\ ~Outdated(req[r]) => phase[r] = "asked"
         /\ pc[r] = "written" => phase[r] = "effective"
         /\ pc[r] \in {"get", "query"} => phase[r] = "reading"
         /\ pc[r] = "read" => phase[r] = "read"
  BY DEF phase, PhaseOf

LEMMA PhaseIsThen ==
  ASSUME NEW r \in Requests
  PROVE  /\ pc'[r] \in {"idle", "accepted"} => phase'[r] = "idle"
         /\ pc'[r] = "save" => phase'[r] = "asked"
         /\ pc'[r] = "writing" /\ Outdated(req[r])' => phase'[r] = "effective"
         /\ pc'[r] = "writing" /\ ~Outdated(req[r])' => phase'[r] = "asked"
         /\ pc'[r] = "written" => phase'[r] = "effective"
         /\ pc'[r] \in {"get", "query"} => phase'[r] = "reading"
         /\ pc'[r] = "read" => phase'[r] = "read"
  BY DEF phase, PhaseOf

\* A function that changed at one point only.
LEMMA ChangedAt ==
  ASSUME NEW S, NEW f, NEW g, f = [x \in S |-> f[x]], g = [x \in S |-> g[x]],
         NEW s \in S, NEW v, g[s] = v, \A x \in S \ {s} : g[x] = f[x]
  PROVE  g = [f EXCEPT ![s] = v]
  OBVIOUS

\* A write adds its stamp, and outdates what is below it.
LEMMA KeepStamps ==
  ASSUME NEW w \in Writes, TypeOK, Keep(w)
  PROVE  /\ \A e \in Exchanges \ {w.exchange} : StampsOf(e)' = StampsOf(e)
         /\ StampsOf(w.exchange)' = StampsOf(w.exchange) \cup {w.stamp}
         /\ \A v \in Writes : Outdated(v)' <=>
              Outdated(v) \/ (v.exchange = w.exchange /\ w.stamp > v.stamp)
<1>0. w.exchange \in Exchanges /\ w.stamp \in Stamps /\ w.pairs # None
  BY RequestFacts, PairsAssumption
<1>1. \A e \in Exchanges \ {w.exchange} : StampsOf(e)' = StampsOf(e)
  BY KeepEffect DEF StampsOf
<1>2. StampsOf(w.exchange)' = StampsOf(w.exchange) \cup {w.stamp}
  BY <1>0, KeepEffect DEF StampsOf
<1>3. ASSUME NEW v \in Writes
      PROVE  Outdated(v)' <=> Outdated(v) \/ (v.exchange = w.exchange /\ w.stamp > v.stamp)
  BY <1>1, <1>2, RequestFacts DEF Outdated
<1> QED
  BY <1>1, <1>2, <1>3

LEMMA KeepCurrent ==
  ASSUME NEW w \in Writes, TypeOK, Keep(w)
  PROVE  /\ \A e \in Exchanges \ {w.exchange} : Current(e)' = Current(e)
         /\ Outdated(w) => Current(w.exchange)' = Current(w.exchange)
         /\ ~Outdated(w) => Current(w.exchange)' = w.pairs
<1>0. w.exchange \in Exchanges /\ w.stamp \in Stamps /\ w.pairs # None
  BY RequestFacts, PairsAssumption
<1>1. ASSUME NEW e \in Exchanges \ {w.exchange} PROVE Current(e)' = Current(e)
  <2>1. StampsOf(e)' = StampsOf(e) /\ stored'[e] = stored[e] /\ StampsOf(e) \in SUBSET Stamps
    BY KeepStamps, KeepEffect DEF StampsOf
  <2>2. CASE StampsOf(e) = {}
    BY <2>1, <2>2, CurrentIs, CurrentIsThen
  <2>3. CASE StampsOf(e) # {}
    <3>1. PICK t \in StampsOf(e) : \A u \in StampsOf(e) : u <= t
      BY <2>1, <2>3, GreatestStamp
    <3> QED
      BY <2>1, <3>1, CurrentIs, CurrentIsThen
  <2> QED
    BY <2>2, <2>3
<1>2. ASSUME Outdated(w) PROVE Current(w.exchange)' = Current(w.exchange)
  <2>1. StampsOf(w.exchange) \in SUBSET Stamps /\ StampsOf(w.exchange) # {}
    BY <1>2 DEF StampsOf, Outdated
  <2>2. PICK t \in StampsOf(w.exchange) : \A u \in StampsOf(w.exchange) : u <= t
    BY <2>1, GreatestStamp
  <2>3. t > w.stamp
    <3>1. PICK u \in StampsOf(w.exchange) : u > w.stamp
      BY <1>2 DEF Outdated
    <3>2. u <= t /\ u \in Nat /\ t \in Nat /\ w.stamp \in Nat
      BY <1>0, <2>1, <2>2, RequestFacts
    <3> QED
      BY <3>1, <3>2
  <2>4. t \in Stamps \ {w.stamp} /\ \A u \in StampsOf(w.exchange)' : u <= t
    <3>1. t \in Nat /\ w.stamp \in Nat /\ t \in Stamps
      BY <1>0, <2>1, RequestFacts
    <3>2. StampsOf(w.exchange)' = StampsOf(w.exchange) \cup {w.stamp}
      BY KeepStamps
    <3>3. w.stamp # t /\ w.stamp <= t
      BY <2>3, <3>1
    <3> QED
      BY <2>2, <3>1, <3>2, <3>3
  <2>5. Current(w.exchange)' = stored'[w.exchange][t]
    BY <1>0, <2>2, <2>4, CurrentIsThen, KeepStamps
  <2> QED
    BY <1>0, <2>2, <2>4, <2>5, CurrentIs, KeepEffect
<1>3. ASSUME ~Outdated(w) PROVE Current(w.exchange)' = w.pairs
  <2>1. \A u \in StampsOf(w.exchange)' : u <= w.stamp
    <3>1. \A u \in StampsOf(w.exchange) : u \in Nat /\ ~(u > w.stamp)
      BY <1>3, RequestFacts DEF Outdated, StampsOf
    <3>2. w.stamp \in Nat
      BY <1>0, RequestFacts
    <3> QED
      BY <3>1, <3>2, KeepStamps
  <2>2. w.stamp \in StampsOf(w.exchange)'
    BY KeepStamps
  <2>3. Current(w.exchange)' = stored'[w.exchange][w.stamp]
    BY <1>0, <2>1, <2>2, CurrentIsThen
  <2> QED
    BY <2>3, KeepEffect
<1> QED
  BY <1>1, <1>2, <1>3

\* A step that writes nothing.
LEMMA NothingKept ==
  ASSUME UNCHANGED stored
  PROVE  value' = value /\ \A v : Outdated(v)' <=> Outdated(v)
  BY DEF value, Current, Newest, StampsOf, Outdated

LEMMA SamePhase ==
  ASSUME NEW q \in Requests, TypeOK, UNCHANGED stored, pc'[q] = pc[q], req'[q] = req[q]
  PROVE  phase'[q] = phase[q]
<1>1. pc[q] \in {"idle", "accepted", "save", "writing", "written", "get", "query", "read"}
  BY DEF TypeOK
<1>2. Outdated(req[q])' <=> Outdated(req[q])
  BY DEF Outdated, StampsOf
<1> QED
  BY <1>1, <1>2, PhaseIs, PhaseIsThen

LEMMA RegisterFrame ==
  ASSUME UNCHANGED <<value, phase, asked, reply, told, refused>>
  PROVE  UNCHANGED Register!vars
  BY DEF Register!vars

\* What is outdated before a write is so after it.
LEMMA OutdatedNow ==
  ASSUME NEW w \in Writes, NEW q \in Requests, TypeOK, Keep(w), req[q] \in Writes, req'[q] = req[q]
  PROVE  Outdated(req[q])' <=>
           Outdated(req[q]) \/ (req[q].exchange = w.exchange /\ w.stamp > req[q].stamp)
<1>1. PICK v \in Writes : v = req[q]
  OBVIOUS
<1>2. Outdated(req[q])' <=> Outdated(v)'
  BY <1>1 DEF Outdated, StampsOf
<1>3. Outdated(v)' <=> Outdated(v) \/ (v.exchange = w.exchange /\ w.stamp > v.stamp)
  BY KeepStamps
<1> QED
  BY <1>1, <1>2, <1>3

\* The requests see a write below a newer one as none.
LEMMA PhaseOfKeep ==
  ASSUME NEW w \in Writes, NEW q \in Requests, TypeOK, Carried, Keep(w), req'[q] = req[q],
         pc'[q] = pc[q] \/ (pc[q] = "writing" /\ pc'[q] = "written" /\ req[q] = w)
  PROVE  /\ \/ phase'[q] = phase[q]
            \/ phase[q] = "asked" /\ phase'[q] = "effective" /\ req[q].exchange = w.exchange
         /\ Outdated(w) => phase'[q] = phase[q]
         /\ pc'[q] # pc[q] => phase'[q] = "effective" /\ (~Outdated(w) => phase[q] = "asked")
<1>0. pc[q] \in {"idle", "accepted", "save", "writing", "written", "get", "query", "read"}
  BY DEF TypeOK
<1>1. CASE pc'[q] = pc[q] /\ pc[q] # "writing"
  BY <1>0, <1>1, PhaseIs, PhaseIsThen
<1>2. CASE pc'[q] = pc[q] /\ pc[q] = "writing"
  <2>1. req[q] \in Writes
    BY <1>2 DEF Carried
  <2>2. Outdated(req[q])' <=>
           Outdated(req[q]) \/ (req[q].exchange = w.exchange /\ w.stamp > req[q].stamp)
    BY <2>1, OutdatedNow
  <2>3. ASSUME Outdated(w), req[q].exchange = w.exchange, w.stamp > req[q].stamp
        PROVE  Outdated(req[q])
    <3>1. PICK t \in StampsOf(w.exchange) : t > w.stamp
      BY <2>3 DEF Outdated
    <3>2. t \in Nat /\ w.stamp \in Nat /\ req[q].stamp \in Nat
      BY <2>1, RequestFacts DEF StampsOf
    <3>3. t > req[q].stamp
      BY <2>3, <3>1, <3>2
    <3> QED
      BY <2>3, <3>1, <3>3 DEF Outdated
  <2> QED
    BY <1>2, <2>2, <2>3, PhaseIs, PhaseIsThen
<1>3. CASE pc[q] = "writing" /\ pc'[q] = "written" /\ req[q] = w
  BY <1>3, PhaseIs, PhaseIsThen
<1> QED
  BY <1>1, <1>2, <1>3

\* The functions of the register, before and after.
LEMMA RegisterFunctions ==
  /\ value = [e \in Exchanges |-> value[e]] /\ \A e \in Exchanges : value[e] = Current(e)
  /\ phase = [r \in Requests |-> phase[r]]
  /\ asked = [r \in Requests |-> asked[r]] /\ \A r \in Requests : asked[r] = Update(req[r])
<1>1. value = [e \in Exchanges |-> value[e]] /\ \A e \in Exchanges : value[e] = Current(e)
  BY DEF value
<1>2. phase = [r \in Requests |-> phase[r]]
  BY DEF phase
<1>3. asked = [r \in Requests |-> asked[r]] /\ \A r \in Requests : asked[r] = Update(req[r])
  BY DEF asked
<1> QED
  BY <1>1, <1>2, <1>3

LEMMA RegisterFunctionsThen ==
  /\ value' = [e \in Exchanges |-> value'[e]] /\ \A e \in Exchanges : value'[e] = Current(e)'
  /\ phase' = [r \in Requests |-> phase'[r]]
  /\ asked' = [r \in Requests |-> asked'[r]] /\ \A r \in Requests : asked'[r] = Update(req'[r])
<1>1. value' = [e \in Exchanges |-> value'[e]] /\ \A e \in Exchanges : value'[e] = Current(e)'
  BY DEF value
<1>2. phase' = [r \in Requests |-> phase'[r]]
  BY DEF phase
<1>3. asked' = [r \in Requests |-> asked'[r]] /\ \A r \in Requests : asked'[r] = Update(req'[r])
  BY DEF asked, Update
<1> QED
  BY <1>1, <1>2, <1>3

\* A write of w, by its request or late.
Kept(w) ==
    /\ Keep(w) /\ UNCHANGED <<req, reply, told>>
    /\ late' \in SUBSET late /\ late \ {w} \subseteq late'
    /\ \A q \in Requests :
         pc'[q] = pc[q] \/ (pc[q] = "writing" /\ pc'[q] = "written" /\ req[q] = w)
    /\ w \in late \/ \E q \in Requests : pc[q] = "writing" /\ pc'[q] = "written" /\ req[q] = w

LEMMA HiddenKeep ==
  ASSUME NEW w \in Writes, TypeOK, Carried, Kept(w), Outdated(w)
  PROVE  UNCHANGED Register!vars
<1>0. Keep(w) /\ req' = req /\ w.exchange \in Exchanges /\ UNCHANGED <<reply, told>>
  BY RequestFacts DEF Kept
<1>1. \A q \in Requests : phase'[q] = phase[q]
  BY <1>0, PhaseOfKeep DEF Kept
<1>2. \A e \in Exchanges : Current(e)' = Current(e)
  BY <1>0, KeepCurrent
<1>3. \A v \in Writes : Outdated(v)' <=> Outdated(v)
  <2>1. ASSUME NEW v \in Writes, v.exchange = w.exchange, w.stamp > v.stamp PROVE Outdated(v)
    <3>1. PICK t \in StampsOf(w.exchange) : t > w.stamp
      BY DEF Outdated
    <3>2. t \in Nat /\ w.stamp \in Nat /\ v.stamp \in Nat
      BY RequestFacts DEF StampsOf
    <3> QED
      BY <2>1, <3>1, <3>2 DEF Outdated
  <2> QED
    BY <1>0, <2>1, KeepStamps
<1>4. value' = value /\ phase' = phase
  BY <1>1, <1>2, RegisterFunctions, RegisterFunctionsThen
<1>5. asked' = asked
  BY <1>0 DEF asked, Update
<1>6. refused' = refused
  <2>1. late \in SUBSET Writes /\ late' \in SUBSET late /\ late \ {w} \subseteq late'
    BY DEF TypeOK, Kept
  <2>2. {v \in late' : ~Outdated(v)'} = {v \in late : ~Outdated(v)}
    BY <1>3, <2>1
  <2> QED
    BY <2>2 DEF refused, Update
<1> QED
  BY <1>0, <1>4, <1>5, <1>6, RegisterFrame

LEMMA KeepTakesEffect ==
  ASSUME NEW w \in Writes, TypeOK, Carried, Kept(w), ~Outdated(w)
  PROVE  Register!Next
<1>0. /\ Keep(w) /\ req' = req /\ w.exchange \in Exchanges /\ w.pairs \in Pairs
      /\ UNCHANGED <<reply, told>>
  BY RequestFacts DEF Kept
<1> DEFINE R == {q \in Requests : phase[q] = "asked" /\ phase'[q] = "effective"}
           Late == {v \in late : ~Outdated(v) /\ (Outdated(v)' \/ v = w)}
           L == {Update(v) : v \in Late}
           u == Update(w)
<1>1. u \in Register!Updates /\ u.exchange = w.exchange /\ u.pairs = w.pairs
  BY <1>0 DEF Update, Register!Updates
<1>2. value' = [value EXCEPT ![u.exchange] = u.pairs]
  <2>1. \A e \in Exchanges \ {w.exchange} : value'[e] = value[e]
    BY <1>0, KeepCurrent, RegisterFunctions, RegisterFunctionsThen
  <2>2. value'[w.exchange] = w.pairs
    BY <1>0, KeepCurrent, RegisterFunctions, RegisterFunctionsThen
  <2> QED
    BY <1>0, <1>1, <2>1, <2>2, RegisterFunctions, RegisterFunctionsThen, ChangedAt
<1>3. \A q \in Requests : \/ phase'[q] = phase[q]
                          \/ q \in R /\ req[q].exchange = w.exchange
  BY <1>0, PhaseOfKeep DEF Kept
<1>4. phase' = [q \in Requests |-> IF q \in R THEN "effective" ELSE phase[q]]
  BY <1>3, RegisterFunctions, RegisterFunctionsThen
<1>5. \A q \in R : phase[q] = "asked" /\ asked[q].exchange = u.exchange
  BY <1>1, <1>3, RegisterFunctions DEF Update
<1>6. late \in SUBSET Writes /\ late' \in SUBSET late /\ late \ {w} \subseteq late'
  BY DEF TypeOK, Kept
<1>7. \A v \in Writes : Outdated(v)' <=>
        Outdated(v) \/ (v.exchange = w.exchange /\ w.stamp > v.stamp)
  BY <1>0, KeepStamps
<1>8. L \in SUBSET refused /\ \A x \in L : x.exchange = u.exchange
  BY <1>1, <1>6, <1>7 DEF refused, Update
<1>9. refused' \in SUBSET refused /\ refused \ L \subseteq refused'
  <2>1. refused' = {Update(v) : v \in {x \in late' : ~Outdated(x)'}}
    BY DEF refused, Update
  <2>2. {x \in late' : ~Outdated(x)'} \subseteq {x \in late : ~Outdated(x)}
    BY <1>6, <1>7
  <2>3. \A x \in late : ~Outdated(x) => x \in Late \/ (x \in late' /\ ~Outdated(x)')
    BY <1>6
  <2> HIDE DEF Late
  <2> QED
    BY <2>1, <2>2, <2>3 DEF refused
<1>10. u \in L \cup {asked[q] : q \in R}
  <2>1. CASE w \in late
    BY <2>1
  <2>2. CASE \E q \in Requests : pc[q] = "writing" /\ pc'[q] = "written" /\ req[q] = w
    <3>1. PICK q \in Requests : pc[q] = "writing" /\ pc'[q] = "written" /\ req[q] = w
      BY <2>2
    <3>2. q \in R /\ asked[q] = u
      BY <1>0, <3>1, PhaseOfKeep, RegisterFunctions
    <3> QED
      BY <3>2
  <2> QED
    BY <2>1, <2>2 DEF Kept
<1>11. UNCHANGED <<asked, reply, told>>
  BY <1>0 DEF asked, Update
<1>12. R \in SUBSET Requests
  OBVIOUS
<1> HIDE DEF R, L, u
<1>13. Register!TakeEffect(R, L, u)
  BY <1>2, <1>4, <1>5, <1>8, <1>9, <1>10, <1>11 DEF Register!TakeEffect
<1> QED
  BY <1>1, <1>8, <1>12, <1>13 DEF Register!Next

\* A step that changes neither requests nor databases.
LEMMA NoStep ==
  ASSUME TypeOK, UNCHANGED <<stored, late, pc, req, reply, told>>
  PROVE  UNCHANGED Register!vars
<1>1. value' = value /\ \A v : Outdated(v)' <=> Outdated(v)
  BY NothingKept
<1>2. phase' = phase
  BY SamePhase, RegisterFunctions, RegisterFunctionsThen
<1>3. asked' = asked
  BY DEF asked, Update
<1>4. refused' = refused
  BY <1>1 DEF refused, Update
<1> QED
  BY <1>1, <1>2, <1>3, <1>4, RegisterFrame

\* A step of one request that writes nothing.
LEMMA OneRequest ==
  ASSUME NEW r \in Requests, TypeOK, Alone(r), UNCHANGED stored
  PROVE  /\ value' = value
         /\ \A p : phase'[r] = p => phase' = [phase EXCEPT ![r] = p]
         /\ \A d : Update(req'[r]) = d => asked' = [asked EXCEPT ![r] = d]
         /\ late' = late => refused' = refused
         /\ late' = late \cup {req[r]} =>
              refused' = IF Outdated(req[r]) THEN refused ELSE refused \cup {asked[r]}
<1>1. value' = value /\ \A v : Outdated(v)' <=> Outdated(v)
  BY NothingKept
<1>2. \A q \in Requests \ {r} : phase'[q] = phase[q]
  BY SamePhase DEF Alone
<1>3. ASSUME NEW p, phase'[r] = p PROVE phase' = [phase EXCEPT ![r] = p]
  BY <1>2, <1>3, RegisterFunctions, RegisterFunctionsThen, ChangedAt
<1>4. \A q \in Requests \ {r} : asked'[q] = asked[q]
  BY RegisterFunctions, RegisterFunctionsThen DEF Alone
<1>5. ASSUME NEW d, Update(req'[r]) = d PROVE asked' = [asked EXCEPT ![r] = d]
  <2>1. asked'[r] = d
    BY <1>5, RegisterFunctionsThen
  <2> QED
    BY <1>4, <2>1, RegisterFunctions, RegisterFunctionsThen, ChangedAt
<1>6. refused' = {Update(v) : v \in {x \in late' : ~Outdated(x)}}
  BY <1>1 DEF refused, Update
<1>7. late' = late => refused' = refused
  BY <1>6 DEF refused
<1>8. ASSUME late' = late \cup {req[r]}
      PROVE  refused' = IF Outdated(req[r]) THEN refused ELSE refused \cup {asked[r]}
  <2>1. asked[r] = Update(req[r])
    BY RegisterFunctions
  <2> QED
    BY <1>6, <1>8, <2>1 DEF refused
<1> QED
  BY <1>1, <1>3, <1>5, <1>7, <1>8

\* An answer of the service is an answer of the register.
LEMMA AnswerIsAnswer ==
  ASSUME NEW r \in Requests, NEW a \in {"ok", "error"}, TypeOK, Answer(r, a)
  PROVE  Register!Answer(r, a)
<1>1. Alone(r) /\ pc'[r] = "idle" /\ req'[r] = NoRequest /\ UNCHANGED stored
  BY AnswerEffect DEF Alone
<1>2. phase'[r] = "idle"
  BY <1>1, PhaseIsThen
<1>3. phase' = [phase EXCEPT ![r] = "idle"]
  BY <1>1, <1>2, OneRequest
<1>4. Update(req'[r]) = Register!NoUpdate
  BY <1>1 DEF Update, NoRequest, Register!NoUpdate
<1>5. asked' = [asked EXCEPT ![r] = Register!NoUpdate]
  BY <1>1, <1>4, OneRequest
<1>6. reply' = [reply EXCEPT ![r] = None] /\ told' = [told EXCEPT ![r] = a]
  BY DEF Answer
<1>7. value' = value
  BY <1>1, OneRequest
<1> QED
  BY <1>3, <1>5, <1>6, <1>7 DEF Register!Answer

LEMMA RefuseIsRefuse ==
  ASSUME NEW r \in Requests, PInv, Refuse(r) \/ WriteFails(r)
  PROVE  Register!Next
<1>0. TypeOK /\ Answer(r, "error")
  BY DEF PInv, Refuse, WriteFails
<1>1. Register!Answer(r, "error")
  BY <1>0, AnswerIsAnswer
<1>2. Alone(r) /\ UNCHANGED stored
  BY <1>0, AnswerEffect DEF Alone
<1>3. phase[r] # "idle"
  BY PhaseIs DEF Refuse, WriteFails
<1>4. UNCHANGED refused \/ (phase[r] = "asked" /\ refused' = refused \cup {asked[r]})
  <2>1. CASE late' = late
    BY <1>0, <1>2, <2>1, OneRequest
  <2>2. CASE WriteFails(r) /\ late' = late \cup {req[r]} /\ Outdated(req[r])
    BY <1>0, <1>2, <2>2, OneRequest
  <2>3. CASE WriteFails(r) /\ late' = late \cup {req[r]} /\ ~Outdated(req[r])
    <3>1. phase[r] = "asked"
      BY <2>3, PhaseIs DEF WriteFails
    <3> QED
      BY <1>0, <1>2, <2>3, <3>1, OneRequest
  <2> QED
    BY <2>1, <2>2, <2>3 DEF Refuse, WriteFails
<1>5. Register!Refuse(r)
  BY <1>1, <1>3, <1>4 DEF Register!Refuse
<1> QED
  BY <1>5 DEF Register!Next

LEMMA ConfirmIsConfirm ==
  ASSUME NEW r \in Requests, PInv, Confirm(r)
  PROVE  Register!Next
<1>0. TypeOK /\ Answer(r, "ok") /\ late' = late
  BY DEF PInv, Confirm
<1>1. Register!Answer(r, "ok") /\ Alone(r) /\ UNCHANGED stored
  BY <1>0, AnswerIsAnswer, AnswerEffect DEF Alone
<1>2. phase[r] \in {"effective", "read"}
  BY PhaseIs DEF Confirm
<1>3. UNCHANGED refused
  BY <1>0, <1>1, OneRequest
<1>4. Register!Confirm(r)
  BY <1>1, <1>2, <1>3 DEF Register!Confirm
<1> QED
  BY <1>4 DEF Register!Next

LEMMA AcceptedIsNothing ==
  ASSUME NEW r \in Requests, PInv, Accept(r) \/ Decline(r)
  PROVE  UNCHANGED Register!vars
<1>0. TypeOK /\ pc[r] \in {"idle", "accepted"} /\ pc'[r] \in {"idle", "accepted"}
      /\ UNCHANGED <<stored, late, req, reply, told>>
  BY DEF PInv, TypeOK, Accept, Decline, Goto, database
<1>1. Alone(r)
  BY <1>0 DEF TypeOK, Accept, Decline, Goto, Alone
<1>2. \A q \in Requests : phase'[q] = phase[q]
  <2>1. phase'[r] = phase[r]
    BY <1>0, PhaseIs, PhaseIsThen
  <2> QED
    BY <1>0, <1>1, <2>1, SamePhase DEF Alone
<1>3. phase' = phase
  BY <1>2, RegisterFunctions, RegisterFunctionsThen
<1>4. value' = value /\ refused' = refused
  BY <1>0, <1>1, OneRequest
<1>5. asked' = asked
  BY <1>0 DEF asked, Update
<1> QED
  BY <1>0, <1>3, <1>4, <1>5, RegisterFrame

LEMMA UpdateIsAsk ==
  ASSUME NEW r \in Requests, NEW e \in Exchanges, NEW body \in Exchanges \cup {None},
         NEW p \in Pairs, PInv, UpdatePairs(r, e, body, p)
  PROVE  Register!Next
<1> DEFINE u == [exchange |-> e, pairs |-> p]
<1>0. /\ TypeOK /\ UNCHANGED <<stored, late, reply>> /\ pc[r] = "accepted"
      /\ told' = [told EXCEPT ![r] = "none"]
  BY DEF PInv, UpdatePairs, database
<1>1. pc'[r] = "save" /\ req'[r] = Decoded(e, body, p) /\ Alone(r)
  BY <1>0 DEF TypeOK, UpdatePairs, Goto, Alone
<1>2. phase[r] = "idle" /\ phase'[r] = "asked"
  BY <1>0, <1>1, PhaseIs, PhaseIsThen
<1>3. Update(req'[r]) = u /\ u \in Register!Updates
  BY <1>1 DEF Update, Decoded, Register!Updates
<1>4. phase' = [phase EXCEPT ![r] = "asked"] /\ asked' = [asked EXCEPT ![r] = u]
  BY <1>0, <1>1, <1>2, <1>3, OneRequest
<1>5. value' = value /\ refused' = refused
  BY <1>0, <1>1, OneRequest
<1>6. Register!Ask(r, u)
  BY <1>0, <1>2, <1>4, <1>5 DEF Register!Ask
<1> QED
  BY <1>3, <1>6 DEF Register!Next

\* The stamp of a new point is behind no other.
LEMMA SaveIsNothing ==
  ASSUME NEW r \in Requests, PInv, SavePairs(r)
  PROVE  UNCHANGED Register!vars
<1>0. /\ TypeOK /\ Carried /\ Stamped /\ UNCHANGED <<stored, late, reply, told>>
      /\ pc[r] = "save" /\ req[r] \in Writes
      /\ backend \in {"influxdb", "timescaledb"} /\ clock \in Stamps /\ clock \in Nat
  BY RequestFacts DEF PInv, SavePairs, database, Carried, TypeOK
<1>1. PICK t : t = (IF backend = "influxdb" THEN clock ELSE 0)
  OBVIOUS
<1>2. PICK w \in Writes : w = req[r]
  BY <1>0
<1>3. pc'[r] = "writing" /\ req'[r] = [w EXCEPT !.stamp = t] /\ Alone(r)
  BY <1>0, <1>1, <1>2 DEF TypeOK, SavePairs, Goto, Alone
<1>4. /\ [w EXCEPT !.stamp = t].exchange = w.exchange
      /\ [w EXCEPT !.stamp = t].pairs = w.pairs /\ [w EXCEPT !.stamp = t].stamp = t
  BY DEF Writes
<1>5. \A x \in StampsOf(w.exchange) : ~(x > t)
  <2>1. ASSUME NEW x \in StampsOf(w.exchange) PROVE ~(x > t)
    <3>1. Past(x) /\ x \in Nat
      BY <1>0, <2>1, RequestFacts DEF Stamped, StampsOf
    <3> QED
      BY <1>0, <1>1, <3>1 DEF Past
  <2> QED
    BY <2>1
<1>6. ~Outdated(req[r])'
  <2>1. req'[r].exchange = w.exchange /\ req'[r].stamp = t
    BY <1>3, <1>4
  <2>2. StampsOf(w.exchange)' = StampsOf(w.exchange)
    BY <1>0 DEF StampsOf
  <2>3. Outdated(req[r])' <=> \E x \in StampsOf(w.exchange)' : x > t
    BY <2>1 DEF Outdated, StampsOf
  <2> QED
    BY <1>5, <2>2, <2>3
<1>7. phase' = phase
  <2>1. phase'[r] = phase[r]
    BY <1>0, <1>3, <1>6, PhaseIs, PhaseIsThen
  <2>2. \A q \in Requests \ {r} : phase'[q] = phase[q]
    BY <1>0, <1>3, SamePhase DEF Alone
  <2> QED
    BY <2>1, <2>2, RegisterFunctions, RegisterFunctionsThen
<1>8. asked' = asked
  <2>1. Update(req'[r]) = Update(req[r])
    BY <1>2, <1>3, <1>4 DEF Update
  <2>2. \A q \in Requests : asked'[q] = asked[q]
    BY <1>3, <2>1, RegisterFunctions, RegisterFunctionsThen DEF Alone
  <2> QED
    BY <2>2, RegisterFunctions, RegisterFunctionsThen
<1>9. value' = value /\ refused' = refused
  BY <1>0, <1>3, OneRequest
<1> QED
  BY <1>0, <1>7, <1>8, <1>9, RegisterFrame

LEMMA GetIsStartRead ==
  ASSUME NEW r \in Requests, NEW e \in Exchanges, PInv, GetPairs(r, e)
  PROVE  Register!Next
<1> DEFINE d == [exchange |-> e, pairs |-> None]
<1>0. /\ TypeOK /\ UNCHANGED <<stored, late, reply>> /\ pc[r] = "accepted"
      /\ told' = [told EXCEPT ![r] = "none"]
  BY DEF PInv, GetPairs, database
<1>1. /\ pc'[r] = "get" /\ Alone(r)
      /\ req'[r] = [exchange |-> e, pairs |-> None, stamp |-> 0]
  BY <1>0 DEF TypeOK, GetPairs, Goto, Alone
<1>2. phase[r] = "idle" /\ phase'[r] = "reading"
  BY <1>0, <1>1, PhaseIs, PhaseIsThen
<1>3. Update(req'[r]) = d
  BY <1>1 DEF Update
<1>4. phase' = [phase EXCEPT ![r] = "reading"] /\ asked' = [asked EXCEPT ![r] = d]
  BY <1>0, <1>1, <1>2, <1>3, OneRequest
<1>5. value' = value /\ refused' = refused
  BY <1>0, <1>1, OneRequest
<1>6. Register!StartRead(r, e)
  BY <1>0, <1>2, <1>4, <1>5 DEF Register!StartRead
<1> QED
  BY <1>6 DEF Register!Next

LEMMA SendIsNothing ==
  ASSUME NEW r \in Requests, PInv, SendQuery(r)
  PROVE  UNCHANGED Register!vars
<1>0. /\ TypeOK /\ UNCHANGED <<stored, late, req, reply, told>> /\ pc[r] = "get"
  BY DEF PInv, SendQuery, database
<1>1. pc'[r] = "query" /\ Alone(r)
  BY <1>0 DEF TypeOK, SendQuery, Goto, Alone
<1>2. phase'[r] = phase[r]
  BY <1>0, <1>1, PhaseIs, PhaseIsThen
<1>3. phase' = phase
  <2>1. \A q \in Requests \ {r} : phase'[q] = phase[q]
    BY <1>0, <1>1, SamePhase DEF Alone
  <2> QED
    BY <1>2, <2>1, RegisterFunctions, RegisterFunctionsThen
<1>4. value' = value /\ refused' = refused
  BY <1>0, <1>1, OneRequest
<1>5. asked' = asked
  BY <1>0 DEF asked, Update
<1> QED
  BY <1>0, <1>3, <1>4, <1>5, RegisterFrame

LEMMA QueryIsRead ==
  ASSUME NEW r \in Requests, PInv, QueryPairs(r)
  PROVE  Register!Next
<1>0. /\ TypeOK /\ UNCHANGED <<stored, late, req, told>> /\ pc[r] = "query"
      /\ req[r].exchange \in Exchanges
  BY DEF PInv, QueryPairs, database, Carried
<1>1. PICK p : p = Current(req[r].exchange)
  OBVIOUS
<1>2. pc'[r] = "read" /\ reply' = [reply EXCEPT ![r] = p] /\ Alone(r)
  BY <1>0, <1>1 DEF TypeOK, QueryPairs, Goto, Alone
<1>3. phase[r] = "reading" /\ phase'[r] = "read"
  BY <1>0, <1>2, PhaseIs, PhaseIsThen
<1>4. phase' = [phase EXCEPT ![r] = "read"]
  BY <1>0, <1>2, <1>3, OneRequest
<1>5. p = value[asked[r].exchange]
  <2>1. asked[r].exchange = req[r].exchange
    BY RegisterFunctions DEF Update
  <2> QED
    BY <1>0, <1>1, <2>1, RegisterFunctions
<1>6. value' = value /\ refused' = refused
  BY <1>0, <1>2, OneRequest
<1>7. asked' = asked
  BY <1>0 DEF asked, Update
<1>8. Register!Read(r)
  BY <1>0, <1>2, <1>3, <1>4, <1>5, <1>6, <1>7 DEF Register!Read
<1> QED
  BY <1>8 DEF Register!Next

-----------------------------------------------------------------------------
LEMMA RegisterInit == Init => Register!Init
<1> SUFFICES ASSUME Init PROVE Register!Init
  OBVIOUS
<1>1. \A e \in Exchanges : StampsOf(e) = {}
  BY DEF Init, StampsOf
<1>2. value = [e \in Exchanges |-> None]
  BY <1>1, CurrentIs, RegisterFunctions
<1>3. phase = [r \in Requests |-> "idle"]
  <2>1. \A r \in Requests : phase[r] = "idle"
    BY PhaseIs DEF Init
  <2> QED
    BY <2>1, RegisterFunctions
<1>4. asked = [r \in Requests |-> Register!NoUpdate]
  BY DEF Init, asked, Update, NoRequest, Register!NoUpdate
<1>5. refused = {}
  BY DEF Init, refused
<1> QED
  BY <1>2, <1>3, <1>4, <1>5 DEF Init, Register!Init

LEMMA RegisterStep == PInv /\ [Next]_vars => [Register!Next]_(Register!vars)
<1> SUFFICES ASSUME PInv, [Next]_vars PROVE Register!Next \/ UNCHANGED Register!vars
  OBVIOUS
<1>0. TypeOK /\ Carried
  BY DEF PInv
<1>1. CASE Main \/ ListenAndServe \/ Signal
  BY <1>0, <1>1, MainEffect, NoStep DEF database, request
<1>2. CASE LateWrite
  <2>1. PICK w \in Writes : w \in late /\ Keep(w) /\ late' = late \ {w}
    BY <1>0, <1>2 DEF LateWrite, TypeOK
  <2>2. Kept(w)
    BY <1>2, <2>1 DEF Kept, LateWrite, request
  <2> QED
    BY <1>0, <2>2, HiddenKeep, KeepTakesEffect
<1>3. CASE Tick
  BY <1>0, <1>3, NoStep DEF Tick, process, request
<1>4. ASSUME NEW r \in Requests, Handle(r) PROVE Register!Next \/ UNCHANGED Register!vars
  <2>1. CASE Write(r)
    <3>1. PICK w \in Writes : w = req[r]
      BY <1>0, <2>1 DEF Write, Carried
    <3>2. Kept(w)
      BY <1>0, <2>1, <3>1 DEF Kept, Write, Goto, TypeOK
    <3> QED
      BY <1>0, <3>2, HiddenKeep, KeepTakesEffect
  <2> QED
    BY <1>4, <2>1, AcceptedIsNothing, UpdateIsAsk, SaveIsNothing, GetIsStartRead, SendIsNothing,
       QueryIsRead, ConfirmIsConfirm, RefuseIsRefuse DEF Handle
<1>5. CASE UNCHANGED vars
  BY <1>0, <1>5, NoStep DEF vars, database, request
<1> QED
  BY <1>1, <1>2, <1>3, <1>4, <1>5 DEF Next

\* InfluxDB, which keeps every stamp, and TimescaleDB, which keeps one row,
\* implement the register of pairs: an update takes effect once before it is
\* confirmed, and only an update that was not yet in effect replaces it.
THEOREM RegisterImplemented == Spec => ImplementsRegister
  BY RegisterInit, RegisterStep, Invariance, PTL DEF Spec, ImplementsRegister, Register!Spec

=============================================================================
