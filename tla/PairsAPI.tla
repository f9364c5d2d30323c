------------------------------ MODULE PairsAPI ------------------------------
(***************************************************************************)
(* The settings API of the order-book service and the process around it:   *)
(*   order-book-service/internal/service/pairs.go                          *)
(*   order-book-service/internal/repository/{influxdb,timescale}.go        *)
(*   order-book-service/cmd/main.go                                        *)
(*                                                                         *)
(* Requests are served side by side; InfluxDB keeps the pairs of every     *)
(* stamp and answers with the newest, TimescaleDB keeps one row.  A write  *)
(* may fail, or fail for the client and come through all the same, later.  *)
(* On a signal, main drains the server, then closes the repository.        *)
(***************************************************************************)
EXTENDS Naturals, FiniteSets

CONSTANTS
    Requests,  \* connections to the server, with one request each at a time
    Exchanges, \* exchanges in the URL
    Pairs,     \* lists of pairs
    MaxStamp,  \* bound: readings of the clock
    MaxLate,   \* bound: failed writes under way to the database
    None       \* no pairs, no exchange

ASSUME PairsAssumption ==
    /\ MaxStamp \in Nat \ {0} /\ MaxLate \in Nat
    /\ None \notin Exchanges \cup Pairs

\* The row of TimescaleDB is kept under stamp 0.
Stamps == 0 .. MaxStamp

VARIABLES
    backend,  \* the repository: "influxdb" or "timescaledb"
    stored,   \* the database: exchange -> stamp -> pairs, or None
    late,     \* the database: writes that failed and may still come through
    clock,    \* what time.Now returns
    repo,     \* "none", "open" or "closed"
    main,     \* position of main
    cancelled,\* the signal has come
    listener, \* the goroutine of the server: "none", "begun", "serving", "over"
    shut,     \* server.Shutdown was called
    timedOut, \* and returned because its context ended
    pc,       \* per request: position
    req,      \* per request: exchange of the URL, pairs and stamp of an update
    reply,    \* per request: the pairs it has read
    told      \* per request: the last answer, "none", "ok" or "error"

database == <<stored, late, clock>>
process == <<repo, main, cancelled, listener, shut, timedOut>>
request == <<pc, req, reply, told>>
vars == <<backend, database, process, request>>

Request == [exchange : Exchanges \cup {None}, pairs : Pairs \cup {None}, stamp : Stamps]
Writes == [exchange : Exchanges, pairs : Pairs, stamp : Stamps]
NoRequest == [exchange |-> None, pairs |-> None, stamp |-> 0]

TypeOK ==
    /\ backend \in {"influxdb", "timescaledb"}
    /\ stored \in [Exchanges -> [Stamps -> Pairs \cup {None}]]
    /\ late \in SUBSET Writes /\ clock \in 1 .. MaxStamp
    /\ repo \in {"none", "open", "closed"}
    /\ main \in {"config", "repository", "server", "manager", "waiting",
                 "shutdown", "deferred", "closing", "exited", "fatal"}
    /\ cancelled \in BOOLEAN /\ shut \in BOOLEAN /\ timedOut \in BOOLEAN
    /\ listener \in {"none", "begun", "serving", "over"}
    /\ pc \in [Requests -> {"idle", "accepted", "save", "writing", "written",
                            "get", "query", "read"}]
    /\ req \in [Requests -> Request]
    /\ reply \in [Requests -> Pairs \cup {None}]
    /\ told \in [Requests -> {"none", "ok", "error"}]

Init ==
    /\ backend \in {"influxdb", "timescaledb"}
    /\ stored = [e \in Exchanges |-> [t \in Stamps |-> None]]
    /\ late = {} /\ clock = 1
    /\ repo = "none" /\ main = "config" /\ cancelled = FALSE
    /\ listener = "none" /\ shut = FALSE /\ timedOut = FALSE
    /\ pc = [r \in Requests |-> "idle"]
    /\ req = [r \in Requests |-> NoRequest]
    /\ reply = [r \in Requests |-> None]
    /\ told = [r \in Requests |-> "none"]

Alive == main \notin {"exited", "fatal"}

(***************************************************************************)
(* The database.                                                           *)
(***************************************************************************)
StampsOf(e) == {t \in Stamps : stored[e][t] # None}
Newest(e) == CHOOSE t \in StampsOf(e) : \A u \in StampsOf(e) : u <= t

\* last(), or the row.
Current(e) == IF StampsOf(e) = {} THEN None ELSE stored[e][Newest(e)]

Keep(w) == stored' = [stored EXCEPT ![w.exchange][w.stamp] = w.pairs]

\* A write the service has given up.
LateWrite ==
    \E w \in late :
        /\ Keep(w) /\ late' = late \ {w}
        /\ UNCHANGED <<backend, clock, process, request>>

Tick ==
    /\ clock < MaxStamp /\ clock' = clock + 1
    /\ UNCHANGED <<backend, stored, late, process, request>>

(***************************************************************************)
(* Requests.                                                               *)
(***************************************************************************)
Goto(r, to) == pc' = [pc EXCEPT ![r] = to]

Accept(r) ==
    /\ Alive /\ listener = "serving" /\ ~shut /\ pc[r] = "idle"
    /\ Goto(r, "accepted")
    /\ UNCHANGED <<backend, database, process, req, reply, told>>

\* 400, or closed by the shutdown before a request came.
Decline(r) ==
    /\ Alive /\ pc[r] = "accepted"
    /\ Goto(r, "idle")
    /\ UNCHANGED <<backend, database, process, req, reply, told>>

\* The pool of TimescaleDB lends no connections once it is closed; the client of
\* InfluxDB goes on sending.
Usable == backend = "influxdb" \/ repo = "open"

\* Mutant: the exchange of the body is used.
DecodedFromBody(e, body, p) == [exchange |-> body, pairs |-> p, stamp |-> 0]

\* The exchange of the URL; that of the body is not looked at.
Decoded(e, body, p) == [exchange |-> e, pairs |-> p, stamp |-> 0]

\* updatePairs, until it calls SavePairs.
UpdatePairs(r, e, body, p) ==
    /\ Alive /\ pc[r] = "accepted"
    /\ Goto(r, "save")
    /\ req' = [req EXCEPT ![r] = Decoded(e, body, p)]
    /\ told' = [told EXCEPT ![r] = "none"]
    /\ UNCHANGED <<backend, database, process, reply>>

\* SavePairs, until the write is sent; the point of InfluxDB gets its stamp.
SavePairs(r) ==
    /\ Alive /\ pc[r] = "save" /\ Usable
    /\ Goto(r, "writing")
    /\ req' = [req EXCEPT ![r].stamp = IF backend = "influxdb" THEN clock ELSE 0]
    /\ UNCHANGED <<backend, database, process, reply, told>>

\* The database executes it.
Write(r) ==
    /\ pc[r] = "writing"
    /\ Keep(req[r]) /\ Goto(r, "written")
    /\ UNCHANGED <<backend, late, clock, process, req, reply, told>>

Answer(r, a) ==
    /\ Goto(r, "idle")
    /\ req' = [req EXCEPT ![r] = NoRequest]
    /\ reply' = [reply EXCEPT ![r] = None]
    /\ told' = [told EXCEPT ![r] = a]
    /\ UNCHANGED <<backend, stored, clock, process>>

\* Mutant: SavePairs does not wait for the database.
ConfirmUnwritten(r) ==
    /\ Alive /\ pc[r] \in {"writing", "written", "read"}
    /\ Answer(r, "ok") /\ UNCHANGED late

\* The call of the repository has returned without an error.
Confirm(r) ==
    /\ Alive /\ pc[r] \in {"written", "read"}
    /\ Answer(r, "ok") /\ UNCHANGED late

\* It returned an error: no connection, the client gave up, or the answer of
\* the database was lost.
Refuse(r) ==
    /\ Alive /\ pc[r] \in {"save", "written", "get", "query", "read"}
    /\ Answer(r, "error") /\ UNCHANGED late

\* An error before the database has executed the write, which it may still do.
WriteFails(r) ==
    /\ Alive /\ pc[r] = "writing"
    /\ Answer(r, "error")
    /\ \/ UNCHANGED late
       \/ Cardinality(late) < MaxLate /\ late' = late \cup {req[r]}

\* getPairs, until it calls GetPairs.
GetPairs(r, e) ==
    /\ Alive /\ pc[r] = "accepted"
    /\ Goto(r, "get")
    /\ req' = [req EXCEPT ![r] = [exchange |-> e, pairs |-> None, stamp |-> 0]]
    /\ told' = [told EXCEPT ![r] = "none"]
    /\ UNCHANGED <<backend, database, process, reply>>

\* GetPairs, until the query is sent.
SendQuery(r) ==
    /\ Alive /\ pc[r] = "get" /\ Usable
    /\ Goto(r, "query")
    /\ UNCHANGED <<backend, database, process, req, reply, told>>

\* The database executes it.
QueryPairs(r) ==
    /\ pc[r] = "query"
    /\ Goto(r, "read")
    /\ reply' = [reply EXCEPT ![r] = Current(req[r].exchange)]
    /\ UNCHANGED <<backend, database, process, req, told>>

Handle(r) ==
    \/ Accept(r) \/ Decline(r)
    \/ \E e \in Exchanges, body \in Exchanges \cup {None}, p \in Pairs : UpdatePairs(r, e, body, p)
    \/ SavePairs(r) \/ Write(r) \/ WriteFails(r) \/ Confirm(r) \/ Refuse(r)
    \/ \E e \in Exchanges : GetPairs(r, e)
    \/ SendQuery(r) \/ QueryPairs(r)

(***************************************************************************)
(* main.                                                                   *)
(***************************************************************************)
At(from, to) == main = from /\ main' = to

\* Load, and NotifyContext after it.
LoadConfig ==
    /\ At("config", "repository") \/ At("config", "fatal")
    /\ UNCHANGED <<backend, database, repo, cancelled, listener, shut, timedOut, request>>

OpenRepository ==
    /\ \/ At("repository", "server") /\ repo' = "open"
       \/ At("repository", "fatal") /\ UNCHANGED repo
    /\ UNCHANGED <<backend, database, cancelled, listener, shut, timedOut, request>>

StartServer ==
    /\ At("server", "manager") /\ listener' = "begun"
    /\ UNCHANGED <<backend, database, repo, cancelled, shut, timedOut, request>>

\* manager.Start returns nil, see InstanceManager.
StartManager ==
    /\ At("manager", "waiting")
    /\ UNCHANGED <<backend, database, repo, cancelled, listener, shut, timedOut, request>>

\* ListenAndServe, in its goroutine; an error of it is only logged.
ListenAndServe ==
    /\ Alive /\ listener = "begun"
    /\ \/ listener' = "over"
       \/ ~shut /\ listener' = "serving"
    /\ UNCHANGED <<backend, database, repo, main, cancelled, shut, timedOut, request>>

Signal ==
    /\ ~cancelled /\ main \notin {"config", "exited", "fatal"}
    /\ cancelled' = TRUE
    /\ UNCHANGED <<backend, database, repo, main, listener, shut, timedOut, request>>

\* <-ctx.Done(), then server.Shutdown.
Shutdown ==
    /\ cancelled /\ At("waiting", "shutdown") /\ shut' = TRUE
    /\ listener' = IF listener = "serving" THEN "over" ELSE listener
    /\ UNCHANGED <<backend, database, repo, cancelled, timedOut, request>>

\* Mutant: main does not wait for the requests.
ShutdownReturnsAtOnce ==
    /\ At("shutdown", "deferred")
    /\ UNCHANGED <<backend, database, repo, cancelled, listener, shut, timedOut, request>>

ShutdownReturns ==
    /\ At("shutdown", "deferred") /\ \A r \in Requests : pc[r] = "idle"
    /\ UNCHANGED <<backend, database, repo, cancelled, listener, shut, timedOut, request>>

\* Mutant: Shutdown is given a context without an end.
ShutdownNeverTimesOut ==
    /\ At("shutdown", "deferred") /\ (\A r \in Requests : pc[r] = "idle")
    /\ timedOut' = TRUE
    /\ UNCHANGED <<backend, database, repo, cancelled, listener, shut, request>>

\* shutdownCtx ends after cfg.API.ShutdownTimeout.
ShutdownTimesOut ==
    /\ At("shutdown", "deferred") /\ timedOut' = TRUE
    /\ UNCHANGED <<backend, database, repo, cancelled, listener, shut, request>>

\* The deferred repo.Close().
CloseRepository ==
    /\ At("deferred", "closing") /\ repo' = "closed"
    /\ UNCHANGED <<backend, database, cancelled, listener, shut, timedOut, request>>

\* A request that holds a connection of the pool of TimescaleDB.
Borrows(r) == backend = "timescaledb" /\ pc[r] \in {"writing", "query"}

\* pool.Close() waits until every connection has been given back.
Exit ==
    /\ At("closing", "exited") /\ \A r \in Requests : ~Borrows(r)
    /\ UNCHANGED <<backend, database, repo, cancelled, listener, shut, timedOut, request>>

Main ==
    \/ LoadConfig \/ OpenRepository \/ StartServer \/ StartManager
    \/ Shutdown \/ ShutdownReturns \/ ShutdownTimesOut \/ CloseRepository \/ Exit

Next ==
    \/ Main \/ ListenAndServe \/ Signal
    \/ LateWrite \/ Tick
    \/ \E r \in Requests : Handle(r)

Spec == Init /\ [][Next]_vars

\* main runs on, and the timer of the shutdown fires; nothing is assumed of
\* clients, handlers and databases, not even that one can be opened.
FairSpec == Spec /\ WF_vars(main # "repository" /\ Main)

(***************************************************************************)
(* Properties.                                                             *)
(***************************************************************************)

\* The repository is closed under no request, not even one that was accepted
\* while the signal came or by a server that began to listen after it, unless
\* the shutdown ran out of time.
RepoOutlivesRequests ==
    repo = "closed" /\ ~timedOut => \A r \in Requests : pc[r] = "idle"

\* After a signal the process ends, wherever it was and however long requests
\* hang, because the shutdown has a timeout.  Opening and closing the pool of
\* TimescaleDB have none, so that the database must let main pass the one, and
\* its queries must come to an end for the other.
Exits ==
    (([]<>(main # "repository")) /\ []<>(\A r \in Requests : ~Borrows(r))) =>
        (cancelled ~> main \in {"exited", "fatal"})

(***************************************************************************)
(* Refinement.                                                             *)
(***************************************************************************)

\* An update below a newer one has had its effect: nobody will see it.
Outdated(w) == \E t \in StampsOf(w.exchange) : t > w.stamp

Update(w) == [exchange |-> w.exchange, pairs |-> w.pairs]

value == [e \in Exchanges |-> Current(e)]
PhaseOf(r) ==
    CASE pc[r] \in {"idle", "accepted"} -> "idle"
      [] pc[r] = "save" -> "asked"
      [] pc[r] = "writing" -> IF Outdated(req[r]) THEN "effective" ELSE "asked"
      [] pc[r] = "written" -> "effective"
      [] pc[r] \in {"get", "query"} -> "reading"
      [] pc[r] = "read" -> "read"

phase == [r \in Requests |-> PhaseOf(r)]
asked == [r \in Requests |-> Update(req[r])]
refused == {Update(w) : w \in {v \in late : ~Outdated(v)}}

Register == INSTANCE PairsRegister WITH
    value <- value, phase <- phase, asked <- asked, got <- reply, told <- told,
    refused <- refused

\* Both databases keep the promises of the API, whatever is refused, fails late
\* or is written in another order than it was stamped.
ImplementsRegister == Register!Spec

=============================================================================
