----------------------------- MODULE OrderBook -----------------------------
(***************************************************************************)
(* From a message of an exchange to the points of InfluxDB:                *)
(*   order-book-service/internal/exchange/{binance,bybit}/module.go        *)
(*   order-book-service/internal/repository/influxdb.go SaveOrderBook      *)
(*                                                                         *)
(* Every read loop of a client hands each message to every handler of the  *)
(* client, one after another; a handler converts the updates in it and     *)
(* writes each book level by level, under one time stamp.  Loops run side  *)
(* by side, any write may fail, and the process may die between two.       *)
(***************************************************************************)
EXTENDS Integers, Sequences

CONSTANTS
    Loops,     \* read loops of one client
    Symbols,   \* pairs, each with a handler of its own
    Updates,   \* updates as sent: two sides, each a sequence of levels, each
               \* a sequence of fields
    MaxUpdates,\* updates in a message of Bybit; Binance sends one
    MaxStamp,  \* bound: readings of the clock
    Garbage,   \* a field that is no number
    None       \* nothing stored, nobody's stamp

ASSUME OrderBookAssumption ==
    /\ MaxStamp \in Nat /\ MaxUpdates \in Nat \ {0} /\ Garbage \notin Int
    /\ \A u \in Updates :
         /\ DOMAIN u = {"bids", "asks"}
         /\ \A side \in {"bids", "asks"} :
              u[side] \in Seq(Seq(Int \cup {Garbage}))

Sides == {"bids", "asks"}
Stamps == 0 .. MaxStamp

VARIABLES
    exchange,  \* the module: "binance" or "bybit"
    handlers,  \* symbols whose handler is registered
    cancelled, \* the context of the module
    clock,     \* what time.Now returns
    store,     \* InfluxDB: side, symbol and stamp -> level, or None
    pc,        \* per loop: position
    message,   \* per loop: the updates of the message read last
    waiting,   \* per loop: symbols of the handlers it has still to call
    handler,   \* per loop: the symbol of the handler it is in
    rest,      \* per loop: updates the handler has still to convert
    stamp,     \* per loop: the Timestamp of the book it is writing
    points,    \* per loop: the points of that book it has still to write
    taken,     \* history: the updates a symbol and a stamp were taken for
    shared,    \* history: symbols and stamps taken more than once
    saved      \* history: symbols and stamps whose save returned nil

local == <<pc, message, waiting, handler, rest, stamp, points>>
history == <<taken, shared, saved>>
vars == <<exchange, handlers, cancelled, clock, store, local, history>>

\* A level as the database has it: a price and an amount.  A point has the place
\* its level was sent at.
Levels == Int \X Int
Points == [side : Sides, place : Nat \ {0}, level : Levels]

TypeOK ==
    /\ exchange \in {"binance", "bybit"}
    /\ handlers \in SUBSET Symbols /\ cancelled \in BOOLEAN /\ clock \in Stamps
    /\ store \in [Sides \X Symbols \X Stamps -> Levels \cup {None}]
    /\ pc \in [Loops -> {"select", "read", "handlers", "update", "write", "stopped"}]
    /\ message \in [Loops -> Seq(Updates)]
    /\ waiting \in [Loops -> SUBSET Symbols]
    /\ handler \in [Loops -> Symbols \cup {None}]
    /\ rest \in [Loops -> Seq(Updates)]
    /\ stamp \in [Loops -> Stamps]
    /\ points \in [Loops -> SUBSET Points]
    /\ taken \in [Symbols \X Stamps -> SUBSET Updates]
    /\ shared \in SUBSET (Symbols \X Stamps)
    /\ saved \in SUBSET (Symbols \X Stamps)

\* Per loop: position and local variables when it begins.
Begun == [pc |-> "select", message |-> << >>, waiting |-> {}, handler |-> None,
          rest |-> << >>, stamp |-> 0, points |-> {}]

Init ==
    /\ exchange \in {"binance", "bybit"}
    /\ handlers = {} /\ cancelled = FALSE /\ clock = 0
    /\ store = [k \in Sides \X Symbols \X Stamps |-> None]
    /\ pc = [l \in Loops |-> Begun.pc]
    /\ message = [l \in Loops |-> Begun.message]
    /\ waiting = [l \in Loops |-> Begun.waiting]
    /\ handler = [l \in Loops |-> Begun.handler]
    /\ rest = [l \in Loops |-> Begun.rest]
    /\ stamp = [l \in Loops |-> Begun.stamp]
    /\ points = [l \in Loops |-> Begun.points]
    /\ taken = [k \in Symbols \X Stamps |-> {}]
    /\ shared = {} /\ saved = {}

(***************************************************************************)
(* The conversion.                                                         *)
(***************************************************************************)

\* The levels of Binance are slices.  Those of Bybit are arrays of two: more
\* fields are thrown away, missing ones are "", which is no number.
Decoded(level) ==
    IF exchange = "binance" THEN level
    ELSE [i \in 1 .. 2 |-> IF i <= Len(level) THEN level[i] ELSE Garbage]

\* Mutant: a price that cannot be parsed is kept.
ParsedUnchecked(level) == IF Len(level) = 2 /\ level[2] \in Int THEN level ELSE <<0, 0>>

\* A level that cannot be parsed keeps the zero value of its place.
Parsed(level) ==
    IF Len(level) = 2 /\ level[1] \in Int /\ level[2] \in Int THEN level ELSE <<0, 0>>

\* Mutant: deleted orders, and what could not be parsed, are not filtered out.
KeptWithZero(level) == level[2] >= 0

\* Filter out zero quantities (deleted orders).
Kept(level) == level[2] > 0

\* Every level of a side, converted.
Converted(u, side) ==
    {[side |-> side, place |-> i, level |-> Parsed(Decoded(u[side][i]))] : i \in DOMAIN u[side]}

\* The points of a book.
BookPoints(u) == {p \in Converted(u, "bids") \cup Converted(u, "asks") : Kept(p.level)}

\* Mutant: the asks are written first.
BeforeAsksFirst(p, q) ==
    \/ p.side = "asks" /\ q.side = "bids"
    \/ p.side = q.side /\ p.place < q.place

\* The order in which SaveOrderBook writes them.
Before(p, q) ==
    \/ p.side = "bids" /\ q.side = "asks"
    \/ p.side = q.side /\ p.place < q.place

First(P) == CHOOSE p \in P : \A q \in P \ {p} : Before(p, q)

(***************************************************************************)
(* Actions.                                                                *)
(***************************************************************************)
Goto(l, to) == pc' = [pc EXCEPT ![l] = to]

\* Module.Start, after Connect returned: meanwhile the loop may be reading.
AddHandler(s) ==
    /\ s \notin handlers
    /\ handlers' = handlers \cup {s}
    /\ UNCHANGED <<exchange, cancelled, clock, store, local, history>>

\* The head of the loop.
Select(l) ==
    /\ pc[l] = "select"
    /\ Goto(l, IF cancelled THEN "stopped" ELSE "read")
    /\ UNCHANGED <<exchange, handlers, cancelled, clock, store,
                   message, waiting, handler, rest, stamp, points, history>>

\* Only messages with data go to the handlers.
HasData(m) ==
    IF exchange = "bybit" THEN Len(m) \in 1 .. MaxUpdates
    ELSE Len(m) = 1 /\ (m[1]["bids"] # << >> \/ m[1]["asks"] # << >>)

\* ReadMessage returns one; the handlers to call are copied under the lock.
ReadMessage(l, m) ==
    /\ pc[l] = "read" /\ HasData(m)
    /\ Goto(l, "handlers")
    /\ message' = [message EXCEPT ![l] = m]
    /\ waiting' = [waiting EXCEPT ![l] = handlers]
    /\ UNCHANGED <<exchange, handlers, cancelled, clock, store,
                   handler, rest, stamp, points, history>>

\* The handlers are called in the order of a map.
CallHandler(l, s) ==
    /\ pc[l] = "handlers" /\ s \in waiting[l]
    /\ Goto(l, "update")
    /\ waiting' = [waiting EXCEPT ![l] = @ \ {s}]
    /\ handler' = [handler EXCEPT ![l] = s]
    /\ rest' = [rest EXCEPT ![l] = message[l]]
    /\ UNCHANGED <<exchange, handlers, cancelled, clock, store,
                   message, stamp, points, history>>

MessageHandled(l) ==
    /\ pc[l] = "handlers" /\ waiting[l] = {}
    /\ Goto(l, "select")
    /\ message' = [message EXCEPT ![l] = << >>]
    /\ UNCHANGED <<exchange, handlers, cancelled, clock, store,
                   waiting, handler, rest, stamp, points, history>>

\* The book gets its stamp when it has been converted, before its first write.
ConvertToOrderBookData(l) ==
    /\ pc[l] = "update" /\ rest[l] # << >>
    /\ Goto(l, "write")
    /\ rest' = [rest EXCEPT ![l] = Tail(@)]
    /\ stamp' = [stamp EXCEPT ![l] = clock]
    /\ points' = [points EXCEPT ![l] = BookPoints(Head(rest[l]))]
    /\ taken' = [taken EXCEPT ![<<handler[l], clock>>] = @ \cup {Head(rest[l])}]
    /\ shared' = IF taken[<<handler[l], clock>>] = {} THEN shared
                 ELSE shared \cup {<<handler[l], clock>>}
    /\ UNCHANGED <<exchange, handlers, cancelled, clock, store,
                   message, waiting, handler, saved>>

\* A point of the same measurement, tags and stamp is replaced.
Put(l) == store' = [store EXCEPT
    ![<<First(points[l]).side, handler[l], stamp[l]>>] = First(points[l]).level]

WritePoint(l) ==
    /\ pc[l] = "write" /\ points[l] # {} /\ ~cancelled
    /\ Put(l)
    /\ points' = [points EXCEPT ![l] = @ \ {First(@)}]
    /\ UNCHANGED <<exchange, handlers, cancelled, clock,
                   pc, message, waiting, handler, rest, stamp, history>>

\* SaveOrderBook returns the error, and the handler gives up the rest of the
\* message.  The point may have been stored all the same.
WriteFails(l) ==
    /\ pc[l] = "write" /\ points[l] # {}
    /\ Put(l) \/ UNCHANGED store
    /\ Goto(l, "handlers")
    /\ points' = [points EXCEPT ![l] = {}]
    /\ stamp' = [stamp EXCEPT ![l] = 0]
    /\ rest' = [rest EXCEPT ![l] = << >>]
    /\ handler' = [handler EXCEPT ![l] = None]
    /\ UNCHANGED <<exchange, handlers, cancelled, clock, message, waiting, history>>

\* SaveOrderBook returns nil.
BookSaved(l) ==
    /\ pc[l] = "write" /\ points[l] = {}
    /\ Goto(l, "update")
    /\ stamp' = [stamp EXCEPT ![l] = 0]
    /\ saved' = saved \cup {<<handler[l], stamp[l]>>}
    /\ UNCHANGED <<exchange, handlers, cancelled, clock, store,
                   message, waiting, handler, rest, points, taken, shared>>

HandlerReturns(l) ==
    /\ pc[l] = "update" /\ rest[l] = << >>
    /\ Goto(l, "handlers")
    /\ handler' = [handler EXCEPT ![l] = None]
    /\ UNCHANGED <<exchange, handlers, cancelled, clock, store,
                   message, waiting, rest, stamp, points, history>>

\* Two readings of the clock may be equal.
Tick ==
    /\ clock < MaxStamp
    /\ clock' = clock + 1
    /\ UNCHANGED <<exchange, handlers, cancelled, store, local, history>>

Cancel ==
    /\ ~cancelled
    /\ cancelled' = TRUE
    /\ UNCHANGED <<exchange, handlers, clock, store, local, history>>

\* The process dies wherever its loops are, and is started again.
Restart ==
    /\ handlers' = {} /\ cancelled' = FALSE
    /\ pc' = [l \in Loops |-> Begun.pc]
    /\ message' = [l \in Loops |-> Begun.message]
    /\ waiting' = [l \in Loops |-> Begun.waiting]
    /\ handler' = [l \in Loops |-> Begun.handler]
    /\ rest' = [l \in Loops |-> Begun.rest]
    /\ stamp' = [l \in Loops |-> Begun.stamp]
    /\ points' = [l \in Loops |-> Begun.points]
    /\ UNCHANGED <<exchange, clock, store, history>>

Messages == UNION {[1 .. n -> Updates] : n \in 1 .. MaxUpdates}

Loop(l) ==
    \/ Select(l) \/ MessageHandled(l)
    \/ \E m \in Messages : ReadMessage(l, m)
    \/ \E s \in Symbols : CallHandler(l, s)
    \/ ConvertToOrderBookData(l) \/ WritePoint(l) \/ WriteFails(l)
    \/ BookSaved(l) \/ HandlerReturns(l)

Next ==
    \/ \E s \in Symbols : AddHandler(s)
    \/ \E l \in Loops : Loop(l)
    \/ Tick \/ Cancel \/ Restart

Spec == Init /\ [][Next]_vars

(***************************************************************************)
(* Properties.                                                             *)
(***************************************************************************)

\* Reference for the conversion: a level stands for an order if it has a price
\* and an amount above zero.
IsOrder(level) ==
    /\ Len(level) = 2 \/ (exchange = "bybit" /\ Len(level) > 2)
    /\ level[1] \in Int /\ level[2] \in Int /\ level[2] > 0
Order(level) == <<level[1], level[2]>>

\* The order sent last on a side, or None.
LastOrder(side) ==
    LET orders == {i \in DOMAIN side : IsOrder(side[i])} IN
    IF orders = {} THEN None
    ELSE Order(side[CHOOSE i \in orders : \A j \in orders : j <= i])

\* A symbol and a stamp that were taken for one book only.
OwnStamp(s, t) == <<s, t>> \notin shared

\* Every point of the database is an order that was sent for it: neither a
\* deleted order nor one that could not be read gets there, not even as zeroes,
\* whatever books share a stamp.
OnlySentOrders ==
    \A side \in Sides, s \in Symbols, t \in Stamps : store[<<side, s, t>>] # None =>
        \E u \in taken[<<s, t>>] : \E i \in DOMAIN u[side] :
            IsOrder(u[side][i]) /\ store[<<side, s, t>>] = Order(u[side][i])

\* "This microservice will read public order book and private order book and save
\* it to InfluxDB": of a book whose save returned nil every order is in the
\* database, if no other book has its stamp.  Points of one measurement, with the
\* same tags and stamp, replace one another, so that it is not.
SavedIsStored ==
    \A s \in Symbols, t \in Stamps : <<s, t>> \in saved /\ OwnStamp(s, t) =>
        \A u \in taken[<<s, t>>], side \in Sides : \A i \in DOMAIN u[side] :
            IsOrder(u[side][i]) => store[<<side, s, t>>] = Order(u[side][i])

\* Whatever write failed, and wherever the process died: of a book the database
\* has what a beginning of it leaves, the bids in front of the asks, and never an
\* ask without the bids.
BeginningIsStored ==
    \A s \in Symbols, t \in Stamps : OwnStamp(s, t) =>
        \A u \in taken[<<s, t>>] :
            \E n \in 0 .. Len(u["bids"]), k \in 0 .. Len(u["asks"]) :
                /\ store[<<"bids", s, t>>] = LastOrder(SubSeq(u["bids"], 1, n))
                /\ store[<<"asks", s, t>>] = LastOrder(SubSeq(u["asks"], 1, k))
                /\ k > 0 => n = Len(u["bids"])

=============================================================================
