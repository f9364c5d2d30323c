--------------------------- MODULE ExchangeClient ---------------------------
(***************************************************************************)
(* One exchange module of the order-book service and its websocket client: *)
(*   order-book-service/internal/exchange/binance/{module,client}.go       *)
(*   order-book-service/internal/exchange/bybit/{module,client}.go         *)
(*                                                                         *)
(* Module.Start asks the repository for the exchange's pairs and calls     *)
(* client.Connect and client.AddHandler once for each of them, always on   *)
(* the same client.  Every Connect starts one more connectionLoop          *)
(* goroutine; all loops share the fields done, conn, symbol, isRunning and *)
(* handlers of that client.  Module.Stop is client.Close.                  *)
(*                                                                         *)
(* The two clients differ in what they send between publishing a           *)
(* connection and reading it: Binance nothing, Bybit a subscription and,   *)
(* with credentials, an authentication request before it.                  *)
(***************************************************************************)
EXTENDS Naturals, Sequences

CONSTANTS
    Symbols,      \* trading pairs the repository may hold for the exchange
    NoSymbol,     \* the empty string: c.symbol before the first Connect
    MaxPairs,     \* bound: longest list of pairs GetPairs returns
    MaxBackoff,   \* maxBackoff of connectionLoop, in seconds
    Exchange,     \* "binance" or "bybit"
    Private       \* whether ApiKey and ApiSecret are both set

ASSUME ClientAssumption ==
    /\ MaxPairs \in Nat \ {0}
    /\ MaxBackoff \in Nat \ {0}
    /\ Exchange \in {"binance", "bybit"}
    /\ Private \in BOOLEAN
    /\ NoSymbol \notin Symbols

VARIABLES
    apc,        \* where the owner of the module is: Start, then Stop
    pairs,      \* m.symbols, as Start read it from the repository
    next,       \* the pair Start is connecting
    done,       \* c.done: nil, or the channel made by the n-th Connect
    closed,     \* the channels that have been closed
    conn,       \* c.conn: nil, the loop whose socket it is, or a dead socket
    symbol,     \* c.symbol
    isRunning,  \* c.isRunning
    handlers,   \* keys of c.handlers
    pc,         \* per loop: position in connectionLoop / connectAndRead
    ch,         \* per loop: the c.done a select has read and not yet polled
    sub,        \* per loop: the symbol its connection is subscribed to
    sock,       \* per loop: its websocket, "none", "open" or "closed"
    todo,       \* per loop: handlers still to be called for a message
    backoff,    \* per loop: delay before the next attempt
    cancelled,  \* the context of Start has been cancelled
    books       \* repository: <<symbol it is filed under, symbol it is of>>

apiVars    == <<apc, pairs, next>>
clientVars == <<done, closed, conn, symbol, isRunning, handlers>>
loopVars   == <<pc, ch, sub, sock, todo, backoff>>
vars       == <<apiVars, clientVars, loopVars, cancelled, books>>

Loops == 1..MaxPairs

\* c.done when it is nil: a nil channel is never ready.
NilChan == 0

\* c.conn when it is nil, and when it still points at a socket whose loop has
\* already left connectAndRead (the deferred conn.Close() leaves c.conn alone).
NilConn  == 0
DeadConn == MaxPairs + 1

PairLists == UNION {[1..n -> Symbols] : n \in 0..MaxPairs}

\* c.mu is held across two steps only inside Connect and Close; the loops'
\* critical sections are single steps.
MuFree == apc \notin {"connecting", "closing"}

\* Positions inside connectAndRead at which the loop has a websocket.
Connected == {"publish", "auth", "subscribe", "select", "poll",
              "read", "fetch", "handle"}

\* Mutant: the select forgets `case <-ctx.Done()`.
StopSignalledByDoneOnly(l) == ch[l] \in closed

\* A `case <-c.done` or `case <-ctx.Done()` of loop l's select is ready.  The
\* select reads c.done without the mutex and then polls the channel it read,
\* which may meanwhile have been closed and replaced.
StopSignalled(l) == cancelled \/ ch[l] \in closed

TypeOK ==
    /\ apc \in {"new", "failed", "connect", "connecting", "handler",
                "started", "closing", "stopped"}
    /\ pairs \in Seq(Symbols) /\ Len(pairs) <= MaxPairs
    /\ next \in 1..(MaxPairs + 1)
    /\ done \in Loops \cup {NilChan}
    /\ closed \in SUBSET Loops
    /\ conn \in Loops \cup {NilConn, DeadConn}
    /\ symbol \in Symbols \cup {NoSymbol}
    /\ isRunning \in BOOLEAN
    /\ handlers \in SUBSET Symbols
    /\ pc \in [Loops -> Connected \cup {"idle", "top", "topPoll", "check",
                                      "dial", "sleep", "exited"}]
    /\ ch \in [Loops -> Loops \cup {NilChan}]
    /\ sub \in [Loops -> Symbols \cup {NoSymbol}]
    /\ sock \in [Loops -> {"none", "open", "closed"}]
    /\ todo \in [Loops -> SUBSET Symbols]
    /\ backoff \in [Loops -> 1..MaxBackoff]
    /\ cancelled \in BOOLEAN
    /\ books \in SUBSET (Symbols \X (Symbols \cup {NoSymbol}))

Init ==
    /\ apc = "new" /\ pairs = <<>> /\ next = 1
    /\ done = NilChan /\ closed = {} /\ conn = NilConn /\ symbol = NoSymbol
    /\ isRunning = FALSE /\ handlers = {}
    /\ pc = [l \in Loops |-> "idle"]
    /\ ch = [l \in Loops |-> NilChan]
    /\ sub = [l \in Loops |-> NoSymbol]
    /\ sock = [l \in Loops |-> "none"]
    /\ todo = [l \in Loops |-> {}]
    /\ backoff = [l \in Loops |-> 1]
    /\ cancelled = FALSE
    /\ books = {}

(***************************************************************************)
(* Module.Start: read the pairs, then Connect and AddHandler for each.     *)
(* Module.Stop: client.Close, possibly more than once on the same module   *)
(* (a failed credentials update leaves a stopped module registered).       *)
(***************************************************************************)

\* Start returns the repository's error before the first Connect.
StartFails ==
    /\ apc = "new"
    /\ apc' = "failed"
    /\ UNCHANGED <<pairs, next, clientVars, loopVars, cancelled, books>>

\* The pair list is whatever was last saved: it may be empty or repeat a pair.
StartReadsPairs ==
    /\ apc = "new" /\ ~cancelled
    /\ \E ps \in PairLists :
         /\ pairs' = ps
         /\ apc' = IF ps = <<>> THEN "started" ELSE "connect"
    /\ UNCHANGED <<next, clientVars, loopVars, cancelled, books>>

\* close(c.done) when there is a channel.
CloseDone == closed' = closed \cup ({done} \ {NilChan})

\* Mutant: c.conn is closed but not set to nil.
CloseConnKeepsConn ==
    /\ sock' = IF conn \in Loops THEN [sock EXCEPT ![conn] = "closed"] ELSE sock
    /\ UNCHANGED conn

\* c.conn.Close() when c.conn is set, then c.conn = nil.
CloseConn ==
    /\ sock' = IF conn \in Loops THEN [sock EXCEPT ![conn] = "closed"] ELSE sock
    /\ conn' = NilConn

\* Connect, up to close(c.done); c.mu stays locked.
ConnectBegin ==
    /\ apc = "connect"
    /\ apc' = "connecting"
    /\ CloseConn
    /\ CloseDone
    /\ UNCHANGED <<pairs, next, done, symbol, isRunning, handlers,
                   pc, ch, sub, todo, backoff, cancelled, books>>

\* The rest of Connect: a new done channel, c.mu unlocked, one more loop.
ConnectEnd ==
    /\ apc = "connecting"
    /\ apc' = "handler"
    /\ done' = next
    /\ symbol' = pairs[next]
    /\ isRunning' = TRUE
    /\ pc' = [pc EXCEPT ![next] = "top"]
    /\ UNCHANGED <<pairs, next, closed, conn, handlers, ch, sub, sock, todo, backoff,
                   cancelled, books>>

\* A second handler for the same pair replaces the first.
AddHandler ==
    /\ apc = "handler"
    /\ handlers' = handlers \cup {pairs[next]}
    /\ next' = next + 1
    /\ apc' = IF next < Len(pairs) THEN "connect" ELSE "started"
    /\ UNCHANGED <<pairs, done, closed, conn, symbol, isRunning, loopVars,
                   cancelled, books>>

\* Mutant: Close leaves isRunning set.
CloseBeginStillRunning ==
    /\ apc \in {"started", "stopped"}
    /\ apc' = "closing"
    /\ CloseDone
    /\ UNCHANGED <<pairs, next, done, conn, symbol, isRunning, handlers, loopVars,
                   cancelled, books>>

\* Close, up to close(c.done); c.mu stays locked.
CloseBegin ==
    /\ apc \in {"started", "stopped"}
    /\ apc' = "closing"
    /\ isRunning' = FALSE
    /\ CloseDone
    /\ UNCHANGED <<pairs, next, done, conn, symbol, handlers, loopVars,
                   cancelled, books>>

\* Mutant: Close forgets c.done = nil.
CloseEndKeepsDone ==
    /\ apc = "closing"
    /\ apc' = "stopped"
    /\ CloseConn
    /\ UNCHANGED <<pairs, next, done, closed, symbol, isRunning, handlers,
                   pc, ch, sub, todo, backoff, cancelled, books>>

\* Mutant: the branch without a connection forgets to unlock.
CloseEndStaysLocked ==
    /\ apc = "closing"
    /\ apc' = IF conn = NilConn THEN "closing" ELSE "stopped"
    /\ done' = NilChan
    /\ CloseConn
    /\ UNCHANGED <<pairs, next, closed, symbol, isRunning, handlers,
                   pc, ch, sub, todo, backoff, cancelled, books>>

\* The rest of Close: c.done = nil, the current connection closed, unlock.
CloseEnd ==
    /\ apc = "closing"
    /\ apc' = "stopped"
    /\ done' = NilChan
    /\ CloseConn
    /\ UNCHANGED <<pairs, next, closed, symbol, isRunning, handlers,
                   pc, ch, sub, todo, backoff, cancelled, books>>

\* The process is told to stop: the context every loop was started with.
Cancel ==
    /\ ~cancelled
    /\ cancelled' = TRUE
    /\ UNCHANGED <<apiVars, clientVars, loopVars, books>>

(***************************************************************************)
(* connectionLoop and connectAndRead of loop l.                            *)
(***************************************************************************)

Goto(l, to) == pc' = [pc EXCEPT ![l] = to]

\* The channel a select has read is forgotten once polled.
ForgetChan(l) == ch' = [ch EXCEPT ![l] = NilChan]

\* connectAndRead returns: the deferred conn.Close(), then the loop sleeps.
ReturnError(l) ==
    /\ Goto(l, "sleep")
    /\ ForgetChan(l)
    /\ sock' = [sock EXCEPT ![l] = "none"]
    /\ conn' = IF conn = l THEN DeadConn ELSE conn
    /\ UNCHANGED <<apiVars, done, closed, symbol, isRunning, handlers,
                   sub, todo, backoff, cancelled, books>>

\* The select at the head of connectionLoop, and that of the read loop.
LoadDone(l) ==
    /\ pc[l] \in {"top", "select"}
    /\ Goto(l, IF pc[l] = "top" THEN "topPoll" ELSE "poll")
    /\ ch' = [ch EXCEPT ![l] = done]
    /\ UNCHANGED <<apiVars, clientVars, sub, sock, todo, backoff, cancelled, books>>

LoopSelect(l) ==
    /\ pc[l] = "topPoll"
    /\ Goto(l, IF StopSignalled(l) THEN "exited" ELSE "check")
    /\ ForgetChan(l)
    /\ UNCHANGED <<apiVars, clientVars, sub, sock, todo, backoff, cancelled, books>>

\* isRunning and symbol are read under the read lock.
CheckRunning(l) ==
    /\ pc[l] = "check" /\ MuFree
    /\ \/ /\ ~isRunning
          /\ Goto(l, "exited")
          /\ UNCHANGED sub
       \/ /\ isRunning
          /\ Goto(l, "dial")
          /\ sub' = [sub EXCEPT ![l] = symbol]
    /\ UNCHANGED <<apiVars, clientVars, ch, sock, todo, backoff, cancelled, books>>

\* DialContext fails, as it always does once the context is cancelled.
DialFails(l) ==
    /\ pc[l] = "dial"
    /\ Goto(l, "sleep")
    /\ UNCHANGED <<apiVars, clientVars, ch, sub, sock, todo, backoff, cancelled, books>>

DialSucceeds(l) ==
    /\ pc[l] = "dial" /\ ~cancelled
    /\ Goto(l, "publish")
    /\ sock' = [sock EXCEPT ![l] = "open"]
    /\ UNCHANGED <<apiVars, clientVars, ch, sub, todo, backoff, cancelled, books>>

\* Mutant: the dialed connection is not stored in c.conn.
PublishNothing(l) ==
    /\ pc[l] = "publish" /\ MuFree
    /\ Goto(l, IF Exchange = "binance" THEN "select"
               ELSE IF Private THEN "auth" ELSE "subscribe")
    /\ UNCHANGED <<apiVars, clientVars, ch, sub, sock, todo, backoff, cancelled, books>>

\* c.conn = conn under the lock, overwriting another loop's connection.
PublishConn(l) ==
    /\ pc[l] = "publish" /\ MuFree
    /\ conn' = l
    /\ Goto(l, IF Exchange = "binance" THEN "select"
               ELSE IF Private THEN "auth" ELSE "subscribe")
    /\ UNCHANGED <<apiVars, done, closed, symbol, isRunning, handlers,
                   ch, sub, sock, todo, backoff, cancelled, books>>

\* Bybit: the authentication request and its answer, whose content is only
\* logged; then the subscription request.
HandshakeSucceeds(l) ==
    /\ pc[l] \in {"auth", "subscribe"} /\ sock[l] = "open"
    /\ Goto(l, IF pc[l] = "auth" THEN "subscribe" ELSE "select")
    /\ UNCHANGED <<apiVars, clientVars, ch, sub, sock, todo, backoff, cancelled, books>>

HandshakeFails(l) ==
    /\ pc[l] \in {"auth", "subscribe"}
    /\ ReturnError(l)

ReadSelectReturns(l) ==
    /\ pc[l] = "poll" /\ StopSignalled(l)
    /\ ReturnError(l)

ReadSelectReads(l) ==
    /\ pc[l] = "poll" /\ ~StopSignalled(l)
    /\ Goto(l, "read")
    /\ ForgetChan(l)
    /\ UNCHANGED <<apiVars, clientVars, sub, sock, todo, backoff, cancelled, books>>

\* ReadMessage fails: the socket was closed here or the exchange dropped it.
ReadFails(l) ==
    /\ pc[l] = "read"
    /\ ReturnError(l)

\* A message with no book in it: not text, a pong, not JSON, no levels.
ReadSkips(l) ==
    /\ pc[l] = "read" /\ sock[l] = "open"
    /\ Goto(l, "select")
    /\ UNCHANGED <<apiVars, clientVars, ch, sub, sock, todo, backoff, cancelled, books>>

ReadBook(l) ==
    /\ pc[l] = "read" /\ sock[l] = "open"
    /\ Goto(l, "fetch")
    /\ UNCHANGED <<apiVars, clientVars, ch, sub, sock, todo, backoff, cancelled, books>>

\* Every registered handler is copied under the read lock.
FetchHandlers(l) ==
    /\ pc[l] = "fetch" /\ MuFree
    /\ Goto(l, "handle")
    /\ todo' = [todo EXCEPT ![l] = handlers]
    /\ UNCHANGED <<apiVars, clientVars, ch, sub, sock, backoff, cancelled, books>>

\* The copied handlers run one after the other, in map order.  Each converts
\* the message and saves it under its own pair; a failed save is only logged.
CallHandler(l) ==
    /\ pc[l] = "handle"
    /\ \E h \in todo[l] :
         /\ todo' = [todo EXCEPT ![l] = @ \ {h}]
         /\ \/ ~cancelled /\ books' = books \cup {<<h, sub[l]>>}
            \/ UNCHANGED books
    /\ UNCHANGED <<apiVars, clientVars, pc, ch, sub, sock, backoff, cancelled>>

HandlersDone(l) ==
    /\ pc[l] = "handle" /\ todo[l] = {}
    /\ Goto(l, "select")
    /\ UNCHANGED <<apiVars, clientVars, ch, sub, sock, todo, backoff, cancelled, books>>

\* Mutant: the delay doubles without bound.
WakeUpUncapped(l) ==
    /\ pc[l] = "sleep"
    /\ Goto(l, "top")
    /\ backoff' = [backoff EXCEPT ![l] = 2 * @]
    /\ UNCHANGED <<apiVars, clientVars, ch, sub, sock, todo, cancelled, books>>

\* The delay doubles up to maxBackoff and is never reset.
WakeUp(l) ==
    /\ pc[l] = "sleep"
    /\ Goto(l, "top")
    /\ backoff' = [backoff EXCEPT ![l] = IF 2 * @ > MaxBackoff THEN MaxBackoff ELSE 2 * @]
    /\ UNCHANGED <<apiVars, clientVars, ch, sub, sock, todo, cancelled, books>>

Owner ==
    \/ StartFails \/ StartReadsPairs
    \/ ConnectBegin \/ ConnectEnd \/ AddHandler
    \/ CloseBegin \/ CloseEnd

\* Steps that first acquire c.mu, and steps that do not.
Locking(l)  == CheckRunning(l) \/ PublishConn(l) \/ FetchHandlers(l)
Lockless(l) ==
    \/ LoadDone(l) \/ LoopSelect(l) \/ DialFails(l) \/ DialSucceeds(l)
    \/ HandshakeSucceeds(l) \/ HandshakeFails(l)
    \/ ReadSelectReturns(l) \/ ReadSelectReads(l)
    \/ ReadFails(l) \/ ReadSkips(l) \/ ReadBook(l)
    \/ CallHandler(l) \/ HandlersDone(l) \/ WakeUp(l)

Next ==
    \/ Owner
    \/ Cancel
    \/ \E l \in Loops : Locking(l) \/ Lockless(l)

Spec == Init /\ [][Next]_vars

(***************************************************************************)
(* Start and Close run to their end once begun; nothing obliges anybody to *)
(* call Close or to cancel.  Every goroutine is scheduled.  sync.RWMutex   *)
(* does not starve a goroutine waiting for it: strong fairness of the      *)
(* steps that acquire it.  A read returns in the end: exchanges stream     *)
(* continuously and end every connection after some time.                  *)
(***************************************************************************)
Fairness ==
    /\ WF_vars(ConnectBegin \/ ConnectEnd \/ AddHandler \/ CloseEnd)
    /\ \A l \in Loops : SF_vars(Locking(l)) /\ WF_vars(Lockless(l))

FairSpec == Spec /\ Fairness

(***************************************************************************)
(* What a client promises the module that owns it.                         *)
(***************************************************************************)

\* Connect and Close never close a channel twice: whenever they may run,
\* c.done is nil or a channel nobody has closed.  Closing a closed channel
\* panics and takes the whole service down; Stop can be called twice.
NeverClosesClosedChannel == MuFree => done \notin closed

\* A socket c.conn points at is open and belongs to a loop that is still
\* inside connectAndRead, or its loop has left and closed it: Connect and
\* Close always find either nothing, or a socket safe to close again.
PublishedConnIsOpen ==
    /\ conn \in Loops => /\ sock[conn] = "open"
                         /\ pc[conn] \in Connected \ {"publish"}
    /\ \A l \in Loops : sock[l] # "none" <=> pc[l] \in Connected

\* With one pair every open connection that has been published is c.conn, so
\* that Close reaches it; only a dial overlapping Close escapes (see StopDrains).
SinglePairConnReachable ==
    Len(pairs) = 1 =>
        \A l \in Loops : sock[l] = "open" /\ pc[l] # "publish" => conn = l

\* Once Stop has returned no loop begins another connection, however late it
\* wakes up: isRunning is read under the mutex.
NoDialAfterStop ==
    [][apc = "stopped" => \A l \in Loops : pc[l] = "check" => pc'[l] # "dial"]_vars

\* Cancelling the context ends every loop, wherever it is: dialing, reading,
\* asleep between attempts or not yet started by a Start still running.
CancelDrains ==
    cancelled ~> [](\A l \in Loops : pc[l] \in {"idle", "exited"})

\* A loop whose socket Close has closed ends instead of reconnecting.
ClosedLoopExits ==
    \A l \in Loops : (apc = "stopped" /\ sock[l] = "closed") ~> pc[l] = "exited"

\* A loop that lost its connection dials again unless it was told to end: no
\* call of Connect or Close leaves the mutex locked behind it.
LostConnectionRedials ==
    \A l \in Loops : pc[l] = "sleep" ~> pc[l] \in {"dial", "exited"}

(***************************************************************************)
(* What the documentation promises and the code does not keep.             *)
(***************************************************************************)

\* README.md of the service: it reads order books and saves them.  A book is
\* filed under the pair it is a book of.
BooksUnderOwnSymbol == \A b \in books : b[1] = b[2]

\* UpdateInstanceCredentials "stops the old instance" by calling Stop: after
\* it every loop of the instance comes to its end.
StopDrains == apc = "stopped" ~> \A l \in Loops : pc[l] = "exited" \/ l > Len(pairs)

=============================================================================
