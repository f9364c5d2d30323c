------------------------ MODULE ExchangeClientProofs ------------------------
(***************************************************************************)
(* Proofs about ExchangeClient for every list of pairs, every number of    *)
(* loops, both exchanges and any backoff.                                  *)
(*                                                                         *)
(* The invariants are not inductive alone: that a channel is never closed  *)
(* twice rests on Connect always making a channel with a new number, and   *)
(* that the published connection is open on a loop being idle until its    *)
(* own Connect starts it.                                                  *)
(***************************************************************************)
EXTENDS ExchangeClient, TLAPS

\* How many Connects have run to their end.
Connects == IF apc = "handler" THEN next ELSE next - 1

\* Start is at a pair of its list until it has connected them all.
StartInBounds ==
    /\ apc = "new" => next = 1
    /\ next <= Len(pairs) + 1
    /\ apc \in {"connect", "connecting", "handler"} => next <= Len(pairs)

\* Every channel ever made has the number of a completed Connect.
ChannelsAreOld == \A c \in closed \cup {done} : c <= Connects

\* Only completed Connects have started a loop.
LoopsAreStarted == \A l \in Loops : l > Connects => pc[l] = "idle"

\* c.conn, the sockets and the positions of the loops agree.
SocketInv ==
    /\ PublishedConnIsOpen
    /\ \A l \in Loops : pc[l] = "publish" => sock[l] = "open"

\* Close clears isRunning, and nothing sets it again.
StoppedStaysStopped == apc \in {"closing", "stopped"} => ~isRunning

IInv ==
    /\ TypeOK
    /\ StartInBounds
    /\ ChannelsAreOld
    /\ LoopsAreStarted
    /\ SocketInv
    /\ StoppedStaysStopped
    /\ NeverClosesClosedChannel
    /\ SinglePairConnReachable

-----------------------------------------------------------------------------

\* A loop never touches the fields only Start, Connect and Close write.
LEMMA LoopFrame ==
    ASSUME NEW l \in Loops, Locking(l) \/ Lockless(l)
    PROVE  UNCHANGED <<apc, pairs, next, done, closed, symbol, isRunning,
                       handlers, cancelled>>
  BY DEF Locking, Lockless, CheckRunning, PublishConn, FetchHandlers, LoadDone,
         LoopSelect, DialFails, DialSucceeds, HandshakeSucceeds, HandshakeFails,
         ReadSelectReturns, ReadSelectReads, ReadFails, ReadSkips, ReadBook,
         CallHandler, HandlersDone, WakeUp, ReturnError, apiVars, clientVars

\* The initial state satisfies the inductive invariant.
LEMMA InitIInv == Init => IInv
<1> SUFFICES ASSUME Init PROVE IInv
  OBVIOUS
<1> USE ClientAssumption DEF Init, Loops, NilChan, NilConn
<1>1. TypeOK
  <2>1. pairs \in Seq(Symbols) /\ Len(pairs) <= MaxPairs
    OBVIOUS
  <2>2. next \in 1..(MaxPairs + 1) /\ backoff \in [Loops -> 1..MaxBackoff]
    OBVIOUS
  <2> QED
    BY <2>1, <2>2 DEF TypeOK
<1>2. StartInBounds /\ ChannelsAreOld /\ LoopsAreStarted
  BY DEF StartInBounds, ChannelsAreOld, LoopsAreStarted, Connects
<1>3. SocketInv
  BY DEF SocketInv, PublishedConnIsOpen, Connected
<1>4. StoppedStaysStopped /\ NeverClosesClosedChannel /\ SinglePairConnReachable
  BY DEF StoppedStaysStopped, NeverClosesClosedChannel, SinglePairConnReachable
<1> QED
  BY <1>1, <1>2, <1>3, <1>4 DEF IInv

\* Every step keeps the position of Start and the numbering of the channels.
LEMMA StartStep == IInv /\ [Next]_vars =>
                     /\ StartInBounds'
                     /\ ChannelsAreOld'
                     /\ StoppedStaysStopped'
                     /\ NeverClosesClosedChannel'
<1> SUFFICES ASSUME IInv, [Next]_vars
             PROVE  /\ StartInBounds'
                    /\ ChannelsAreOld'
                    /\ StoppedStaysStopped'
                    /\ NeverClosesClosedChannel'
  OBVIOUS
<1> USE ClientAssumption
    DEF IInv, TypeOK, StartInBounds, ChannelsAreOld, StoppedStaysStopped,
        NeverClosesClosedChannel, Connects, Loops, NilChan, MuFree
<1>1. CASE StartFails
  BY <1>1 DEF StartFails, clientVars
<1>2. CASE StartReadsPairs
  <2>1. PICK ps \in PairLists :
          /\ pairs' = ps
          /\ apc' = IF ps = <<>> THEN "started" ELSE "connect"
    BY <1>2 DEF StartReadsPairs
  <2>2. Len(ps) \in Nat /\ (ps # <<>> => Len(ps) >= 1)
    BY DEF PairLists
  <2> QED
    BY <1>2, <2>1, <2>2 DEF StartReadsPairs, clientVars
<1>3. CASE ConnectBegin
  BY <1>3 DEF ConnectBegin, CloseDone
<1>4. CASE ConnectEnd
  BY <1>4 DEF ConnectEnd
<1>5. CASE AddHandler
  BY <1>5 DEF AddHandler
<1>6. CASE CloseBegin
  BY <1>6 DEF CloseBegin, CloseDone
<1>7. CASE CloseEnd
  BY <1>7 DEF CloseEnd
<1>8. CASE Cancel
  BY <1>8 DEF Cancel, apiVars, clientVars
<1>9. ASSUME NEW l \in Loops, Locking(l) \/ Lockless(l)
      PROVE  /\ StartInBounds' /\ ChannelsAreOld'
             /\ StoppedStaysStopped' /\ NeverClosesClosedChannel'
  <2>1. UNCHANGED <<apc, pairs, next, done, closed, isRunning>>
    BY <1>9, LoopFrame
  <2> QED
    BY <2>1
<1>10. CASE UNCHANGED vars
  BY <1>10 DEF vars, apiVars, clientVars
<1> QED
  BY <1>1, <1>2, <1>3, <1>4, <1>5, <1>6, <1>7, <1>8, <1>9, <1>10 DEF Next, Owner

\* Every step starts a loop only at the end of its own Connect.
LEMMA LoopsStep == IInv /\ [Next]_vars => LoopsAreStarted'
<1> SUFFICES ASSUME IInv, [Next]_vars PROVE LoopsAreStarted'
  OBVIOUS
<1> USE ClientAssumption DEF LoopsAreStarted, Connects, Loops
<1>1. TypeOK /\ LoopsAreStarted /\ next \in Nat
  BY DEF IInv, TypeOK
<1>2. CASE StartFails \/ StartReadsPairs \/ ConnectBegin \/ CloseBegin
           \/ CloseEnd \/ Cancel \/ UNCHANGED vars
  BY <1>1, <1>2 DEF StartFails, StartReadsPairs, ConnectBegin, CloseBegin,
     CloseEnd, Cancel, vars, apiVars, loopVars
<1>3. CASE ConnectEnd
  BY <1>1, <1>3 DEF ConnectEnd, TypeOK
<1>4. CASE AddHandler
  BY <1>1, <1>4 DEF AddHandler, loopVars
<1>5. ASSUME NEW l \in Loops, Locking(l) \/ Lockless(l)
      PROVE  LoopsAreStarted'
  <2>1. UNCHANGED <<apc, next>>
    BY <1>5, LoopFrame
  <2>2. pc[l] # "idle" /\ \A k \in Loops \ {l} : pc'[k] = pc[k]
    BY <1>5, <1>1
       DEF TypeOK, Goto, Locking, Lockless, CheckRunning, PublishConn, FetchHandlers,
           LoadDone, LoopSelect, DialFails, DialSucceeds, HandshakeSucceeds,
           HandshakeFails, ReadSelectReturns, ReadSelectReads, ReadFails,
           ReadSkips, ReadBook, CallHandler, HandlersDone, WakeUp, ReturnError
  <2> QED
    BY <1>1, <2>1, <2>2
<1> QED
  BY <1>2, <1>3, <1>4, <1>5 DEF Next, Owner

\* How a loop's step may move its socket and c.conn: it dials, publishes the
\* socket it dialed, leaves connectAndRead and closes it, or keeps both.
Dialed(l)    == /\ pc[l] = "dial" /\ pc'[l] = "publish"
                /\ sock'[l] = "open" /\ UNCHANGED conn
Published(l) == /\ pc[l] = "publish" /\ pc'[l] \in Connected \ {"publish"}
                /\ sock'[l] = sock[l] /\ conn' = l
Left(l)      == /\ pc'[l] = "sleep" /\ sock'[l] = "none"
                /\ conn' = IF conn = l THEN DeadConn ELSE conn
Stayed(l)    == /\ pc[l] # "publish" /\ pc'[l] # "publish"
                /\ pc[l] \in Connected <=> pc'[l] \in Connected
                /\ sock'[l] = sock[l] /\ UNCHANGED conn

LEMMA LoopSocket ==
    ASSUME TypeOK, NEW l \in Loops, Locking(l) \/ Lockless(l)
    PROVE  /\ \A k \in Loops \ {l} : pc'[k] = pc[k] /\ sock'[k] = sock[k]
           /\ Dialed(l) \/ Published(l) \/ Left(l) \/ Stayed(l)
<1> USE DEF TypeOK, Goto, Connected, clientVars, Dialed, Published, Left, Stayed
<1>1. CASE Locking(l)
  BY <1>1, ClientAssumption DEF Locking, CheckRunning, PublishConn, FetchHandlers
<1>2. CASE LoadDone(l) \/ LoopSelect(l) \/ DialFails(l) \/ DialSucceeds(l)
  BY <1>2 DEF LoadDone, LoopSelect, DialFails, DialSucceeds
<1>3. CASE HandshakeSucceeds(l) \/ HandshakeFails(l)
  BY <1>3 DEF HandshakeSucceeds, HandshakeFails, ReturnError
<1>4. CASE ReadSelectReturns(l) \/ ReadSelectReads(l)
  BY <1>4 DEF ReadSelectReturns, ReadSelectReads, ReturnError
<1>5. CASE ReadFails(l) \/ ReadSkips(l) \/ ReadBook(l)
  BY <1>5 DEF ReadFails, ReadSkips, ReadBook, ReturnError
<1>6. CASE CallHandler(l) \/ HandlersDone(l) \/ WakeUp(l)
  BY <1>6 DEF CallHandler, HandlersDone, WakeUp
<1> QED
  BY <1>1, <1>2, <1>3, <1>4, <1>5, <1>6 DEF Lockless

\* Every step keeps the sockets, c.conn and the loops' positions in agreement.
LEMMA SocketStep == IInv /\ [Next]_vars => SocketInv' /\ SinglePairConnReachable'
<1> SUFFICES ASSUME IInv, [Next]_vars
             PROVE  SocketInv' /\ SinglePairConnReachable'
  OBVIOUS
<1> USE ClientAssumption
    DEF SocketInv, PublishedConnIsOpen, SinglePairConnReachable, Connected,
        Loops, NilConn, DeadConn
<1>1. TypeOK /\ SocketInv /\ SinglePairConnReachable
      /\ StartInBounds /\ LoopsAreStarted
  BY DEF IInv
<1>2. CASE StartFails \/ CloseBegin \/ Cancel \/ AddHandler \/ UNCHANGED vars
  BY <1>1, <1>2 DEF StartFails, CloseBegin, Cancel, AddHandler, vars, apiVars,
     clientVars, loopVars
<1>3. CASE StartReadsPairs
  <2>1. \A l \in Loops : pc[l] = "idle"
    BY <1>1, <1>3 DEF StartReadsPairs, StartInBounds, LoopsAreStarted, Connects
  <2> QED
    BY <1>1, <1>3, <2>1 DEF StartReadsPairs, clientVars, loopVars, TypeOK
<1>4. CASE ConnectBegin
  BY <1>1, <1>4 DEF ConnectBegin, CloseConn, TypeOK
<1>5. CASE CloseEnd
  BY <1>1, <1>5 DEF CloseEnd, CloseConn, TypeOK
<1>6. CASE ConnectEnd
  <2>1. next \in Loops /\ pc[next] = "idle" /\ conn # next
    BY <1>1, <1>6 DEF ConnectEnd, TypeOK, StartInBounds, LoopsAreStarted, Connects
  <2> QED
    BY <1>1, <1>6, <2>1 DEF ConnectEnd, TypeOK
<1>7. ASSUME NEW l \in Loops, Locking(l) \/ Lockless(l)
      PROVE  SocketInv' /\ SinglePairConnReachable'
  <2>1. UNCHANGED pairs
    BY <1>7, LoopFrame
  <2>2. Len(pairs) = 1 => \A k \in Loops : pc[k] # "idle" => k = 1
    BY <1>1 DEF StartInBounds, LoopsAreStarted, Connects, TypeOK
  <2>3. \A k \in Loops \ {l} : pc'[k] = pc[k] /\ sock'[k] = sock[k]
    BY <1>1, <1>7, LoopSocket
  <2>4. Dialed(l) \/ Published(l) \/ Left(l) \/ Stayed(l)
    BY <1>1, <1>7, LoopSocket
  <2>5. SocketInv'
    <3> USE <1>1, <2>3
    <3>1. CASE Dialed(l)
      BY <3>1 DEF Dialed
    <3>2. CASE Published(l)
      BY <3>2 DEF Published
    <3>3. CASE Left(l)
      BY <3>3 DEF Left
    <3>4. CASE Stayed(l)
      BY <3>4 DEF Stayed
    <3> QED
      BY <2>4, <3>1, <3>2, <3>3, <3>4
  <2>6. SinglePairConnReachable'
    <3>1. ASSUME Len(pairs) = 1, NEW k \in Loops, sock'[k] = "open", pc'[k] # "publish"
          PROVE  conn' = k
      <4>1. pc[l] # "idle"
        BY <1>7 DEF Locking, Lockless, CheckRunning, PublishConn, FetchHandlers,
             LoadDone, LoopSelect, DialFails, DialSucceeds, HandshakeSucceeds,
             HandshakeFails, ReadSelectReturns, ReadSelectReads, ReadFails,
             ReadSkips, ReadBook, CallHandler, HandlersDone, WakeUp
      <4>2. k = l
        BY <1>1, <2>2, <2>3, <3>1, <4>1
      <4> QED
        BY <1>1, <2>4, <3>1, <4>2 DEF Dialed, Published, Left, Stayed
    <3> QED
      BY <2>1, <3>1
  <2> HIDE DEF SocketInv, SinglePairConnReachable
  <2> QED
    BY <2>5, <2>6
<1> QED
  BY <1>2, <1>3, <1>4, <1>5, <1>6, <1>7 DEF Next, Owner

\* Every step keeps the types.
LEMMA TypeStep == IInv /\ [Next]_vars => TypeOK'
<1> SUFFICES ASSUME IInv, [Next]_vars PROVE TypeOK'
  OBVIOUS
<1> USE ClientAssumption DEF TypeOK, Loops, NilChan, NilConn, DeadConn
<1>1. TypeOK /\ StartInBounds
  BY DEF IInv
<1>2. CASE StartFails \/ StartReadsPairs
  <2>1. PairLists \subseteq {s \in Seq(Symbols) : Len(s) <= MaxPairs}
    BY DEF PairLists
  <2> QED
    BY <1>1, <1>2, <2>1 DEF StartFails, StartReadsPairs, clientVars, loopVars
<1>3. CASE ConnectBegin
  BY <1>1, <1>3 DEF ConnectBegin, CloseConn, CloseDone
<1>4. CASE ConnectEnd
  BY <1>1, <1>4 DEF ConnectEnd, StartInBounds
<1>5. CASE AddHandler
  BY <1>1, <1>5 DEF AddHandler, StartInBounds, loopVars
<1>6. CASE CloseBegin
  BY <1>1, <1>6 DEF CloseBegin, CloseDone, loopVars
<1>7. CASE CloseEnd
  BY <1>1, <1>7 DEF CloseEnd, CloseConn
<1>8. CASE Cancel \/ UNCHANGED vars
  BY <1>1, <1>8 DEF Cancel, vars, apiVars, clientVars, loopVars
<1>9. ASSUME NEW l \in Loops, Locking(l)
      PROVE  TypeOK'
  <2> USE DEF Goto, Connected, apiVars, clientVars
  <2>1. CASE CheckRunning(l)
    <3>1. CASE pc' = [pc EXCEPT ![l] = "exited"] /\ UNCHANGED sub
      BY <1>1, <2>1, <3>1 DEF CheckRunning
    <3>2. CASE pc' = [pc EXCEPT ![l] = "dial"] /\ sub' = [sub EXCEPT ![l] = symbol]
      BY <1>1, <2>1, <3>2 DEF CheckRunning
    <3> QED
      BY <2>1, <3>1, <3>2 DEF CheckRunning
  <2>2. CASE PublishConn(l)
    BY <1>1, <2>2 DEF PublishConn
  <2>3. CASE FetchHandlers(l)
    BY <1>1, <2>3 DEF FetchHandlers
  <2> QED
    BY <1>9, <2>1, <2>2, <2>3 DEF Locking
<1>10. ASSUME NEW l \in Loops, Lockless(l)
       PROVE  TypeOK'
  <2> USE DEF Goto, Connected, ForgetChan, apiVars, clientVars
  <2>1. CASE LoadDone(l)
    BY <1>1, <2>1 DEF LoadDone
  <2>7. CASE LoopSelect(l)
    BY <1>1, <2>7 DEF LoopSelect
  <2>8. CASE DialFails(l) \/ DialSucceeds(l)
    BY <1>1, <2>8 DEF DialFails, DialSucceeds
  <2>2. CASE ReturnError(l)
    BY <1>1, <2>2 DEF ReturnError
  <2>3. CASE HandshakeSucceeds(l) \/ ReadSelectReads(l) \/ ReadSkips(l) \/ ReadBook(l)
    BY <1>1, <2>3 DEF HandshakeSucceeds, ReadSelectReads, ReadSkips, ReadBook
  <2>4. CASE CallHandler(l)
    BY <1>1, <2>4 DEF CallHandler
  <2>5. CASE HandlersDone(l)
    BY <1>1, <2>5 DEF HandlersDone
  <2>6. CASE WakeUp(l)
    BY <1>1, <2>6 DEF WakeUp
  <2> QED
    BY <1>10, <2>1, <2>2, <2>3, <2>4, <2>5, <2>6, <2>7, <2>8
       DEF Lockless, HandshakeFails, ReadSelectReturns, ReadFails
<1> QED
  BY <1>2, <1>3, <1>4, <1>5, <1>6, <1>7, <1>8, <1>9, <1>10 DEF Next, Owner

LEMMA NextIInv == IInv /\ [Next]_vars => IInv'
  BY StartStep, LoopsStep, SocketStep, TypeStep DEF IInv

\* The inductive invariant holds in every reachable state.
THEOREM Invariance == Spec => []IInv
<1>1. Init => IInv
  BY InitIInv
<1>2. IInv /\ [Next]_vars => IInv'
  BY NextIInv
<1> QED
  BY <1>1, <1>2, PTL DEF Spec

\* Every variable of the client keeps its type.
THEOREM TypeCorrect == Spec => []TypeOK
<1>1. IInv => TypeOK
  BY DEF IInv
<1> QED
  BY <1>1, Invariance, PTL

\* Connect and Close never close a channel a second time.
THEOREM NoDoubleClose == Spec => []NeverClosesClosedChannel
<1>1. IInv => NeverClosesClosedChannel
  BY DEF IInv
<1> QED
  BY <1>1, Invariance, PTL

\* What c.conn points at is the open socket of a loop still using it.
THEOREM PublishedConn == Spec => []PublishedConnIsOpen
<1>1. IInv => PublishedConnIsOpen
  BY DEF IInv, SocketInv
<1> QED
  BY <1>1, Invariance, PTL

\* With a single pair Close reaches every published connection.
THEOREM SinglePairConn == Spec => []SinglePairConnReachable
<1>1. IInv => SinglePairConnReachable
  BY DEF IInv
<1> QED
  BY <1>1, Invariance, PTL

\* After Stop no loop begins another connection.
THEOREM NoLateDial == Spec => NoDialAfterStop
<1> DEFINE A == apc = "stopped" =>
                  \A l \in Loops : pc[l] = "check" => pc'[l] # "dial"
<1>1. IInv /\ [Next]_vars => [A]_vars
  <2> SUFFICES ASSUME IInv, Next, apc = "stopped",
                      NEW l \in Loops, pc[l] = "check", pc'[l] = "dial"
               PROVE  FALSE
    BY DEF A
  <2>1. TypeOK /\ ~isRunning
    BY DEF IInv, StoppedStaysStopped
  <2>2. PICK k \in Loops : Locking(k) \/ Lockless(k)
    BY DEF Next, Owner, StartFails, StartReadsPairs, ConnectBegin, ConnectEnd,
       AddHandler, CloseBegin, CloseEnd, Cancel, loopVars
  <2>3. k = l
    BY <2>1, <2>2, LoopSocket DEF TypeOK
  <2> QED
    BY <2>1, <2>2, <2>3
       DEF TypeOK, Goto, Locking, Lockless, CheckRunning, PublishConn, FetchHandlers,
           LoadDone, LoopSelect, DialFails, DialSucceeds, HandshakeSucceeds,
           HandshakeFails, ReadSelectReturns, ReadSelectReads, ReadFails,
           ReadSkips, ReadBook, CallHandler, HandlersDone, WakeUp, ReturnError
<1>2. Spec => [][A]_vars
  BY <1>1, Invariance, PTL DEF Spec
<1> QED
  BY <1>2 DEF A, NoDialAfterStop

-----------------------------------------------------------------------------

\* The symbol is one of the pairs Start has read.
IsPair(s) == \E k \in 1..Len(pairs) : pairs[k] = s

\* No loop dials before a Connect has set a pair, and handlers and
\* subscriptions are for pairs of the list.
PairsInv ==
    /\ apc \in {"new", "failed"} => pairs = <<>>
    /\ isRunning => IsPair(symbol)
    /\ \A h \in handlers : IsPair(h)
    /\ \A l \in Loops :
         /\ pc[l] \in Connected \cup {"dial"} => IsPair(sub[l])
         /\ \A h \in todo[l] : IsPair(h)
    /\ \A b \in books : IsPair(b[1]) /\ IsPair(b[2])

\* All pairs of the list are the same.
OnePair == \A j, k \in 1..Len(pairs) : pairs[j] = pairs[k]

LEMMA PairsStep == IInv /\ PairsInv /\ [Next]_vars => PairsInv'
<1> SUFFICES ASSUME IInv, PairsInv, [Next]_vars PROVE PairsInv'
  OBVIOUS
<1>0. TypeOK /\ StartInBounds
  BY DEF IInv
<1>1. CASE StartReadsPairs
  <2>1. \A s : ~IsPair(s)
    BY <1>1 DEF StartReadsPairs, PairsInv, IsPair
  <2>2. /\ ~isRunning /\ handlers = {} /\ books = {}
        /\ \A l \in Loops : pc[l] \notin Connected \cup {"dial"} /\ todo[l] = {}
    BY <1>0, <2>1 DEF PairsInv, TypeOK
  <2>3. apc' \notin {"new", "failed"} /\ UNCHANGED <<clientVars, loopVars, books>>
    BY <1>1 DEF StartReadsPairs
  <2> QED
    BY <2>2, <2>3 DEF PairsInv, clientVars, loopVars
<1>2. ASSUME UNCHANGED pairs
      PROVE  \A s : IsPair(s)' = IsPair(s)
  BY <1>2 DEF IsPair
<1>3. CASE StartFails \/ ConnectBegin \/ CloseBegin \/ CloseEnd \/ Cancel \/ UNCHANGED vars
  <2>1. /\ UNCHANGED <<pairs, symbol, handlers, pc, sub, todo, books>>
        /\ isRunning' => isRunning
        /\ apc' \in {"new", "failed"} => apc \in {"new", "failed"}
    BY <1>3 DEF StartFails, ConnectBegin, CloseBegin, CloseEnd, Cancel, vars,
         apiVars, clientVars, loopVars
  <2> QED
    BY <2>1 DEF PairsInv, IsPair
<1>4. CASE ConnectEnd
  <2>1. UNCHANGED pairs /\ IsPair(pairs[next])
    BY <1>0, <1>4, ClientAssumption DEF ConnectEnd, StartInBounds, IsPair, TypeOK
  <2>2. \A l \in Loops : pc'[l] \in Connected \cup {"dial"} => pc[l] \in Connected \cup {"dial"}
    BY <1>0, <1>4 DEF ConnectEnd, TypeOK, Connected
  <2> QED
    BY <1>4, <2>1, <2>2 DEF ConnectEnd, PairsInv, IsPair
<1>5. CASE AddHandler
  <2>1. UNCHANGED pairs /\ IsPair(pairs[next])
    BY <1>0, <1>5, ClientAssumption DEF AddHandler, StartInBounds, IsPair, TypeOK
  <2> QED
    BY <1>5, <2>1 DEF AddHandler, PairsInv, IsPair, loopVars
<1>6. ASSUME NEW l \in Loops, Locking(l) \/ Lockless(l)
      PROVE  PairsInv'
  <2>1. UNCHANGED <<apc, pairs, isRunning, symbol, handlers>>
    BY <1>6, LoopFrame
  <2>2. \A k \in Loops \ {l} : pc'[k] = pc[k] /\ sub'[k] = sub[k] /\ todo'[k] = todo[k]
    BY <1>0, <1>6
       DEF TypeOK, Goto, loopVars, Locking, Lockless, CheckRunning, PublishConn,
           FetchHandlers, LoadDone, LoopSelect, DialFails, DialSucceeds, HandshakeSucceeds,
           HandshakeFails, ReadSelectReturns, ReadSelectReads, ReadFails, ReadSkips,
           ReadBook, CallHandler, HandlersDone, WakeUp, ReturnError
  <2>3. pc'[l] \in Connected \cup {"dial"} => IsPair(sub'[l])
    <3>1. CASE CheckRunning(l)
      BY <1>0, <3>1 DEF CheckRunning, PairsInv, TypeOK, Goto, Connected
    <3>2. CASE ~CheckRunning(l)
      <4>1. /\ UNCHANGED sub
            /\ pc'[l] \in Connected \cup {"dial"} => pc[l] \in Connected \cup {"dial"}
        BY <1>0, <1>6, <3>2
           DEF TypeOK, Goto, Connected, Locking, Lockless, PublishConn,
               FetchHandlers, LoadDone, LoopSelect, DialFails, DialSucceeds,
               HandshakeSucceeds, HandshakeFails, ReadSelectReturns, ReadSelectReads,
               ReadFails, ReadSkips, ReadBook, CallHandler, HandlersDone, WakeUp, ReturnError
      <4> QED
        BY <4>1 DEF PairsInv
    <3> QED
      BY <3>1, <3>2
  <2>4. \A h \in todo'[l] : IsPair(h)
    <3>1. todo'[l] \subseteq todo[l] \cup handlers
      BY <1>0, <1>6
         DEF TypeOK, Locking, Lockless, CheckRunning, PublishConn, FetchHandlers,
             LoadDone, LoopSelect, DialFails, DialSucceeds, HandshakeSucceeds,
             HandshakeFails, ReadSelectReturns, ReadSelectReads, ReadFails, ReadSkips,
             ReadBook, CallHandler, HandlersDone, WakeUp, ReturnError
    <3> QED
      BY <3>1 DEF PairsInv
  <2>5. \A b \in books' : IsPair(b[1]) /\ IsPair(b[2])
    <3>1. CASE CallHandler(l)
      <4>1. PICK h \in todo[l] : books' = books \cup {<<h, sub[l]>>} \/ books' = books
        BY <3>1 DEF CallHandler
      <4>2. IsPair(h) /\ IsPair(sub[l])
        BY <3>1 DEF CallHandler, PairsInv, Connected
      <4> QED
        BY <4>1, <4>2 DEF PairsInv
    <3>2. CASE ~CallHandler(l)
      <4>1. UNCHANGED books
        BY <1>6, <3>2
           DEF Locking, Lockless, CheckRunning, PublishConn, FetchHandlers, LoadDone,
               LoopSelect, DialFails, DialSucceeds, HandshakeSucceeds, HandshakeFails,
               ReadSelectReturns, ReadSelectReads, ReadFails, ReadSkips, ReadBook,
               HandlersDone, WakeUp, ReturnError
      <4> QED
        BY <4>1 DEF PairsInv
    <3> QED
      BY <3>1, <3>2
  <2>6. \A s : IsPair(s)' = IsPair(s)
    BY <1>2, <2>1
  <2> QED
    BY <2>1, <2>2, <2>3, <2>4, <2>5 DEF PairsInv, IsPair
<1> QED
  BY <1>1, <1>3, <1>4, <1>5, <1>6 DEF Next, Owner

\* How far the mix-up of pairs goes: whatever is stored is filed under a pair
\* of the module and is a book of one, so that a module whose list names one
\* pair, however often, files every book where it belongs.
THEOREM OnePairFiledRight == Spec => [](OnePair => BooksUnderOwnSymbol)
<1>1. Init => PairsInv
  BY DEF Init, PairsInv, Connected
<1>2. PairsInv => (OnePair => BooksUnderOwnSymbol)
  BY DEF PairsInv, OnePair, IsPair, BooksUnderOwnSymbol
<1> QED
  BY <1>1, <1>2, PairsStep, Invariance, PTL DEF Spec

=============================================================================
