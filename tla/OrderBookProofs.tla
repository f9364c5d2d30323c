--------------------------- MODULE OrderBookProofs ---------------------------
(***************************************************************************)
(* Proofs about OrderBook for any number of loops and pairs, any updates   *)
(* and any readings of the clock: what the conversion keeps is what was    *)
(* ordered, and whatever writes fail, overtake each other or die half way, *)
(* the database holds what the loops have written so far.                  *)
(***************************************************************************)
EXTENDS OrderBook, SequenceTheorems, WellFoundedInduction, TLAPS

\* The points P are a tail of book u.
TailOf(P, u) ==
    /\ P \subseteq BookPoints(u)
    /\ \A p \in P, q \in BookPoints(u) : Before(p, q) => q \in P

\* What the points P leave of a side, written one after another.
Leaves(P, side, x) ==
    \/ x = None /\ \A p \in P : p.side # side
    \/ \E p \in P : /\ p.side = side /\ x = p.level
                    /\ \A q \in P : q.side = side => q.place <= p.place

\* Where the loops are in their messages.
Position(l) ==
    /\ pc[l] \in {"update", "write"} => handler[l] \in Symbols
    /\ pc[l] # "write" => points[l] = {}
    /\ pc[l] = "write" => \E u \in taken[<<handler[l], stamp[l]>>] : TailOf(points[l], u)

\* Two books under one stamp are known to share it.
Shared ==
    /\ \A s \in Symbols, t \in Stamps : OwnStamp(s, t) =>
         \A u, v \in taken[<<s, t>>] : u = v
    /\ \A l, m \in Loops :
         /\ l # m /\ pc[l] = "write" /\ pc[m] = "write"
         /\ handler[l] = handler[m] /\ stamp[l] = stamp[m]
         => ~OwnStamp(handler[l], stamp[l])
    /\ \A l \in Loops : pc[l] = "write" /\ OwnStamp(handler[l], stamp[l]) =>
         <<handler[l], stamp[l]>> \notin saved

\* Nothing is stored or saved under a stamp nobody took.
Untaken ==
    \A s \in Symbols, t \in Stamps : taken[<<s, t>>] = {} =>
        <<s, t>> \notin saved /\ \A side \in Sides : store[<<side, s, t>>] = None

\* Of a book that was saved without an error one level of each side is left, the
\* one sent last: the other levels are lost.
LastLevelIsLeft ==
    \A s \in Symbols, t \in Stamps : <<s, t>> \in saved /\ OwnStamp(s, t) =>
        \A u \in taken[<<s, t>>], side \in Sides : store[<<side, s, t>>] = LastOrder(u[side])

\* Of a book under a stamp of its own the database has what was written so far.
WrittenSoFar ==
    \A l \in Loops : pc[l] = "write" /\ OwnStamp(handler[l], stamp[l]) =>
        \A u \in taken[<<handler[l], stamp[l]>>], side \in Sides :
            Leaves(BookPoints(u) \ points[l], side, store[<<side, handler[l], stamp[l]>>])

\* The orders x and y are what a beginning of book u leaves of its sides.
BeginningOf(u, x, y) ==
    \E n \in 0 .. Len(u["bids"]), k \in 0 .. Len(u["asks"]) :
        /\ x = LastOrder(SubSeq(u["bids"], 1, n))
        /\ y = LastOrder(SubSeq(u["asks"], 1, k))
        /\ k > 0 => n = Len(u["bids"])

IInv ==
    /\ TypeOK /\ \A l \in Loops : Position(l)
    /\ Shared /\ Untaken /\ WrittenSoFar
    /\ OnlySentOrders /\ LastLevelIsLeft /\ BeginningIsStored

-----------------------------------------------------------------------------
(***************************************************************************)
(* The conversion.                                                         *)
(***************************************************************************)
LEMMA TwoFields ==
  ASSUME NEW f, f = [i \in 1 .. 2 |-> f[i]]
  PROVE  f = <<f[1], f[2]>> /\ Len(f) = 2
<1>1. DOMAIN <<f[1], f[2]>> = 1 .. 2
  OBVIOUS
<1>2. f = <<f[1], f[2]>>
  BY <1>1
<1> QED
  BY <1>2

\* A level that is no order is dropped, whatever is wrong with it, and an order
\* becomes its price and its amount.
THEOREM ConversionIsRight ==
  ASSUME NEW level \in Seq(Int \cup {Garbage}), exchange \in {"binance", "bybit"}
  PROVE  /\ Parsed(Decoded(level)) \in Levels
         /\ Kept(Parsed(Decoded(level))) <=> IsOrder(level)
         /\ IsOrder(level) => Parsed(Decoded(level)) = Order(level)
<1>0. /\ Len(level) \in Nat /\ level = [i \in 1 .. Len(level) |-> level[i]]
      /\ \A i \in 1 .. Len(level) : level[i] \in Int \cup {Garbage}
      /\ Garbage \notin Int /\ <<0, 0>> \in Levels /\ ~Kept(<<0, 0>>)
  BY OrderBookAssumption DEF Levels, Kept
<1>1. CASE exchange = "binance"
  <2>1. Decoded(level) = level /\ (IsOrder(level) <=>
           Len(level) = 2 /\ level[1] \in Int /\ level[2] \in Int /\ level[2] > 0)
    BY <1>1 DEF Decoded, IsOrder
  <2>2. CASE Len(level) = 2 /\ level[1] \in Int /\ level[2] \in Int
    <3>1. level = <<level[1], level[2]>>
      BY <1>0, <2>2, TwoFields
    <3>2. Parsed(Decoded(level)) = level
      BY <2>1, <2>2 DEF Parsed
    <3> QED
      BY <2>1, <2>2, <3>1, <3>2 DEF Levels, Kept, Order
  <2>3. CASE ~(Len(level) = 2 /\ level[1] \in Int /\ level[2] \in Int)
    <3>1. Parsed(Decoded(level)) = <<0, 0>>
      BY <2>1, <2>3 DEF Parsed
    <3> QED
      BY <1>0, <2>1, <2>3, <3>1
  <2> QED
    BY <2>2, <2>3
<1>2. CASE exchange = "bybit"
  <2> DEFINE d == [i \in 1 .. 2 |-> IF i <= Len(level) THEN level[i] ELSE Garbage]
  <2>0. Decoded(level) = d
    BY <1>2 DEF Decoded
  <2>1. d = <<d[1], d[2]>> /\ Len(d) = 2
    BY TwoFields
  <2>2. /\ d[1] = IF 1 <= Len(level) THEN level[1] ELSE Garbage
        /\ d[2] = IF 2 <= Len(level) THEN level[2] ELSE Garbage
    OBVIOUS
  <2>3. IsOrder(level) <=>
          Len(level) >= 2 /\ level[1] \in Int /\ level[2] \in Int /\ level[2] > 0
    BY <1>0, <1>2 DEF IsOrder
  <2> HIDE DEF d
  <2>4. CASE d[1] \in Int /\ d[2] \in Int
    <3>1. Parsed(d) = d /\ d \in Levels
      BY <2>1, <2>4 DEF Parsed, Levels
    <3>2. Len(level) >= 2 /\ d[1] = level[1] /\ d[2] = level[2]
      BY <1>0, <2>2, <2>4
    <3>3. Kept(d) <=> IsOrder(level)
      BY <2>3, <2>4, <3>2 DEF Kept
    <3> QED
      BY <2>0, <2>1, <3>1, <3>2, <3>3 DEF Order
  <2>5. CASE ~(d[1] \in Int /\ d[2] \in Int)
    <3>1. Parsed(d) = <<0, 0>>
      BY <2>5 DEF Parsed
    <3>2. ~IsOrder(level)
      BY <1>0, <2>2, <2>3, <2>5
    <3> QED
      BY <1>0, <2>0, <3>1, <3>2
  <2> QED
    BY <2>4, <2>5
<1> QED
  BY <1>1, <1>2

\* A book is the orders of an update, each at its place.
LEMMA BookIsOrders ==
  ASSUME NEW u \in Updates, exchange \in {"binance", "bybit"}
  PROVE  /\ BookPoints(u) \in SUBSET Points
         /\ \A p \in BookPoints(u) :
              /\ p.place \in DOMAIN u[p.side] /\ IsOrder(u[p.side][p.place])
              /\ p.level = Order(u[p.side][p.place])
         /\ \A side \in Sides : \A i \in DOMAIN u[side] : IsOrder(u[side][i]) =>
              \E p \in BookPoints(u) : p.side = side /\ p.place = i
         /\ \A p, q \in BookPoints(u) : p.side = q.side /\ p.place = q.place => p = q
<1>0. \A side \in Sides : u[side] \in Seq(Seq(Int \cup {Garbage}))
  BY OrderBookAssumption DEF Sides
<1>1. ASSUME NEW side \in Sides, NEW i \in DOMAIN u[side]
      PROVE  /\ i \in Nat \ {0} /\ u[side][i] \in Seq(Int \cup {Garbage})
             /\ Parsed(Decoded(u[side][i])) \in Levels
             /\ Kept(Parsed(Decoded(u[side][i]))) <=> IsOrder(u[side][i])
             /\ IsOrder(u[side][i]) => Parsed(Decoded(u[side][i])) = Order(u[side][i])
  <2>1. i \in Nat \ {0} /\ u[side][i] \in Seq(Int \cup {Garbage})
    BY <1>0
  <2> QED
    BY <2>1, ConversionIsRight
<1>2. ASSUME NEW p \in BookPoints(u)
      PROVE  \E side \in Sides : \E i \in DOMAIN u[side] :
               /\ p = [side |-> side, place |-> i, level |-> Parsed(Decoded(u[side][i]))]
               /\ Kept(Parsed(Decoded(u[side][i])))
  BY <1>2 DEF BookPoints, Converted, Sides
<1>3. ASSUME NEW p \in BookPoints(u)
      PROVE  /\ p \in Points /\ p.place \in DOMAIN u[p.side] /\ IsOrder(u[p.side][p.place])
             /\ p.level = Order(u[p.side][p.place])
             /\ p = [side |-> p.side, place |-> p.place, level |-> Order(u[p.side][p.place])]
  <2>0. PICK side \in Sides : \E i \in DOMAIN u[side] :
          /\ p = [side |-> side, place |-> i, level |-> Parsed(Decoded(u[side][i]))]
          /\ Kept(Parsed(Decoded(u[side][i])))
    BY <1>2
  <2>1. PICK i \in DOMAIN u[side] :
          /\ p = [side |-> side, place |-> i, level |-> Parsed(Decoded(u[side][i]))]
          /\ Kept(Parsed(Decoded(u[side][i])))
    BY <2>0
  <2>2. p.side = side /\ p.place = i /\ p.level = Parsed(Decoded(u[side][i]))
    BY <2>1
  <2>3. p \in Points
    BY <1>1, <2>1 DEF Points
  <2> QED
    BY <1>1, <2>1, <2>2, <2>3
<1>4. ASSUME NEW side \in Sides, NEW i \in DOMAIN u[side], IsOrder(u[side][i])
      PROVE  \E p \in BookPoints(u) : p.side = side /\ p.place = i
  <2> DEFINE p == [side |-> side, place |-> i, level |-> Parsed(Decoded(u[side][i]))]
  <2>1. Kept(p.level) /\ p \in Converted(u, side)
    BY <1>1, <1>4 DEF Converted
  <2>2. p \in BookPoints(u)
    BY <2>1 DEF BookPoints, Sides
  <2> QED
    BY <2>2
<1> QED
  BY <1>3, <1>4

-----------------------------------------------------------------------------
(***************************************************************************)
(* The order of writing.                                                   *)
(***************************************************************************)
LEMMA EarliestPlace ==
  ASSUME NEW P \in SUBSET Points, P # {}
  PROVE  \E p \in P : \A q \in P : p.place <= q.place
<1> DEFINE T == {n \in Nat : \E p \in P : p.place = n}
<1>0. \A p \in P : p.place \in Nat
  BY DEF Points
<1>1. PICK n \in T : \A k \in T : ~ (<<k, n>> \in OpToRel(<, Nat))
  <2>1. T # {} /\ T \subseteq Nat
    BY <1>0
  <2> HIDE DEF T
  <2> QED
    BY <2>1, WFMin, NatLessThanWellFounded
<1>2. \A k \in T : n <= k
  <2>1. n \in Nat /\ \A k \in T : k \in Nat /\ ~ (k < n)
    BY <1>1 DEF OpToRel
  <2> HIDE DEF T
  <2> QED
    BY <2>1
<1>3. PICK p \in P : p.place = n
  OBVIOUS
<1> QED
  BY <1>0, <1>2, <1>3

\* The points of a book have an order of writing, which First follows.
LEMMA FirstIsFirst ==
  ASSUME NEW u \in Updates, exchange \in {"binance", "bybit"},
         NEW P \in SUBSET BookPoints(u), P # {}
  PROVE  First(P) \in P /\ \A q \in P \ {First(P)} : Before(First(P), q)
<1>0. /\ P \subseteq Points
      /\ \A p, q \in P : p.side = q.side /\ p.place = q.place => p = q
      /\ \A p \in P : p.side \in Sides /\ p.place \in Nat
  <2>1. P \subseteq Points /\ \A p, q \in P : p.side = q.side /\ p.place = q.place => p = q
    BY BookIsOrders
  <2> QED
    BY <2>1 DEF Points
<1>1. ASSUME NEW side \in Sides, \E p \in P : p.side = side
      PROVE  \E p \in P : /\ p.side = side
                          /\ \A q \in P \ {p} : q.side = side => p.place < q.place
  <2> DEFINE S == {p \in P : p.side = side}
  <2>1. S \in SUBSET Points /\ S # {}
    BY <1>0, <1>1
  <2>2. PICK p \in S : \A q \in S : p.place <= q.place
    BY <2>1, EarliestPlace
  <2> QED
    BY <1>0, <2>2
<1>2. \E p \in P : \A q \in P \ {p} : Before(p, q)
  <2>1. CASE \E p \in P : p.side = "bids"
    BY <1>0, <1>1, <2>1 DEF Before, Sides
  <2>2. CASE ~\E p \in P : p.side = "bids"
    <3>1. \A p \in P : p.side = "asks"
      BY <1>0, <2>2 DEF Sides
    <3> QED
      BY <1>1, <3>1 DEF Before, Sides
  <2> QED
    BY <2>1, <2>2
<1> QED
  BY <1>2 DEF First

\* What the first n levels of a side leave is the last order among them.
LEMMA LastIsLastOrder ==
  ASSUME NEW u \in Updates, exchange \in {"binance", "bybit"}, NEW side \in Sides,
         NEW n \in 0 .. Len(u[side]), NEW W \in SUBSET BookPoints(u),
         \A p \in BookPoints(u) : p.side = side => (p \in W <=> p.place <= n),
         NEW x, Leaves(W, side, x)
  PROVE  x = LastOrder(SubSeq(u[side], 1, n))
<1> DEFINE first == SubSeq(u[side], 1, n)
           orders == {i \in DOMAIN first : IsOrder(first[i])}
<1>0. /\ u[side] \in Seq(Seq(Int \cup {Garbage})) /\ n \in Nat
      /\ DOMAIN first = 1 .. n /\ \A i \in 1 .. n : first[i] = u[side][i]
      /\ \A i \in 1 .. n : i \in DOMAIN u[side]
  BY OrderBookAssumption DEF Sides
<1> HIDE DEF first
<1>1. \A i \in orders : i \in Nat
  BY <1>0
<1>2. \A i : i \in orders <=> \E p \in W : p.side = side /\ p.place = i
  <2>1. ASSUME NEW i \in orders PROVE \E p \in W : p.side = side /\ p.place = i
    <3>1. i \in 1 .. n /\ IsOrder(u[side][i]) /\ i \in DOMAIN u[side]
      BY <1>0
    <3>2. PICK p \in BookPoints(u) : p.side = side /\ p.place = i
      BY <3>1, BookIsOrders
    <3> QED
      BY <3>1, <3>2
  <2>2. ASSUME NEW p \in W, p.side = side PROVE p.place \in orders
    <3>1. p.place \in DOMAIN u[side] /\ IsOrder(u[side][p.place]) /\ p.place <= n
      BY <2>2, BookIsOrders
    <3> QED
      BY <1>0, <3>1
  <2> QED
    BY <2>1, <2>2
<1>3. CASE x = None /\ \A p \in W : p.side # side
  <2>1. orders = {}
    BY <1>2, <1>3
  <2> QED
    BY <1>3, <2>1 DEF LastOrder, first
<1>4. CASE \E p \in W : /\ p.side = side /\ x = p.level
                        /\ \A q \in W : q.side = side => q.place <= p.place
  <2>1. PICK p \in W : /\ p.side = side /\ x = p.level
                       /\ \A q \in W : q.side = side => q.place <= p.place
    BY <1>4
  <2>2. p.place \in orders /\ \A j \in orders : j <= p.place
    BY <1>2, <2>1
  <2>3. p.place = CHOOSE i \in orders : \A j \in orders : j <= i
    <3>1. PICK g : g = CHOOSE i \in orders : \A j \in orders : j <= i
      OBVIOUS
    <3>2. g \in orders /\ \A j \in orders : j <= g
      BY <2>2, <3>1
    <3>3. g <= p.place /\ p.place <= g /\ g \in Nat /\ p.place \in Nat
      BY <1>1, <2>2, <3>2
    <3>4. g = p.place
      BY <3>3
    <3> HIDE DEF orders
    <3> QED
      BY <3>1, <3>4
  <2>4. x = Order(first[p.place])
    BY <1>0, <2>1, <2>2, BookIsOrders
  <2>5. orders # {}
    BY <2>2
  <2> QED
    BY <2>3, <2>4, <2>5 DEF LastOrder, first
<1> QED
  BY <1>3, <1>4 DEF Leaves

\* A book that was written to the end.
LEMMA WholeBook ==
  ASSUME NEW u \in Updates, exchange \in {"binance", "bybit"},
         NEW side \in Sides, NEW x, Leaves(BookPoints(u), side, x)
  PROVE  x = LastOrder(u[side])
<1>1. u[side] \in Seq(Seq(Int \cup {Garbage}))
  BY OrderBookAssumption DEF Sides
<1>2. SubSeq(u[side], 1, Len(u[side])) = u[side] /\ Len(u[side]) \in 0 .. Len(u[side])
  BY <1>1
<1>3. \A p \in BookPoints(u) : p.side = side => p.place <= Len(u[side])
  BY <1>1, BookIsOrders
<1> QED
  BY <1>2, <1>3, LastIsLastOrder

\* Writing the first of the points left keeps them a tail of the book, and the
\* database at what was written so far.
LEMMA OnePointMore ==
  ASSUME NEW u \in Updates, exchange \in {"binance", "bybit"},
         NEW P, TailOf(P, u), P # {}
  PROVE  /\ First(P) \in BookPoints(u) /\ First(P) \in Points
         /\ TailOf(P \ {First(P)}, u)
         /\ \A side \in Sides : \A x : Leaves(BookPoints(u) \ P, side, x) =>
              Leaves(BookPoints(u) \ (P \ {First(P)}), side,
                     IF side = First(P).side THEN First(P).level ELSE x)
<1> DEFINE B == BookPoints(u)
           f == First(P)
<1>0. /\ P \subseteq B /\ \A p \in P, q \in B : Before(p, q) => q \in P
      /\ f \in P /\ f \in B /\ \A q \in P \ {f} : Before(f, q)
  BY FirstIsFirst DEF TailOf
<1>1. f \in Points /\ \A p \in B : p.side \in Sides /\ p.place \in Nat
  <2>1. B \subseteq Points
    BY BookIsOrders
  <2> QED
    BY <1>0, <2>1 DEF Points
<1> HIDE DEF B, f
<1>2. TailOf(P \ {f}, u)
  <2>1. ASSUME NEW p \in P \ {f}, NEW q \in B, Before(p, q) PROVE q \in P \ {f}
    <3>1. Before(f, p) /\ q \in P
      BY <1>0, <2>1
    <3>2. q # f
      BY <1>0, <1>1, <2>1, <3>1 DEF Before, Sides
    <3> QED
      BY <3>1, <3>2
  <2> QED
    BY <1>0, <2>1 DEF TailOf, B
<1>3. ASSUME NEW side \in Sides, NEW x, Leaves(B \ P, side, x)
      PROVE  Leaves(B \ (P \ {f}), side, IF side = f.side THEN f.level ELSE x)
  <2>1. B \ (P \ {f}) = (B \ P) \cup {f}
    BY <1>0
  <2>2. CASE side = f.side
    <3>1. ASSUME NEW q \in B \ P, q.side = side PROVE q.place <= f.place
      BY <1>0, <1>1, <2>2, <3>1 DEF Before
    <3> QED
      BY <1>0, <1>1, <2>1, <2>2, <3>1 DEF Leaves
  <2>3. CASE side # f.side
    BY <1>3, <2>1, <2>3 DEF Leaves
  <2> QED
    BY <2>2, <2>3
<1> QED
  BY <1>0, <1>1, <1>2, <1>3 DEF B, f

\* The points of a side that are left to write are those behind a place.
LEMMA TailIsBehind ==
  ASSUME NEW u \in Updates, exchange \in {"binance", "bybit"},
         NEW P, TailOf(P, u), NEW side \in Sides
  PROVE  \E n \in 0 .. Len(u[side]) :
           /\ \A p \in BookPoints(u) : p.side = side => (p \in BookPoints(u) \ P <=> p.place <= n)
           /\ (\A p \in P : p.side # side) => n = Len(u[side])
<1> DEFINE S == {p \in P : p.side = side}
<1>0. /\ u[side] \in Seq(Seq(Int \cup {Garbage})) /\ Len(u[side]) \in Nat
      /\ P \subseteq BookPoints(u) /\ BookPoints(u) \subseteq Points
      /\ \A p \in BookPoints(u) : p.side = side => p.place \in 1 .. Len(u[side])
  BY OrderBookAssumption, BookIsOrders DEF Sides, TailOf
<1>1. CASE S = {}
  <2>1. \A p \in BookPoints(u) : p.side = side => p \notin P /\ p.place <= Len(u[side])
    BY <1>0, <1>1
  <2> QED
    BY <1>0, <2>1
<1>2. CASE S # {}
  <2>1. PICK f \in S : \A q \in S : f.place <= q.place
    BY <1>0, <1>2, EarliestPlace
  <2>2. f.place \in 1 .. Len(u[side]) /\ f.place - 1 \in 0 .. Len(u[side])
    BY <1>0
  <2>3. ASSUME NEW p \in BookPoints(u), p.side = side
        PROVE  p \in BookPoints(u) \ P <=> p.place <= f.place - 1
    <3>1. p.place \in Nat /\ f.place \in Nat
      BY <1>0, <2>2, <2>3
    <3>2. p \in P => f.place <= p.place
      BY <2>1, <2>3
    <3>3. f.place < p.place => p \in P
      BY <2>3 DEF TailOf, Before
    <3>4. f.place = p.place => p = f
      BY <1>0, <2>3, BookIsOrders
    <3> QED
      BY <3>1, <3>2, <3>3, <3>4
  <2> QED
    BY <2>2, <2>3
<1> QED
  BY <1>1, <1>2

\* No ask is written before the last bid, so what was written is a beginning.
LEMMA BeginningIsLeft ==
  ASSUME NEW u \in Updates, exchange \in {"binance", "bybit"}, NEW P, TailOf(P, u),
         NEW x, Leaves(BookPoints(u) \ P, "bids", x),
         NEW y, Leaves(BookPoints(u) \ P, "asks", y)
  PROVE  BeginningOf(u, x, y)
<1> DEFINE W == BookPoints(u) \ P
<1>0. W \in SUBSET BookPoints(u) /\ "bids" \in Sides /\ "asks" \in Sides
  BY DEF Sides
<1>1. PICK n \in 0 .. Len(u["bids"]) :
        /\ \A p \in BookPoints(u) : p.side = "bids" => (p \in W <=> p.place <= n)
        /\ (\A p \in P : p.side # "bids") => n = Len(u["bids"])
  BY <1>0, TailIsBehind
<1>2. x = LastOrder(SubSeq(u["bids"], 1, n))
  BY <1>0, <1>1, LastIsLastOrder
<1>3. CASE \E p \in W : p.side = "asks"
  <2>1. \A p \in P : p.side # "bids"
    BY <1>3 DEF TailOf, Before
  <2>2. PICK k \in 0 .. Len(u["asks"]) :
          \A p \in BookPoints(u) : p.side = "asks" => (p \in W <=> p.place <= k)
    BY <1>0, TailIsBehind
  <2>3. y = LastOrder(SubSeq(u["asks"], 1, k))
    BY <1>0, <2>2, LastIsLastOrder
  <2> QED
    BY <1>1, <1>2, <2>1, <2>3 DEF BeginningOf
<1>4. CASE ~\E p \in W : p.side = "asks"
  <2>0. Len(u["asks"]) \in Nat /\ 0 \in 0 .. Len(u["asks"])
    BY <1>0, OrderBookAssumption
  <2>1. \A p \in BookPoints(u) : p.side = "asks" => (p \in W <=> p.place <= 0)
    BY <1>4, BookIsOrders DEF Points
  <2>2. y = LastOrder(SubSeq(u["asks"], 1, 0))
    BY <1>0, <2>0, <2>1, LastIsLastOrder
  <2> QED
    BY <1>1, <1>2, <2>0, <2>2 DEF BeginningOf
<1> QED
  BY <1>3, <1>4

\* Nothing is the beginning of every book.
LEMMA NothingIsBeginning ==
  ASSUME NEW u \in Updates
  PROVE  BeginningOf(u, None, None)
<1>1. /\ Len(u["bids"]) \in Nat /\ Len(u["asks"]) \in Nat
      /\ SubSeq(u["bids"], 1, 0) = << >> /\ SubSeq(u["asks"], 1, 0) = << >>
  BY OrderBookAssumption
<1>2. LastOrder(<< >>) = None
  BY DEF LastOrder
<1>3. 0 \in 0 .. Len(u["bids"]) /\ 0 \in 0 .. Len(u["asks"])
  BY <1>1
<1>4. \E n \in 0 .. Len(u["bids"]), k \in 0 .. Len(u["asks"]) :
        /\ SubSeq(u["bids"], 1, n) = << >> /\ SubSeq(u["asks"], 1, k) = << >>
        /\ k > 0 => n = Len(u["bids"])
  BY <1>1, <1>3
<1> QED
  BY <1>2, <1>4, Zenon DEF BeginningOf

\* The kind of exchange never changes, and with it what an update means.
LEMMA SameMeaning ==
  ASSUME exchange' = exchange
  PROVE  /\ \A u : BookPoints(u)' = BookPoints(u)
         /\ \A P, u : TailOf(P, u)' <=> TailOf(P, u)
         /\ \A side : LastOrder(side)' = LastOrder(side)
         /\ \A level : IsOrder(level)' <=> IsOrder(level)
<1>1. \A level : IsOrder(level)' <=> IsOrder(level)
  BY DEF IsOrder
<1>2. \A u, side : Converted(u, side)' = Converted(u, side)
  BY DEF Converted, Decoded
<1>3. \A u : BookPoints(u)' = BookPoints(u)
  BY <1>2 DEF BookPoints
<1>4. \A side : LastOrder(side)' = LastOrder(side)
  BY DEF LastOrder, IsOrder
<1> QED
  BY <1>1, <1>3, <1>4 DEF TailOf

-----------------------------------------------------------------------------
(***************************************************************************)
(* Types.                                                                  *)
(***************************************************************************)
LEMMA MessagesAreSequences ==
  ASSUME NEW m \in Messages
  PROVE  m \in Seq(Updates)
<1>1. PICK n \in 1 .. MaxUpdates : m \in [1 .. n -> Updates]
  BY DEF Messages
<1>2. n \in Nat
  BY <1>1, OrderBookAssumption
<1> QED
  BY <1>1, <1>2, SeqDef

LEMMA BegunIs ==
  /\ Begun.pc = "select" /\ Begun.message = << >> /\ Begun.waiting = {} /\ Begun.handler = None
  /\ Begun.rest = << >> /\ Begun.stamp = 0 /\ Begun.points = {}
  /\ 0 \in Stamps /\ << >> \in Seq(Updates)
<1>1. MaxStamp \in Nat
  BY OrderBookAssumption
<1> QED
  BY <1>1 DEF Begun, Stamps

LEMMA InitType ==
  ASSUME Init
  PROVE  TypeOK
<1>1. /\ pc = [l \in Loops |-> "select"] /\ message = [l \in Loops |-> << >>]
      /\ waiting = [l \in Loops |-> {}] /\ handler = [l \in Loops |-> None]
      /\ rest = [l \in Loops |-> << >>] /\ stamp = [l \in Loops |-> 0]
      /\ points = [l \in Loops |-> {}]
  BY BegunIs DEF Init
<1>2. message \in [Loops -> Seq(Updates)] /\ rest \in [Loops -> Seq(Updates)]
  BY <1>1, BegunIs
<1>3. store \in [Sides \X Symbols \X Stamps -> Levels \cup {None}]
  BY DEF Init
<1>4. taken \in [Symbols \X Stamps -> SUBSET Updates]
  BY DEF Init
<1>5. /\ exchange \in {"binance", "bybit"} /\ handlers \in SUBSET Symbols
      /\ cancelled \in BOOLEAN /\ clock \in Stamps
      /\ shared \in SUBSET (Symbols \X Stamps) /\ saved \in SUBSET (Symbols \X Stamps)
  BY BegunIs DEF Init
<1>6. /\ pc \in [Loops -> {"select", "read", "handlers", "update", "write", "stopped"}]
      /\ waiting \in [Loops -> SUBSET Symbols] /\ handler \in [Loops -> Symbols \cup {None}]
      /\ stamp \in [Loops -> Stamps] /\ points \in [Loops -> SUBSET Points]
  BY <1>1, BegunIs
<1> QED
  BY <1>2, <1>3, <1>4, <1>5, <1>6 DEF TypeOK

LEMMA BooksAreTyped ==
  ASSUME TypeOK, NEW u \in Updates
  PROVE  BookPoints(u) \in SUBSET Points
BY BookIsOrders DEF TypeOK

\* The book a loop writes, and the point it writes next.
LEMMA NextPoint ==
  ASSUME TypeOK, NEW l \in Loops, Position(l), pc[l] = "write", points[l] # {}
  PROVE  \E u \in taken[<<handler[l], stamp[l]>>] :
           /\ u \in Updates /\ TailOf(points[l], u)
           /\ First(points[l]) \in BookPoints(u) /\ First(points[l]) \in Points
           /\ TailOf(points[l] \ {First(points[l])}, u)
<1>1. PICK u \in taken[<<handler[l], stamp[l]>>] : TailOf(points[l], u)
  BY DEF Position
<1>2. /\ handler[l] \in Symbols /\ stamp[l] \in Stamps /\ exchange \in {"binance", "bybit"}
      /\ taken[<<handler[l], stamp[l]>>] \in SUBSET Updates
  BY DEF TypeOK, Position
<1>3. u \in Updates
  BY <1>1, <1>2
<1> QED
  BY <1>1, <1>2, <1>3, OnePointMore

LEMMA TypeStep ==
  ASSUME TypeOK, \A l \in Loops : Position(l), [Next]_vars
  PROVE  TypeOK'
<1>0. MaxStamp \in Nat
  BY OrderBookAssumption
<1>1. ASSUME NEW s \in Symbols, AddHandler(s) PROVE TypeOK'
  BY <1>1 DEF AddHandler, TypeOK, local, history
<1>2. ASSUME NEW l \in Loops, Select(l) PROVE TypeOK'
  BY <1>2 DEF Select, Goto, TypeOK, history
<1>3. ASSUME NEW l \in Loops, MessageHandled(l) PROVE TypeOK'
  BY <1>3 DEF MessageHandled, Goto, TypeOK, history
<1>4. ASSUME NEW l \in Loops, NEW m \in Messages, ReadMessage(l, m) PROVE TypeOK'
  BY <1>4, MessagesAreSequences DEF ReadMessage, Goto, TypeOK, history
<1>5. ASSUME NEW l \in Loops, NEW s \in Symbols, CallHandler(l, s) PROVE TypeOK'
  BY <1>5 DEF CallHandler, Goto, TypeOK, history
<1>6. ASSUME NEW l \in Loops, ConvertToOrderBookData(l) PROVE TypeOK'
  <2>0. rest[l] \in Seq(Updates) /\ rest[l] # << >>
    BY <1>6 DEF ConvertToOrderBookData, TypeOK
  <2>1. /\ Tail(rest[l]) \in Seq(Updates) /\ Head(rest[l]) \in Updates
        /\ handler[l] \in Symbols /\ clock \in Stamps
    <3>1. handler[l] \in Symbols /\ clock \in Stamps
      BY <1>6 DEF ConvertToOrderBookData, TypeOK, Position
    <3> QED
      BY <2>0, <3>1, HeadTailProperties
  <2>2. BookPoints(Head(rest[l])) \in SUBSET Points
    BY <2>1, BooksAreTyped
  <2>3. shared' \in SUBSET (Symbols \X Stamps)
    BY <1>6, <2>1 DEF ConvertToOrderBookData, TypeOK
  <2>4. taken' \in [Symbols \X Stamps -> SUBSET Updates]
    BY <1>6, <2>1 DEF ConvertToOrderBookData, TypeOK
  <2> QED
    BY <1>6, <2>1, <2>2, <2>3, <2>4 DEF ConvertToOrderBookData, Goto, TypeOK
<1>7. ASSUME NEW l \in Loops, pc[l] = "write", points[l] # {}, Put(l)
      PROVE  store' \in [Sides \X Symbols \X Stamps -> Levels \cup {None}]
  <2>1. First(points[l]) \in Points
    BY <1>7, NextPoint
  <2>2. /\ First(points[l]).level \in Levels /\ First(points[l]).side \in Sides
        /\ handler[l] \in Symbols /\ stamp[l] \in Stamps
    BY <1>7, <2>1 DEF Points, TypeOK, Position
  <2> QED
    BY <1>7, <2>2 DEF Put, TypeOK
<1>8. ASSUME NEW l \in Loops, WritePoint(l) PROVE TypeOK'
  <2>1. store' \in [Sides \X Symbols \X Stamps -> Levels \cup {None}]
    BY <1>7, <1>8 DEF WritePoint
  <2> QED
    BY <1>8, <2>1 DEF WritePoint, TypeOK, history
<1>9. ASSUME NEW l \in Loops, WriteFails(l) PROVE TypeOK'
  <2>1. store' \in [Sides \X Symbols \X Stamps -> Levels \cup {None}]
    BY <1>7, <1>9 DEF WriteFails, TypeOK
  <2> QED
    BY <1>9, <2>1, BegunIs DEF WriteFails, Goto, TypeOK, history
<1>10. ASSUME NEW l \in Loops, BookSaved(l) PROVE TypeOK'
  <2>1. handler[l] \in Symbols /\ stamp[l] \in Stamps /\ 0 \in Stamps
    BY <1>10, BegunIs DEF BookSaved, TypeOK, Position
  <2> QED
    BY <1>10, <2>1 DEF BookSaved, Goto, TypeOK
<1>11. ASSUME NEW l \in Loops, HandlerReturns(l) PROVE TypeOK'
  BY <1>11 DEF HandlerReturns, Goto, TypeOK, history
<1>12. CASE Tick
  BY <1>0, <1>12 DEF Tick, TypeOK, Stamps, local, history
<1>13. CASE Cancel
  BY <1>13 DEF Cancel, TypeOK, local, history
<1>14. CASE Restart
  BY <1>14, BegunIs DEF Restart, TypeOK, history
<1>15. CASE UNCHANGED vars
  BY <1>15 DEF vars, local, history, TypeOK
<1> QED
  BY <1>1, <1>2, <1>3, <1>4, <1>5, <1>6, <1>8, <1>9, <1>10, <1>11, <1>12, <1>13,
     <1>14, <1>15 DEF Next, Loop

-----------------------------------------------------------------------------
(***************************************************************************)
(* The inductive invariant.                                                *)
(***************************************************************************)
LEMMA InitInv ==
  ASSUME Init
  PROVE  IInv
<1>1. TypeOK
  BY InitType
<1>2. /\ \A l \in Loops : pc[l] = "select" /\ points[l] = {}
      /\ \A s \in Symbols, t \in Stamps : taken[<<s, t>>] = {} /\ <<s, t>> \notin saved
      /\ \A side \in Sides, s \in Symbols, t \in Stamps : store[<<side, s, t>>] = None
  BY BegunIs DEF Init
<1>3. \A l \in Loops : Position(l)
  BY <1>2 DEF Position
<1>4. Shared /\ Untaken /\ WrittenSoFar
  BY <1>2 DEF Shared, Untaken, WrittenSoFar
<1>5. OnlySentOrders /\ LastLevelIsLeft /\ BeginningIsStored
  BY <1>2 DEF OnlySentOrders, LastLevelIsLeft, BeginningIsStored, Sides
<1> QED
  BY <1>1, <1>3, <1>4, <1>5 DEF IInv

\* What was promised of the database holds as long as nobody writes to it.
LEMMA BeginningNow ==
  ASSUME BeginningIsStored, NEW s \in Symbols, NEW t \in Stamps, OwnStamp(s, t),
         NEW u \in taken[<<s, t>>]
  PROVE  BeginningOf(u, store[<<"bids", s, t>>], store[<<"asks", s, t>>])
BY DEF BeginningIsStored, BeginningOf

LEMMA BeginningNext ==
  ASSUME exchange' = exchange,
         \A s \in Symbols, t \in Stamps : <<s, t>> \notin shared' =>
           \A u \in taken'[<<s, t>>] :
             BeginningOf(u, store'[<<"bids", s, t>>], store'[<<"asks", s, t>>])
  PROVE  BeginningIsStored'
<1>1. \A side : LastOrder(side)' = LastOrder(side)
  BY SameMeaning
<1> QED
  BY <1>1, Zenon DEF BeginningIsStored, BeginningOf, OwnStamp

LEMMA OrdersStoredNext ==
  ASSUME exchange' = exchange,
         \A side \in Sides, s \in Symbols, t \in Stamps : store'[<<side, s, t>>] # None =>
           \E u \in taken'[<<s, t>>] : \E i \in DOMAIN u[side] :
             IsOrder(u[side][i]) /\ store'[<<side, s, t>>] = Order(u[side][i])
  PROVE  OnlySentOrders'
<1>1. \A level : IsOrder(level)' <=> IsOrder(level)
  BY SameMeaning
<1> SUFFICES ASSUME NEW side \in Sides, NEW s \in Symbols, NEW t \in Stamps,
                    store'[<<side, s, t>>] # None
             PROVE  \E u \in taken'[<<s, t>>] : \E i \in DOMAIN u[side] :
                      IsOrder(u[side][i])' /\ store'[<<side, s, t>>] = Order(u[side][i])
  BY Zenon DEF OnlySentOrders, Order
<1>2. PICK u \in taken'[<<s, t>>] : \E i \in DOMAIN u[side] :
        IsOrder(u[side][i]) /\ store'[<<side, s, t>>] = Order(u[side][i])
  OBVIOUS
<1>3. PICK i \in DOMAIN u[side] :
        IsOrder(u[side][i]) /\ store'[<<side, s, t>>] = Order(u[side][i])
  BY <1>2
<1>4. IsOrder(u[side][i])'
  BY <1>1, <1>3, Zenon
<1> QED
  BY <1>3, <1>4, Zenon

LEMMA SameOrdersStored ==
  ASSUME exchange' = exchange, store' = store, taken' = taken, OnlySentOrders
  PROVE  OnlySentOrders'
<1>1. ASSUME NEW side \in Sides, NEW s \in Symbols, NEW t \in Stamps,
             store'[<<side, s, t>>] # None
      PROVE  \E u \in taken'[<<s, t>>] : \E i \in DOMAIN u[side] :
               IsOrder(u[side][i]) /\ store'[<<side, s, t>>] = Order(u[side][i])
  BY <1>1 DEF OnlySentOrders
<1> QED
  BY <1>1, OrdersStoredNext

LEMMA LastLevelsNext ==
  ASSUME exchange' = exchange,
         \A s \in Symbols, t \in Stamps : <<s, t>> \in saved' /\ <<s, t>> \notin shared' =>
           \A u \in taken'[<<s, t>>], side \in Sides :
             store'[<<side, s, t>>] = LastOrder(u[side])
  PROVE  LastLevelIsLeft'
<1>1. \A side : LastOrder(side)' = LastOrder(side)
  BY SameMeaning
<1> QED
  BY <1>1, Zenon DEF LastLevelIsLeft, OwnStamp

LEMMA SameLastLevels ==
  ASSUME exchange' = exchange, store' = store, UNCHANGED history, LastLevelIsLeft
  PROVE  LastLevelIsLeft'
<1>1. taken' = taken /\ shared' = shared /\ saved' = saved
  BY DEF history
<1>2. \A s \in Symbols, t \in Stamps : <<s, t>> \in saved /\ <<s, t>> \notin shared =>
        \A u \in taken[<<s, t>>], side \in Sides : store[<<side, s, t>>] = LastOrder(u[side])
  BY DEF LastLevelIsLeft, OwnStamp
<1> QED
  BY <1>1, <1>2, LastLevelsNext

\* A step that touches neither the database nor the history, and leaves the
\* books that are being written alone or gives them up.
LEMMA FrameStep ==
  ASSUME IInv, TypeOK', exchange' = exchange, store' = store, UNCHANGED history,
         \A l \in Loops :
           /\ pc'[l] = "write" =>
                /\ pc[l] = "write" /\ handler'[l] = handler[l]
                /\ stamp'[l] = stamp[l] /\ points'[l] = points[l]
           /\ pc'[l] # "write" => points'[l] = {}
           /\ pc'[l] = "update" => handler'[l] \in Symbols
  PROVE  IInv'
<1>0. /\ TypeOK /\ \A l \in Loops : Position(l)
      /\ Shared /\ Untaken /\ WrittenSoFar
      /\ OnlySentOrders /\ LastLevelIsLeft /\ BeginningIsStored
      /\ taken' = taken /\ shared' = shared /\ saved' = saved
  BY DEF IInv, history
<1>1. ASSUME NEW l \in Loops PROVE Position(l)'
  BY <1>0, SameMeaning DEF Position
<1>2. Shared'
  BY <1>0 DEF Shared, OwnStamp
<1>3. Untaken'
  BY <1>0 DEF Untaken
<1>4. WrittenSoFar'
  <2> SUFFICES ASSUME NEW l \in Loops, pc'[l] = "write", OwnStamp(handler[l], stamp[l]),
                      NEW u \in taken[<<handler[l], stamp[l]>>], NEW side \in Sides
               PROVE  Leaves(BookPoints(u) \ points[l], side,
                             store[<<side, handler[l], stamp[l]>>])
    BY <1>0, SameMeaning DEF WrittenSoFar, OwnStamp, Leaves
  <2>1. pc[l] = "write"
    OBVIOUS
  <2> QED
    BY <1>0, <2>1 DEF WrittenSoFar
<1>5. OnlySentOrders'
  BY <1>0, SameOrdersStored
<1>6. LastLevelIsLeft'
  BY <1>0, SameLastLevels
<1>7. BeginningIsStored'
  BY <1>0, BeginningNow, BeginningNext DEF OwnStamp
<1> QED
  BY <1>0, <1>1, <1>2, <1>3, <1>4, <1>5, <1>6, <1>7 DEF IInv

\* One point is written.
LEMMA PutStep ==
  ASSUME IInv, exchange' = exchange, UNCHANGED history,
         NEW l \in Loops, pc[l] = "write", points[l] # {}, Put(l)
  PROVE  /\ Untaken' /\ OnlySentOrders' /\ LastLevelIsLeft' /\ BeginningIsStored'
         /\ \A side \in Sides, s \in Symbols, t \in Stamps :
              s # handler[l] \/ t # stamp[l] => store'[<<side, s, t>>] = store[<<side, s, t>>]
         /\ OwnStamp(handler[l], stamp[l]) =>
              \A u \in taken[<<handler[l], stamp[l]>>], side \in Sides :
                Leaves(BookPoints(u) \ (points[l] \ {First(points[l])}), side,
                       store'[<<side, handler[l], stamp[l]>>])
<1>0. /\ TypeOK /\ Position(l) /\ Shared /\ Untaken /\ WrittenSoFar
      /\ OnlySentOrders /\ LastLevelIsLeft /\ BeginningIsStored
      /\ taken' = taken /\ shared' = shared /\ saved' = saved
  BY DEF IInv, history
<1>1. PICK h, t0, f, P : h = handler[l] /\ t0 = stamp[l] /\ P = points[l] /\ f = First(P)
  OBVIOUS
<1>2. PICK u0 \in taken[<<h, t0>>] :
        /\ u0 \in Updates /\ TailOf(P, u0) /\ f \in BookPoints(u0) /\ f \in Points
        /\ TailOf(P \ {f}, u0)
  BY <1>0, <1>1, NextPoint
<1>3. /\ h \in Symbols /\ t0 \in Stamps /\ f.side \in Sides /\ f.level \in Levels
      /\ exchange \in {"binance", "bybit"} /\ P # {}
  BY <1>0, <1>1, <1>2 DEF Position, TypeOK, Points
<1>4. \A side \in Sides, s \in Symbols, t \in Stamps :
        store'[<<side, s, t>>] = IF side = f.side /\ s = h /\ t = t0 THEN f.level
                                 ELSE store[<<side, s, t>>]
  <2>1. store' = [store EXCEPT ![<<f.side, h, t0>>] = f.level]
    BY <1>1 DEF Put
  <2>2. store \in [Sides \X Symbols \X Stamps -> Levels \cup {None}]
    BY <1>0 DEF TypeOK
  <2> QED
    BY <1>3, <2>1, <2>2
<1>5. OwnStamp(h, t0) => \A u \in taken[<<h, t0>>] : u = u0
  BY <1>0, <1>2, <1>3 DEF Shared
<1>6. ASSUME OwnStamp(h, t0), NEW side \in Sides
      PROVE  Leaves(BookPoints(u0) \ (P \ {f}), side, store'[<<side, h, t0>>])
  <2>1. Leaves(BookPoints(u0) \ P, side, store[<<side, h, t0>>])
    BY <1>0, <1>1, <1>2, <1>6 DEF WrittenSoFar
  <2>2. store'[<<side, h, t0>>] = IF side = f.side THEN f.level ELSE store[<<side, h, t0>>]
    BY <1>3, <1>4
  <2>3. \A x : Leaves(BookPoints(u0) \ P, side, x) =>
          Leaves(BookPoints(u0) \ (P \ {f}), side, IF side = f.side THEN f.level ELSE x)
    BY <1>1, <1>2, <1>3, OnePointMore
  <2> QED
    BY <2>1, <2>2, <2>3
<1>7. Untaken'
  <2> SUFFICES ASSUME NEW s \in Symbols, NEW t \in Stamps, taken[<<s, t>>] = {}
               PROVE  <<s, t>> \notin saved /\ \A side \in Sides : store'[<<side, s, t>>] = None
    BY <1>0 DEF Untaken
  <2>1. ~(s = h /\ t = t0)
    BY <1>2
  <2>2. <<s, t>> \notin saved /\ \A side \in Sides : store[<<side, s, t>>] = None
    BY <1>0 DEF Untaken
  <2> QED
    BY <1>4, <2>1, <2>2
<1>8. OnlySentOrders'
  <2> SUFFICES ASSUME NEW side \in Sides, NEW s \in Symbols, NEW t \in Stamps,
                      store'[<<side, s, t>>] # None
               PROVE  \E u \in taken[<<s, t>>] : \E i \in DOMAIN u[side] :
                        IsOrder(u[side][i]) /\ store'[<<side, s, t>>] = Order(u[side][i])
    BY <1>0, OrdersStoredNext
  <2>1. CASE side = f.side /\ s = h /\ t = t0
    <3>1. store'[<<side, s, t>>] = f.level
      BY <1>4, <2>1
    <3>2. /\ f.place \in DOMAIN u0[f.side] /\ IsOrder(u0[f.side][f.place])
          /\ f.level = Order(u0[f.side][f.place])
      BY <1>2, <1>3, BookIsOrders
    <3> QED
      BY <1>2, <2>1, <3>1, <3>2
  <2>2. CASE ~(side = f.side /\ s = h /\ t = t0)
    BY <1>0, <1>4, <2>2 DEF OnlySentOrders
  <2> QED
    BY <2>1, <2>2
<1>9. LastLevelIsLeft'
  <2>1. ASSUME NEW s \in Symbols, NEW t \in Stamps, <<s, t>> \in saved, <<s, t>> \notin shared
        PROVE  \A u \in taken[<<s, t>>], side \in Sides :
                 store'[<<side, s, t>>] = LastOrder(u[side])
    <3>1. OwnStamp(s, t) /\ ~(s = h /\ t = t0)
      BY <1>0, <1>1, <2>1 DEF Shared, OwnStamp
    <3> QED
      BY <1>0, <1>4, <2>1, <3>1 DEF LastLevelIsLeft
  <2> QED
    BY <1>0, <2>1, LastLevelsNext
<1>10. BeginningIsStored'
  <2> SUFFICES ASSUME NEW s \in Symbols, NEW t \in Stamps, OwnStamp(s, t),
                      NEW u \in taken[<<s, t>>]
               PROVE  BeginningOf(u, store'[<<"bids", s, t>>], store'[<<"asks", s, t>>])
    BY <1>0, BeginningNext DEF OwnStamp
  <2>1. CASE s = h /\ t = t0
    <3>1. u = u0
      BY <1>5, <2>1
    <3>2. /\ Leaves(BookPoints(u0) \ (P \ {f}), "asks", store'[<<"asks", s, t>>])
          /\ Leaves(BookPoints(u0) \ (P \ {f}), "bids", store'[<<"bids", s, t>>])
      BY <1>6, <2>1 DEF Sides
    <3> QED
      BY <1>2, <1>3, <3>1, <3>2, BeginningIsLeft
  <2>2. CASE ~(s = h /\ t = t0)
    <3>1. /\ store'[<<"asks", s, t>>] = store[<<"asks", s, t>>]
          /\ store'[<<"bids", s, t>>] = store[<<"bids", s, t>>]
      BY <1>4, <2>2 DEF Sides
    <3> QED
      BY <1>0, <3>1, BeginningNow
  <2> QED
    BY <2>1, <2>2
<1>11. ASSUME OwnStamp(handler[l], stamp[l]), NEW u \in taken[<<handler[l], stamp[l]>>],
              NEW side \in Sides
       PROVE  Leaves(BookPoints(u) \ (points[l] \ {First(points[l])}), side,
                     store'[<<side, handler[l], stamp[l]>>])
  BY <1>1, <1>5, <1>6, <1>11
<1>12. \A side \in Sides, s \in Symbols, t \in Stamps :
         s # handler[l] \/ t # stamp[l] => store'[<<side, s, t>>] = store[<<side, s, t>>]
  BY <1>1, <1>4
<1> QED
  BY <1>7, <1>8, <1>9, <1>10, <1>11, <1>12

LEMMA PositionInBook ==
  ASSUME exchange' = exchange, NEW l \in Loops, pc'[l] = "write", handler'[l] \in Symbols,
         NEW u \in taken'[<<handler'[l], stamp'[l]>>], TailOf(points'[l], u)
  PROVE  Position(l)'
<1>1. \A v : BookPoints(v)' = BookPoints(v)
  BY SameMeaning
<1>2. /\ points'[l] \subseteq BookPoints(u)'
      /\ \A p \in points'[l], q \in BookPoints(u)' : Before(p, q) => q \in points'[l]
  BY <1>1 DEF TailOf
<1> QED
  BY <1>2 DEF Position, TailOf, Before

LEMMA WritePointKeeps ==
  ASSUME IInv, TypeOK', NEW l \in Loops, WritePoint(l)
  PROVE  IInv'
<1>0. /\ TypeOK /\ \A m \in Loops : Position(m)
      /\ Shared /\ Untaken /\ WrittenSoFar
  BY DEF IInv
<1>1. /\ pc[l] = "write" /\ points[l] # {} /\ Put(l) /\ UNCHANGED history
      /\ exchange' = exchange /\ pc' = pc /\ handler' = handler /\ stamp' = stamp
      /\ taken' = taken /\ shared' = shared /\ saved' = saved
      /\ points' = [points EXCEPT ![l] = points[l] \ {First(points[l])}]
  BY DEF WritePoint, history
<1>2. /\ points'[l] = points[l] \ {First(points[l])}
      /\ \A m \in Loops : m # l => points'[m] = points[m]
  BY <1>0, <1>1 DEF TypeOK
<1>3. Untaken' /\ OnlySentOrders' /\ LastLevelIsLeft' /\ BeginningIsStored'
  BY <1>1, PutStep
<1>4. ASSUME NEW m \in Loops PROVE Position(m)'
  <2>1. CASE m = l
    <3>1. PICK u \in taken[<<handler[l], stamp[l]>>] : TailOf(points[l] \ {First(points[l])}, u)
      BY <1>0, <1>1, NextPoint
    <3>2. u \in taken'[<<handler'[l], stamp'[l]>>] /\ TailOf(points'[l], u)
      BY <1>1, <1>2, <3>1
    <3>3. handler'[l] \in Symbols /\ pc'[l] = "write"
      BY <1>0, <1>1 DEF Position
    <3> QED
      BY <1>1, <2>1, <3>2, <3>3, PositionInBook
  <2>2. CASE m # l
    BY <1>0, <1>1, <1>2, <2>2, SameMeaning DEF Position
  <2> QED
    BY <2>1, <2>2
<1>5. Shared'
  BY <1>0, <1>1 DEF Shared, OwnStamp
<1>6. WrittenSoFar'
  <2> SUFFICES ASSUME NEW m \in Loops, pc[m] = "write", OwnStamp(handler[m], stamp[m]),
                      NEW u \in taken[<<handler[m], stamp[m]>>], NEW side \in Sides
               PROVE  Leaves(BookPoints(u) \ points'[m], side,
                             store'[<<side, handler[m], stamp[m]>>])
    BY <1>1, SameMeaning DEF WrittenSoFar, OwnStamp, Leaves
  <2>1. CASE m = l
    BY <1>1, <1>2, <2>1, PutStep
  <2>2. CASE m # l
    <3>1. handler[m] \in Symbols /\ stamp[m] \in Stamps
      BY <1>0 DEF Position, TypeOK
    <3>2. handler[m] # handler[l] \/ stamp[m] # stamp[l]
      BY <1>0, <1>1, <2>2 DEF Shared
    <3>3. store'[<<side, handler[m], stamp[m]>>] = store[<<side, handler[m], stamp[m]>>]
      BY <1>1, <3>1, <3>2, PutStep
    <3> QED
      BY <1>0, <1>2, <2>2, <3>3 DEF WrittenSoFar
  <2> QED
    BY <2>1, <2>2
<1> QED
  BY <1>3, <1>4, <1>5, <1>6 DEF IInv

LEMMA WriteFailsKeeps ==
  ASSUME IInv, TypeOK', NEW l \in Loops, WriteFails(l)
  PROVE  IInv'
<1>0. /\ TypeOK /\ \A m \in Loops : Position(m)
      /\ Shared /\ Untaken /\ WrittenSoFar
  BY DEF IInv
<1>1. /\ pc[l] = "write" /\ points[l] # {} /\ exchange' = exchange /\ UNCHANGED history
      /\ taken' = taken /\ shared' = shared /\ saved' = saved
  BY DEF WriteFails, history
<1>2. /\ pc'[l] = "handlers" /\ points'[l] = {}
      /\ \A m \in Loops : m # l => /\ pc'[m] = pc[m] /\ points'[m] = points[m]
                                   /\ handler'[m] = handler[m] /\ stamp'[m] = stamp[m]
  BY <1>0 DEF WriteFails, Goto, TypeOK
<1>3. CASE store' = store
  <2>1. ASSUME NEW m \in Loops
        PROVE  /\ pc'[m] = "write" =>
                    /\ pc[m] = "write" /\ handler'[m] = handler[m]
                    /\ stamp'[m] = stamp[m] /\ points'[m] = points[m]
               /\ pc'[m] # "write" => points'[m] = {}
               /\ pc'[m] = "update" => handler'[m] \in Symbols
    BY <1>0, <1>2 DEF Position
  <2> QED
    BY <1>1, <1>3, <2>1, FrameStep
<1>4. CASE Put(l)
  <2>1. Untaken' /\ OnlySentOrders' /\ LastLevelIsLeft' /\ BeginningIsStored'
    BY <1>1, <1>4, PutStep
  <2>2. ASSUME NEW m \in Loops PROVE Position(m)'
    BY <1>0, <1>1, <1>2, SameMeaning DEF Position
  <2>3. Shared'
    BY <1>0, <1>1, <1>2 DEF Shared, OwnStamp
  <2>4. WrittenSoFar'
    <3> SUFFICES ASSUME NEW m \in Loops, pc'[m] = "write", OwnStamp(handler[m], stamp[m]), m # l,
                        NEW u \in taken[<<handler[m], stamp[m]>>], NEW side \in Sides
                 PROVE  Leaves(BookPoints(u) \ points[m], side,
                               store'[<<side, handler[m], stamp[m]>>])
      BY <1>1, <1>2, SameMeaning DEF WrittenSoFar, OwnStamp, Leaves
    <3>1. pc[m] = "write" /\ handler[m] \in Symbols /\ stamp[m] \in Stamps
      BY <1>0, <1>2 DEF Position, TypeOK
    <3>2. handler[m] # handler[l] \/ stamp[m] # stamp[l]
      BY <1>0, <1>1, <3>1 DEF Shared
    <3>3. store'[<<side, handler[m], stamp[m]>>] = store[<<side, handler[m], stamp[m]>>]
      BY <1>1, <1>4, <3>1, <3>2, PutStep
    <3> QED
      BY <1>0, <3>1, <3>3 DEF WrittenSoFar
  <2> QED
    BY <2>1, <2>2, <2>3, <2>4 DEF IInv
<1> QED
  BY <1>3, <1>4 DEF WriteFails

LEMMA ConvertKeeps ==
  ASSUME IInv, TypeOK', NEW l \in Loops, ConvertToOrderBookData(l)
  PROVE  IInv'
<1>0. /\ TypeOK /\ \A m \in Loops : Position(m)
      /\ Shared /\ Untaken /\ WrittenSoFar
      /\ OnlySentOrders /\ LastLevelIsLeft /\ BeginningIsStored
  BY DEF IInv
<1>1. PICK h, t0, b : h = handler[l] /\ t0 = clock /\ b = Head(rest[l])
  OBVIOUS
<1>2. /\ pc[l] = "update" /\ exchange' = exchange /\ store' = store /\ saved' = saved
      /\ handler' = handler /\ pc' = [pc EXCEPT ![l] = "write"]
      /\ stamp' = [stamp EXCEPT ![l] = t0] /\ points' = [points EXCEPT ![l] = BookPoints(b)]
      /\ taken' = [taken EXCEPT ![<<h, t0>>] = taken[<<h, t0>>] \cup {b}]
      /\ shared' = IF taken[<<h, t0>>] = {} THEN shared ELSE shared \cup {<<h, t0>>}
  BY <1>1 DEF ConvertToOrderBookData, Goto
<1>3. h \in Symbols /\ t0 \in Stamps
  BY <1>0, <1>1, <1>2 DEF Position, TypeOK
<1>4. /\ pc'[l] = "write" /\ handler'[l] = h /\ stamp'[l] = t0 /\ points'[l] = BookPoints(b)
      /\ \A m \in Loops : m # l => /\ pc'[m] = pc[m] /\ handler'[m] = handler[m]
                                   /\ stamp'[m] = stamp[m] /\ points'[m] = points[m]
  BY <1>0, <1>1, <1>2 DEF TypeOK
<1>5. /\ taken'[<<h, t0>>] = taken[<<h, t0>>] \cup {b}
      /\ \A s \in Symbols, t \in Stamps :
           ~(s = h /\ t = t0) => taken'[<<s, t>>] = taken[<<s, t>>]
      /\ \A s \in Symbols, t \in Stamps : taken[<<s, t>>] \subseteq taken'[<<s, t>>]
  <2>1. taken \in [Symbols \X Stamps -> SUBSET Updates]
    BY <1>0 DEF TypeOK
  <2> QED
    BY <1>2, <1>3, <2>1
<1>6. \A s, t : <<s, t>> \notin shared' =>
        OwnStamp(s, t) /\ (s = h /\ t = t0 => taken[<<s, t>>] = {})
  BY <1>2 DEF OwnStamp
<1>7. \A m \in Loops : pc[m] = "write" =>
        handler[m] \in Symbols /\ stamp[m] \in Stamps /\ taken[<<handler[m], stamp[m]>>] # {}
  BY <1>0 DEF Position, TypeOK
<1>8. ASSUME NEW m \in Loops PROVE Position(m)'
  <2>1. CASE m = l
    <3>1. b \in taken'[<<h, t0>>] /\ TailOf(points'[l], b)
      BY <1>3, <1>4, <1>5 DEF TailOf
    <3> QED
      BY <1>2, <1>3, <1>4, <2>1, <3>1, PositionInBook
  <2>2. CASE m # l /\ pc[m] = "write"
    <3>1. PICK u \in taken[<<handler[m], stamp[m]>>] : TailOf(points[m], u)
      BY <1>0, <2>2 DEF Position
    <3>2. u \in taken'[<<handler'[m], stamp'[m]>>] /\ TailOf(points'[m], u)
      BY <1>4, <1>5, <1>7, <2>2, <3>1
    <3>3. pc'[m] = "write" /\ handler'[m] \in Symbols /\ exchange' = exchange
      BY <1>2, <1>4, <1>7, <2>2
    <3>4. \E v \in taken'[<<handler'[m], stamp'[m]>>] : TailOf(points'[m], v)
      BY <3>2
    <3> QED
      BY <3>3, <3>4, PositionInBook
  <2>3. CASE m # l /\ pc[m] # "write"
    BY <1>0, <1>4, <2>3 DEF Position
  <2> QED
    BY <2>1, <2>2, <2>3
<1>9. Shared'
  <2>1. ASSUME NEW s \in Symbols, NEW t \in Stamps, <<s, t>> \notin shared',
               NEW u \in taken'[<<s, t>>], NEW v \in taken'[<<s, t>>]
        PROVE  u = v
    <3>1. OwnStamp(s, t)
      BY <1>6, <2>1
    <3>2. CASE s = h /\ t = t0
      <4>1. taken[<<s, t>>] = {}
        BY <1>6, <2>1, <3>2
      <4>2. taken'[<<s, t>>] = {b}
        BY <1>5, <3>2, <4>1
      <4> QED
        BY <2>1, <4>2
    <3>3. CASE ~(s = h /\ t = t0)
      <4>1. u \in taken[<<s, t>>] /\ v \in taken[<<s, t>>]
        BY <1>5, <2>1, <3>3
      <4> QED
        BY <1>0, <3>1, <4>1 DEF Shared
    <3> QED
      BY <3>2, <3>3
  <2>2. ASSUME NEW k \in Loops, NEW m \in Loops, k # m, pc'[k] = "write", pc'[m] = "write",
               handler'[k] = handler'[m], stamp'[k] = stamp'[m],
               <<handler'[k], stamp'[k]>> \notin shared'
        PROVE  FALSE
    <3>0. OwnStamp(handler'[k], stamp'[k]) /\ OwnStamp(handler'[m], stamp'[m])
      BY <1>6, <2>2
    <3>1. CASE k # l /\ m # l
      BY <1>0, <1>4, <2>2, <3>0, <3>1 DEF Shared
    <3>2. CASE k = l
      BY <1>4, <1>6, <1>7, <2>2, <3>2
    <3>3. CASE m = l
      BY <1>4, <1>6, <1>7, <2>2, <3>3
    <3> QED
      BY <3>1, <3>2, <3>3
  <2>3. ASSUME NEW m \in Loops, pc'[m] = "write", <<handler'[m], stamp'[m]>> \notin shared'
        PROVE  <<handler'[m], stamp'[m]>> \notin saved
    <3>1. CASE m = l
      BY <1>0, <1>3, <1>4, <1>6, <2>3, <3>1 DEF Untaken
    <3>2. CASE m # l
      BY <1>0, <1>4, <1>6, <2>3, <3>2 DEF Shared
    <3> QED
      BY <3>1, <3>2
  <2> QED
    BY <1>2, <2>1, <2>2, <2>3 DEF Shared, OwnStamp
<1>10. Untaken'
  <2> SUFFICES ASSUME NEW s \in Symbols, NEW t \in Stamps, taken'[<<s, t>>] = {}
               PROVE  <<s, t>> \notin saved /\ \A side \in Sides : store[<<side, s, t>>] = None
    BY <1>2 DEF Untaken
  <2>1. taken[<<s, t>>] = {}
    BY <1>5
  <2> QED
    BY <1>0, <2>1 DEF Untaken
<1>11. WrittenSoFar'
  <2> SUFFICES ASSUME NEW m \in Loops, pc'[m] = "write", <<handler'[m], stamp'[m]>> \notin shared',
                      NEW u \in taken'[<<handler'[m], stamp'[m]>>], NEW side \in Sides
               PROVE  Leaves(BookPoints(u) \ points'[m], side,
                             store[<<side, handler'[m], stamp'[m]>>])
    BY <1>2, SameMeaning DEF WrittenSoFar, OwnStamp, Leaves
  <2>1. CASE m = l
    <3>1. taken[<<h, t0>>] = {}
      BY <1>4, <1>6, <2>1
    <3>2. u = b
      <4>1. taken'[<<h, t0>>] = {b} /\ u \in taken'[<<h, t0>>]
        BY <1>4, <1>5, <2>1, <3>1
      <4> QED
        BY <4>1
    <3>4. store[<<side, h, t0>>] = None
      BY <1>0, <1>3, <3>1 DEF Untaken
    <3>3. BookPoints(u) \ points'[m] = {}
      BY <1>4, <2>1, <3>2
    <3> QED
      BY <1>4, <2>1, <3>3, <3>4 DEF Leaves
  <2>2. CASE m # l
    <3>1. /\ pc[m] = "write" /\ handler'[m] = handler[m] /\ stamp'[m] = stamp[m]
          /\ points'[m] = points[m] /\ OwnStamp(handler[m], stamp[m])
      BY <1>4, <1>6, <2>2
    <3>2. ~(handler[m] = h /\ stamp[m] = t0)
      BY <1>6, <1>7, <3>1
    <3>3. u \in taken[<<handler[m], stamp[m]>>]
      BY <1>5, <1>7, <3>1, <3>2
    <3> QED
      BY <1>0, <3>1, <3>3 DEF WrittenSoFar
  <2> QED
    BY <2>1, <2>2
<1>12. OnlySentOrders'
  <2> SUFFICES ASSUME NEW side \in Sides, NEW s \in Symbols, NEW t \in Stamps,
                      store'[<<side, s, t>>] # None
               PROVE  \E u \in taken'[<<s, t>>] : \E i \in DOMAIN u[side] :
                        IsOrder(u[side][i]) /\ store'[<<side, s, t>>] = Order(u[side][i])
    BY <1>2, OrdersStoredNext
  <2>1. taken[<<s, t>>] \subseteq taken'[<<s, t>>]
    BY <1>5
  <2>2. \E u \in taken[<<s, t>>] : \E i \in DOMAIN u[side] :
          IsOrder(u[side][i]) /\ store[<<side, s, t>>] = Order(u[side][i])
    BY <1>0, <1>2 DEF OnlySentOrders
  <2> QED
    BY <1>2, <2>1, <2>2
<1>13. LastLevelIsLeft'
  <2>1. ASSUME NEW s \in Symbols, NEW t \in Stamps, <<s, t>> \in saved, <<s, t>> \notin shared'
        PROVE  \A u \in taken'[<<s, t>>], side \in Sides :
                 store[<<side, s, t>>] = LastOrder(u[side])
    <3>1. ~(s = h /\ t = t0)
      BY <1>0, <1>6, <2>1 DEF Untaken
    <3> QED
      BY <1>0, <1>5, <1>6, <2>1, <3>1 DEF LastLevelIsLeft
  <2> QED
    BY <1>2, <2>1, LastLevelsNext
<1>14. BeginningIsStored'
  <2> SUFFICES ASSUME NEW s \in Symbols, NEW t \in Stamps, <<s, t>> \notin shared',
                      NEW u \in taken'[<<s, t>>]
               PROVE  BeginningOf(u, store'[<<"bids", s, t>>], store'[<<"asks", s, t>>])
    BY <1>2, BeginningNext
  <2>1. CASE s = h /\ t = t0
    <3>1. taken[<<s, t>>] = {}
      BY <1>6, <2>1
    <3>2. store[<<"bids", s, t>>] = None /\ store[<<"asks", s, t>>] = None
      BY <1>0, <3>1 DEF Untaken, Sides
    <3>3. u \in Updates
      BY <1>3, <2>1 DEF TypeOK
    <3> QED
      BY <1>2, <3>2, <3>3, NothingIsBeginning
  <2>2. CASE ~(s = h /\ t = t0)
    <3>1. u \in taken[<<s, t>>] /\ OwnStamp(s, t)
      BY <1>5, <1>6, <2>2
    <3> QED
      BY <1>0, <1>2, <3>1, BeginningNow
  <2> QED
    BY <2>1, <2>2
<1> QED
  BY <1>8, <1>9, <1>10, <1>11, <1>12, <1>13, <1>14 DEF IInv

LEMMA BookSavedKeeps ==
  ASSUME IInv, TypeOK', NEW l \in Loops, BookSaved(l)
  PROVE  IInv'
<1>0. /\ TypeOK /\ \A m \in Loops : Position(m)
      /\ Shared /\ Untaken /\ WrittenSoFar
      /\ OnlySentOrders /\ LastLevelIsLeft /\ BeginningIsStored
  BY DEF IInv
<1>1. PICK h, t0 : h = handler[l] /\ t0 = stamp[l]
  OBVIOUS
<1>2. /\ pc[l] = "write" /\ points[l] = {} /\ exchange' = exchange /\ store' = store
      /\ taken' = taken /\ shared' = shared /\ saved' = saved \cup {<<h, t0>>}
      /\ handler' = handler /\ points' = points
  BY <1>1 DEF BookSaved
<1>3. /\ pc'[l] = "update"
      /\ \A m \in Loops : m # l => pc'[m] = pc[m] /\ stamp'[m] = stamp[m]
  BY <1>0 DEF BookSaved, Goto, TypeOK
<1>4. h \in Symbols /\ t0 \in Stamps /\ taken[<<h, t0>>] # {}
  BY <1>0, <1>1, <1>2 DEF Position, TypeOK
<1>5. ASSUME NEW m \in Loops PROVE Position(m)'
  BY <1>0, <1>2, <1>3, SameMeaning DEF Position
<1>6. Shared'
  <2>1. ASSUME NEW m \in Loops, m # l, pc[m] = "write", OwnStamp(handler[m], stamp[m])
        PROVE  <<handler[m], stamp[m]>> \notin saved'
    <3>1. ~(handler[m] = h /\ stamp[m] = t0)
      BY <1>0, <1>1, <1>2, <2>1 DEF Shared
    <3>2. <<handler[m], stamp[m]>> \notin saved
      BY <1>0, <2>1 DEF Shared
    <3> QED
      BY <1>2, <3>1, <3>2
  <2> QED
    BY <1>0, <1>2, <1>3, <2>1 DEF Shared, OwnStamp
<1>7. Untaken'
  <2> SUFFICES ASSUME NEW s \in Symbols, NEW t \in Stamps, taken[<<s, t>>] = {}
               PROVE  <<s, t>> \notin saved' /\ \A side \in Sides : store[<<side, s, t>>] = None
    BY <1>2 DEF Untaken
  <2> QED
    BY <1>0, <1>2, <1>4 DEF Untaken
<1>8. WrittenSoFar'
  <2> SUFFICES ASSUME NEW m \in Loops, m # l, pc[m] = "write", OwnStamp(handler[m], stamp[m]),
                      NEW u \in taken[<<handler[m], stamp[m]>>], NEW side \in Sides
               PROVE  Leaves(BookPoints(u) \ points[m], side,
                             store[<<side, handler[m], stamp[m]>>])
    BY <1>2, <1>3, SameMeaning DEF WrittenSoFar, OwnStamp, Leaves
  <2> QED
    BY <1>0 DEF WrittenSoFar
<1>9. OnlySentOrders'
  BY <1>0, <1>2, SameOrdersStored
<1>10. LastLevelIsLeft'
  <2> SUFFICES ASSUME NEW s \in Symbols, NEW t \in Stamps, <<s, t>> \in saved', OwnStamp(s, t)
               PROVE  \A u \in taken[<<s, t>>], side \in Sides :
                        store[<<side, s, t>>] = LastOrder(u[side])
    BY <1>2, LastLevelsNext DEF OwnStamp
  <2>1. ASSUME NEW u \in taken[<<s, t>>], NEW side \in Sides
        PROVE  store[<<side, s, t>>] = LastOrder(u[side])
    <3>1. CASE s = h /\ t = t0
      <4>1. Leaves(BookPoints(u) \ points[l], side, store[<<side, s, t>>])
        BY <1>0, <1>1, <1>2, <3>1 DEF WrittenSoFar
      <4>2. BookPoints(u) \ points[l] = BookPoints(u)
        BY <1>2
      <4>3. u \in Updates /\ exchange \in {"binance", "bybit"}
        BY <1>0 DEF TypeOK
      <4> QED
        BY <4>1, <4>2, <4>3, WholeBook
    <3>2. CASE ~(s = h /\ t = t0)
      <4>1. <<s, t>> \in saved
        BY <1>2, <3>2
      <4> QED
        BY <1>0, <4>1 DEF LastLevelIsLeft
    <3> QED
      BY <3>1, <3>2
  <2> QED
    BY <2>1
<1>11. BeginningIsStored'
  BY <1>0, <1>2, BeginningNow, BeginningNext DEF OwnStamp
<1> QED
  BY <1>5, <1>6, <1>7, <1>8, <1>9, <1>10, <1>11 DEF IInv

-----------------------------------------------------------------------------
LEMMA InvStep ==
  ASSUME IInv, [Next]_vars
  PROVE  IInv'
<1>0. TypeOK /\ \A l \in Loops : Position(l)
  BY DEF IInv
<1>1. TypeOK'
  BY <1>0, TypeStep
<1> DEFINE Frame == \A l \in Loops :
             /\ pc'[l] = "write" =>
                  /\ pc[l] = "write" /\ handler'[l] = handler[l]
                  /\ stamp'[l] = stamp[l] /\ points'[l] = points[l]
             /\ pc'[l] # "write" => points'[l] = {}
             /\ pc'[l] = "update" => handler'[l] \in Symbols
<1>2. ASSUME exchange' = exchange, store' = store, UNCHANGED history, Frame
      PROVE  IInv'
  BY <1>1, <1>2, FrameStep
<1>3. ASSUME UNCHANGED local PROVE Frame
  BY <1>0, <1>3 DEF local, Position
<1>4. ASSUME NEW s \in Symbols, AddHandler(s) PROVE IInv'
  BY <1>2, <1>3, <1>4 DEF AddHandler
<1>5. ASSUME NEW l \in Loops, Select(l) PROVE IInv'
  <2>1. Frame
    BY <1>0, <1>5 DEF Select, Goto, Position, TypeOK
  <2> QED
    BY <1>2, <1>5, <2>1 DEF Select
<1>6. ASSUME NEW l \in Loops, MessageHandled(l) PROVE IInv'
  <2>1. Frame
    BY <1>0, <1>6 DEF MessageHandled, Goto, Position, TypeOK
  <2> QED
    BY <1>2, <1>6, <2>1 DEF MessageHandled
<1>7. ASSUME NEW l \in Loops, NEW m \in Messages, ReadMessage(l, m) PROVE IInv'
  <2>1. Frame
    BY <1>0, <1>7 DEF ReadMessage, Goto, Position, TypeOK
  <2> QED
    BY <1>2, <1>7, <2>1 DEF ReadMessage
<1>8. ASSUME NEW l \in Loops, NEW s \in Symbols, CallHandler(l, s) PROVE IInv'
  <2>1. Frame
    BY <1>0, <1>8 DEF CallHandler, Goto, Position, TypeOK
  <2> QED
    BY <1>2, <1>8, <2>1 DEF CallHandler
<1>9. ASSUME NEW l \in Loops, ConvertToOrderBookData(l) PROVE IInv'
  BY <1>1, <1>9, ConvertKeeps
<1>10. ASSUME NEW l \in Loops, WritePoint(l) PROVE IInv'
  BY <1>1, <1>10, WritePointKeeps
<1>11. ASSUME NEW l \in Loops, WriteFails(l) PROVE IInv'
  BY <1>1, <1>11, WriteFailsKeeps
<1>12. ASSUME NEW l \in Loops, BookSaved(l) PROVE IInv'
  BY <1>1, <1>12, BookSavedKeeps
<1>13. ASSUME NEW l \in Loops, HandlerReturns(l) PROVE IInv'
  <2>1. Frame
    BY <1>0, <1>13 DEF HandlerReturns, Goto, Position, TypeOK
  <2> QED
    BY <1>2, <1>13, <2>1 DEF HandlerReturns
<1>14. CASE Tick
  BY <1>2, <1>3, <1>14 DEF Tick
<1>15. CASE Cancel
  BY <1>2, <1>3, <1>15 DEF Cancel
<1>16. CASE Restart
  <2>1. \A l \in Loops : pc'[l] = "select" /\ points'[l] = {}
    BY <1>16, BegunIs DEF Restart
  <2> QED
    BY <1>2, <1>16, <2>1 DEF Restart
<1>17. CASE UNCHANGED vars
  BY <1>2, <1>3, <1>17 DEF vars
<1> QED
  BY <1>4, <1>5, <1>6, <1>7, <1>8, <1>9, <1>10, <1>11, <1>12, <1>13, <1>14, <1>15,
     <1>16, <1>17 DEF Next, Loop

LEMMA Invariance == Spec => []IInv
<1>1. Init => IInv
  BY InitInv
<1>2. IInv /\ [Next]_vars => IInv'
  BY InvStep
<1> QED
  BY <1>1, <1>2, PTL DEF Spec

\* The types of all variables, for every number of loops, pairs and updates.
THEOREM TypeCorrect == Spec => []TypeOK
<1>1. IInv => TypeOK
  BY DEF IInv
<1> QED
  BY <1>1, Invariance, PTL

\* A deleted order or one that could not be read never gets into the database,
\* whichever loops, failures and restarts the books are written under.
THEOREM OnlyOrdersStored == Spec => []OnlySentOrders
<1>1. IInv => OnlySentOrders
  BY DEF IInv
<1> QED
  BY <1>1, Invariance, PTL

\* How much is lost: of every book of any length that was saved without an error,
\* with a stamp of its own, at most one order of each side is in the database, the
\* one sent last.  The points of a side, which InfluxDB.SaveOrderBook writes with
\* the same measurement, tags and time, replace one another.
THEOREM LastLevelLeft == Spec => []LastLevelIsLeft
<1>1. IInv => LastLevelIsLeft
  BY DEF IInv
<1> QED
  BY <1>1, Invariance, PTL

\* Wherever the writing of a book was broken off, a beginning of it is stored, and
\* no ask before the last of its bids.
THEOREM BeginningStored == Spec => []BeginningIsStored
<1>1. IInv => BeginningIsStored
  BY DEF IInv
<1> QED
  BY <1>1, Invariance, PTL

=============================================================================
