------------------------ MODULE MatchingEngineProofs ------------------------
(***************************************************************************)
(* Proofs about MatchingEngine and ClientBook, for all clients, tickers,   *)
(* prices and quantities.                                                  *)
(*                                                                         *)
(* The first part covers every book: the lists of the levels name exactly  *)
(* the orders of the hash map, and every method of a book keeps them so,   *)
(* or finds a pointer to a level that is gone.                             *)
(*                                                                         *)
(* The second part, from "Rings" on, is about the order of the levels.     *)
(* The code breaks it in two ways: two prices can share an entry of the    *)
(* hash map of levels, and the first comparison of addOrdersAtPrice()      *)
(* forgets the side.  What is proved of a book holds until the first of    *)
(* them happens to it, which the variable spoiled tells.                   *)
(*                                                                         *)
(* The third part, from "The copy of a book" on, is about the client's     *)
(* book, which it shows to be the image of the engine's under CopyOf until *)
(* besides an id is given out that is in use, which the variable           *)
(* overwritten tells.  It assumes that there is one ticker.                *)
(***************************************************************************)
EXTENDS ClientBook, SequenceTheorems, FiniteSetTheorems, WellFoundedInduction, TLAPS

-----------------------------------------------------------------------------
(* Induction on numbers.                                                   *)

\* A set of numbers has a smallest one.
LEMMA Least ==
    ASSUME NEW T \in SUBSET Nat, T # {}
    PROVE  \E x \in T : \A y \in T : x <= y
<1>1. PICK x \in T : \A y \in T : ~ (<<y, x>> \in OpToRel(<, Nat))
  BY WFMin, NatLessThanWellFounded
<1>2. ASSUME NEW y \in T PROVE x <= y
  <2>1. <<y, x>> \notin {ss \in Nat \X Nat : ss[1] < ss[2]}
    BY <1>1 DEF OpToRel
  <2>2. <<y, x>> \in Nat \X Nat /\ <<y, x>>[1] = y /\ <<y, x>>[2] = x
    OBVIOUS
  <2>3. ~(y < x)
    BY <2>1, <2>2
  <2>4. QED BY <2>3
<1>3. QED BY <1>2

\* A function that gives from a value the next one can be followed n times.
LEMMA Iteration ==
    ASSUME NEW V, NEW v0 \in V, NEW f \in [V -> V], NEW n \in Nat
    PROVE  \E g \in [0 .. n -> V] : g[0] = v0 /\ \A k \in 1 .. n : g[k] = f[g[k - 1]]
<1> DEFINE Sol(m) == {g \in [0 .. m -> V] : g[0] = v0 /\ \A k \in 1 .. m : g[k] = f[g[k - 1]]}
           Bad == {m \in Nat : Sol(m) = {}}
<1>1. SUFFICES ASSUME n \in Bad PROVE FALSE
  OBVIOUS
<1>2. PICK x \in Bad : \A y \in Bad : x <= y
  BY <1>1, Least
<1>3. x # 0
  <2>1. [k \in 0 .. 0 |-> v0] \in Sol(0)
    OBVIOUS
  <2>2. QED BY <1>2, <2>1
<1>4. x - 1 \in Nat /\ x - 1 \notin Bad
  <2>1. x \in Nat /\ x - 1 \in Nat
    BY <1>2, <1>3
  <2> HIDE DEF Bad
  <2>2. QED BY <1>2, <2>1
<1>5. PICK g \in Sol(x - 1) : TRUE
  BY <1>4
<1> DEFINE h == [k \in 0 .. x |-> IF k = x THEN f[g[x - 1]] ELSE g[k]]
<1>6. g \in [0 .. x - 1 -> V] /\ x - 1 \in 0 .. x - 1 /\ f[g[x - 1]] \in V
  BY <1>4, <1>5
<1>7. h \in [0 .. x -> V] /\ h[0] = v0
  BY <1>3, <1>4, <1>5, <1>6
<1>8. ASSUME NEW k \in 1 .. x PROVE h[k] = f[h[k - 1]]
  <2>1. CASE k = x
    <3>1. h[k] = f[g[x - 1]] /\ h[k - 1] = g[x - 1]
      BY <1>4, <2>1
    <3>2. QED BY <3>1
  <2>2. CASE k # x
    <3>1. k \in 1 .. x - 1 /\ k - 1 \in 0 .. x - 1
      BY <1>4, <2>2
    <3>2. h[k] = g[k] /\ h[k - 1] = g[k - 1]
      BY <1>4, <3>1
    <3>3. QED BY <1>5, <3>1, <3>2
  <2>3. QED BY <2>1, <2>2
<1>9. h \in Sol(x)
  BY <1>7, <1>8
<1>10. QED BY <1>2, <1>9

-----------------------------------------------------------------------------
(* Books: the links of their levels.                                       *)

\* The fields of a book.
LEMMA BookFields ==
    ASSUME NEW book \in Books
    PROVE  /\ book.orders \in [Keys -> OrderRecords \cup {Null}]
           /\ book.levels \in [LevelIndices -> LevelRecords \cup {Null}]
           /\ book.bids \in LevelIndices \cup {Null}
           /\ book.asks \in LevelIndices \cup {Null}
           /\ book.next_market_order_id_ \in Nat \ {0}
           /\ book.fault \in BOOLEAN
           /\ \A i \in Levels(book) : i \in LevelIndices /\ book.levels[i] \in LevelRecords
           /\ \A k \in Live(book) : k \in Keys /\ book.orders[k] \in OrderRecords
           /\ DOMAIN book.orders = Keys
BY DEF Books, Levels, Live

\* What it means that no pointer dangles.
LEMMA TiedMeans ==
    ASSUME NEW book \in Books
    PROVE  ~Dangles(book) <=>
             /\ \A i \in Levels(book) : /\ book.levels[i].next \in Levels(book)
                                        /\ book.levels[i].prev \in Levels(book)
             /\ book.bids # Null => book.bids \in Levels(book)
             /\ book.asks # Null => book.asks \in Levels(book)
<1>1. /\ \A i \in Levels(book) : /\ book.levels[i].next \in LevelIndices
                                 /\ book.levels[i].prev \in LevelIndices
      /\ book.bids \in LevelIndices \cup {Null}
      /\ book.asks \in LevelIndices \cup {Null}
  BY BookFields DEF LevelRecords
<1>2. \A i \in LevelIndices : i # Null /\ (i \in Levels(book) <=> book.levels[i] # Null)
  BY NullAssumption DEF Levels
<1>3. QED BY <1>1, <1>2 DEF Dangles

\* A walk along next, step by step.
LEMMA HopSteps ==
    ASSUME NEW book \in Books, ~Dangles(book), NEW best \in Levels(book)
    PROVE  /\ Hop(book, best)[0] = best
           /\ \A n \in 1 .. MaxPriceLevels :
                 Hop(book, best)[n] = book.levels[Hop(book, best)[n - 1]].next
           /\ Hop(book, best) =
                 [n \in 0 .. MaxPriceLevels |->
                     IF n = 0 THEN best ELSE book.levels[Hop(book, best)[n - 1]].next]
<1> DEFINE f == [i \in Levels(book) |-> book.levels[i].next]
           hop == Hop(book, best)
<1>0. MaxPriceLevels \in Nat
  BY LevelsAssumption
<1>1. f \in [Levels(book) -> Levels(book)]
  BY TiedMeans
<1>2. PICK g \in [0 .. MaxPriceLevels -> Levels(book)] :
         g[0] = best /\ \A k \in 1 .. MaxPriceLevels : g[k] = f[g[k - 1]]
  <2> HIDE DEF f
  <2>1. QED BY <1>0, <1>1, Iteration
<1>3. ASSUME NEW n \in 0 .. MaxPriceLevels
      PROVE  g[n] = IF n = 0 THEN best ELSE book.levels[g[n - 1]].next
  <2>1. CASE n = 0
    BY <1>2, <2>1
  <2>2. CASE n # 0
    <3>1. n \in 1 .. MaxPriceLevels /\ n - 1 \in 0 .. MaxPriceLevels
      BY <1>0, <2>2
    <3>2. QED BY <1>2, <2>2, <3>1
  <2>3. QED BY <2>1, <2>2
<1>4. g = [n \in 0 .. MaxPriceLevels |-> IF n = 0 THEN best ELSE book.levels[g[n - 1]].next]
  BY <1>2, <1>3
<1>5. hop = [n \in 0 .. MaxPriceLevels |-> IF n = 0 THEN best ELSE book.levels[hop[n - 1]].next]
  BY <1>4 DEF Hop
<1> HIDE DEF hop, f
<1>6. hop[0] = best
  BY <1>0, <1>5
<1>7. ASSUME NEW n \in 1 .. MaxPriceLevels PROVE hop[n] = book.levels[hop[n - 1]].next
  <2>1. n \in 0 .. MaxPriceLevels /\ n # 0
    BY <1>0
  <2>2. QED BY <1>5, <2>1
<1>8. QED BY <1>5, <1>6, <1>7 DEF hop

\* It does not leave a set of levels that is closed under next.
LEMMA HopStaysIn ==
    ASSUME NEW book \in Books, ~Dangles(book), NEW E \in SUBSET Levels(book),
           \A i \in E : book.levels[i].next \in E, NEW best \in E
    PROVE  \A n \in 0 .. MaxPriceLevels : Hop(book, best)[n] \in E
<1> DEFINE hop == Hop(book, best)
           Bad == {n \in 0 .. MaxPriceLevels : hop[n] \notin E}
<1>0. MaxPriceLevels \in Nat
  BY LevelsAssumption
<1>1. /\ hop[0] = best
      /\ \A n \in 1 .. MaxPriceLevels : hop[n] = book.levels[hop[n - 1]].next
  BY HopSteps
<1> HIDE DEF hop
<1>2. SUFFICES ASSUME Bad # {} PROVE FALSE
  BY DEF hop
<1>3. PICK x \in Bad : \A y \in Bad : x <= y
  <2>1. Bad \in SUBSET Nat
    BY <1>0
  <2> HIDE DEF Bad
  <2>2. QED BY <1>2, <2>1, Least
<1>4. x \in 0 .. MaxPriceLevels /\ hop[x] \notin E /\ x # 0
  BY <1>1, <1>3
<1>5. x - 1 \in 0 .. MaxPriceLevels /\ x - 1 \notin Bad /\ x \in 1 .. MaxPriceLevels
  BY <1>0, <1>3, <1>4
<1>6. hop[x - 1] \in E
  BY <1>5
<1>7. QED BY <1>1, <1>4, <1>5, <1>6

\* A walk meets levels that exist.
LEMMA HopStays ==
    ASSUME NEW book \in Books, ~Dangles(book), NEW best \in Levels(book)
    PROVE  \A n \in 0 .. MaxPriceLevels : Hop(book, best)[n] \in Levels(book)
<1>1. \A i \in Levels(book) : book.levels[i].next \in Levels(book)
  BY TiedMeans
<1>2. QED BY <1>1, HopStaysIn

\* The search for the place of a level stops, if it does, at the first of its
\* stops.
LEMMA SmallestStop ==
    ASSUME NEW T \in SUBSET Nat, T # {}
    PROVE  Smallest(T) \in T
BY Least DEF Smallest

\* levels has a level at the indices E and nowhere else.
LevelMap(levels, E) ==
    /\ levels \in [LevelIndices -> LevelRecords \cup {Null}]
    /\ E \subseteq LevelIndices
    /\ \A i \in LevelIndices : IF i \in E THEN levels[i] \in LevelRecords ELSE levels[i] = Null

\* The links of the levels E lead to levels of E.
LinksIn(levels, E) == \A i \in E : levels[i].next \in E /\ levels[i].prev \in E

\* The levels E have the same orders before and after.
SameLists(before, after, E) == \A i \in E : after[i].orders = before[i].orders

\* Link() ties two levels and leaves the orders of all of them alone.
LEMMA LinkKeeps ==
    ASSUME NEW levels, NEW E, LevelMap(levels, E), LinksIn(levels, E), NEW from \in E, NEW to \in E
    PROVE  /\ LevelMap(Link(levels, from, to), E)
           /\ LinksIn(Link(levels, from, to), E)
           /\ SameLists(levels, Link(levels, from, to), E)
<1> DEFINE one == [levels EXCEPT ![from].next = to]
           two == [one EXCEPT ![to].prev = from]
<1>1. /\ one \in [LevelIndices -> LevelRecords \cup {Null}]
      /\ \A i \in LevelIndices : i # from => one[i] = levels[i]
      /\ one[from] \in LevelRecords /\ one[from].next = to
      /\ one[from].prev = levels[from].prev /\ one[from].orders = levels[from].orders
  BY DEF LevelMap, LevelRecords
<1>2. /\ two \in [LevelIndices -> LevelRecords \cup {Null}]
      /\ \A i \in LevelIndices : i # to => two[i] = one[i]
      /\ two[to] \in LevelRecords /\ two[to].prev = from
      /\ two[to].next = one[to].next /\ two[to].orders = one[to].orders
  BY <1>1 DEF LevelMap, LevelRecords
<1>3. Link(levels, from, to) = two
  BY DEF Link
<1> HIDE DEF one, two
<1>4. E \subseteq LevelIndices
  BY DEF LevelMap
<1>5. LevelMap(two, E)
  BY <1>1, <1>2, <1>4 DEF LevelMap
<1>6. LinksIn(two, E)
  BY <1>1, <1>2, <1>4 DEF LinksIn
<1>7. SameLists(levels, two, E)
  BY <1>1, <1>2, <1>4 DEF SameLists
<1>8. QED BY <1>3, <1>5, <1>6, <1>7

\* So do the two ways to tie a level in.
LEMMA InsertKeeps ==
    ASSUME NEW levels, NEW E, LevelMap(levels, E), LinksIn(levels, E), NEW at \in E, NEW new \in E
    PROVE  /\ LevelMap(InsertLast(levels, at, new), E)
           /\ LinksIn(InsertLast(levels, at, new), E)
           /\ SameLists(levels, InsertLast(levels, at, new), E)
           /\ LevelMap(InsertBefore(levels, at, new), E)
           /\ LinksIn(InsertBefore(levels, at, new), E)
           /\ SameLists(levels, InsertBefore(levels, at, new), E)
<1> DEFINE prev == levels[at].prev
           one  == Link(levels, prev, new)
<1>1. prev \in E /\ levels[prev].next \in E
  BY DEF LinksIn
<1>2. LevelMap(one, E) /\ LinksIn(one, E) /\ SameLists(levels, one, E)
  BY <1>1, LinkKeeps
<1>3. ASSUME NEW to \in E
      PROVE  /\ LevelMap(Link(one, new, to), E) /\ LinksIn(Link(one, new, to), E)
             /\ SameLists(levels, Link(one, new, to), E)
  <2>1. /\ LevelMap(Link(one, new, to), E) /\ LinksIn(Link(one, new, to), E)
        /\ SameLists(one, Link(one, new, to), E)
    BY <1>2, LinkKeeps
  <2>2. QED BY <1>2, <2>1 DEF SameLists
<1>4. InsertLast(levels, at, new) = Link(one, new, levels[prev].next)
  BY DEF InsertLast
<1>5. InsertBefore(levels, at, new) = Link(one, new, at)
  BY DEF InsertBefore
<1> HIDE DEF one, prev
<1>6. QED BY <1>1, <1>3, <1>4, <1>5

\* after is book with the level new and its list, all else being as it was.
Grown(book, after, new, list) ==
    /\ after.fault = book.fault
    /\ ~Dangles(after)
    /\ Levels(after) = Levels(book) \cup {new}
    /\ after.levels[new].orders = list
    /\ SameLists(book.levels, after.levels, Levels(book))

\* The orders and the counter of a book are as they were.
SameOrders(book, after) ==
    /\ after \in Books
    /\ after.orders = book.orders
    /\ after.next_market_order_id_ = book.next_market_order_id_

\* A book with other levels, and perhaps another head.
LEMMA Retied ==
    ASSUME NEW book \in Books, ~Dangles(book), NEW levels, NEW new \in LevelIndices,
           LevelMap(levels, Levels(book) \cup {new}), LinksIn(levels, Levels(book) \cup {new}),
           SameLists(book.levels, levels, Levels(book)), NEW side \in Sides,
           NEW head \in Levels(book) \cup {new}
    PROVE  LET plain == [book EXCEPT !.levels = levels]
               moved == SetBest(plain, side, head)
           IN  /\ SameOrders(book, plain) /\ Grown(book, plain, new, levels[new].orders)
               /\ SameOrders(book, moved) /\ Grown(book, moved, new, levels[new].orders)
<1> DEFINE plain == [book EXCEPT !.levels = levels]
           moved == SetBest(plain, side, head)
           E == Levels(book) \cup {new}
<1>1. levels \in [LevelIndices -> LevelRecords \cup {Null}] /\ E \subseteq LevelIndices
  BY DEF LevelMap
<1>2. ASSUME NEW b \in Books, b.levels = levels, b.fault = book.fault,
             b.bids # Null => b.bids \in E, b.asks # Null => b.asks \in E
      PROVE  Grown(book, b, new, levels[new].orders)
  <2>1. Levels(b) = E
    BY <1>1, <1>2, NullAssumption DEF LevelMap, Levels
  <2>2. ~Dangles(b)
    BY <1>2, <2>1, TiedMeans DEF LinksIn
  <2>3. QED BY <1>2, <2>1, <2>2 DEF Grown
<1>3. /\ book.bids # Null => book.bids \in E
      /\ book.asks # Null => book.asks \in E
  BY TiedMeans
<1>4. /\ plain \in Books /\ plain.levels = levels /\ plain.fault = book.fault
      /\ plain.bids = book.bids /\ plain.asks = book.asks
      /\ SameOrders(book, plain)
  BY <1>1 DEF Books, SameOrders
<1>5. /\ moved \in Books /\ moved.levels = levels /\ moved.fault = book.fault
      /\ moved.bids \in {book.bids, head} /\ moved.asks \in {book.asks, head}
      /\ SameOrders(book, moved)
  <2>1. head \in LevelIndices
    BY <1>1
  <2>2. CASE side = "BUY"
    <3>1. moved = [plain EXCEPT !.bids = head]
      BY <2>2 DEF SetBest
    <3>2. QED BY <1>4, <2>1, <3>1 DEF Books, SameOrders
  <2>3. CASE side # "BUY"
    <3>1. moved = [plain EXCEPT !.asks = head]
      BY <2>3 DEF SetBest
    <3>2. QED BY <1>4, <2>1, <3>1 DEF Books, SameOrders
  <2>4. QED BY <2>2, <2>3
<1> HIDE DEF plain, moved, E
<1>6. head \in E
  BY DEF E
<1>7. Grown(book, plain, new, levels[new].orders)
  BY <1>2, <1>3, <1>4
<1>8. Grown(book, moved, new, levels[new].orders)
  BY <1>2, <1>3, <1>5, <1>6
<1>9. QED BY <1>4, <1>5, <1>7, <1>8 DEF plain, moved

\* A level is tied into its side, wherever the search for its place ends.
LEMMA InsertLevelGrows ==
    ASSUME NEW book \in Books, ~Dangles(book),
           NEW side \in Sides, NEW price \in Prices, NEW list \in Seq(Keys), NEW past \in BOOLEAN,
           priceToIndex(price) \in LevelIndices, priceToIndex(price) \notin Levels(book)
    PROVE  LET level == [side |-> side, price |-> price, orders |-> list,
                         prev |-> Null, next |-> Null]
               after == InsertLevel(book, level, past)
           IN  /\ SameOrders(book, after)
               /\ after.fault \/ Grown(book, after, priceToIndex(price), list)
<1> DEFINE level  == [side |-> side, price |-> price, orders |-> list,
                      prev |-> Null, next |-> Null]
           after  == InsertLevel(book, level, past)
           new    == priceToIndex(price)
           E      == Levels(book) \cup {new}
           best   == Best(book, side)
           fresh  == [level EXCEPT !.prev = new, !.next = new]
           levels == [book.levels EXCEPT ![new] = fresh]
           placed == [book EXCEPT !.levels = levels]
           stops  == Stops(book, side, price, best)
           stop   == Hop(book, best)[Smallest(stops)]
           last   == stop = best /\ (Smallest(stops) > 1
                                     \/ GoesAfter(side, price, book.levels[best]))
           target == IF past THEN stop ELSE best
           better == GoesAfter(Opposite(side), price, book.levels[best])
           before == InsertBefore(levels, target, new)
           relink == IF better /\ before[target].next = best
                     THEN [before EXCEPT ![target].next = new] ELSE before
           Fits(L) == /\ LevelMap(L, E) /\ LinksIn(L, E)
                      /\ SameLists(book.levels, L, Levels(book)) /\ L[new].orders = list
<1>1. fresh \in LevelRecords /\ fresh.orders = list /\ fresh.next = new /\ fresh.prev = new
  BY DEF LevelRecords
<1>2. Fits(levels)
  <2>1. /\ levels \in [LevelIndices -> LevelRecords \cup {Null}]
        /\ levels[new] = fresh
        /\ \A i \in LevelIndices : i # new => levels[i] = book.levels[i]
        /\ E \subseteq LevelIndices
    <3> HIDE DEF fresh
    <3>1. QED BY <1>1, BookFields DEF Levels
  <2>2. \A i \in LevelIndices : IF i \in Levels(book) THEN book.levels[i] \in LevelRecords
                                ELSE book.levels[i] = Null
    BY BookFields DEF Levels
  <2> HIDE DEF levels, fresh
  <2>3. LevelMap(levels, E)
    BY <1>1, <2>1, <2>2 DEF LevelMap
  <2>4. LinksIn(levels, E)
    BY <1>1, <2>1, TiedMeans DEF LinksIn
  <2>5. SameLists(book.levels, levels, Levels(book))
    BY <2>1 DEF SameLists, Levels
  <2>6. QED BY <1>1, <2>1, <2>3, <2>4, <2>5
<1>3. ASSUME NEW at \in E
      PROVE  /\ Fits(InsertLast(levels, at, new))
             /\ Fits(InsertBefore(levels, at, new))
  <2> HIDE DEF levels
  <2>1. new \in E
    OBVIOUS
  <2>2. /\ LevelMap(InsertLast(levels, at, new), E)
        /\ LinksIn(InsertLast(levels, at, new), E)
        /\ SameLists(levels, InsertLast(levels, at, new), E)
        /\ LevelMap(InsertBefore(levels, at, new), E)
        /\ LinksIn(InsertBefore(levels, at, new), E)
        /\ SameLists(levels, InsertBefore(levels, at, new), E)
    <3> HIDE DEF E
    <3>1. QED BY <1>2, <2>1, InsertKeeps
  <2>3. QED BY <1>2, <2>2 DEF SameLists
<1>4. ASSUME NEW L, Fits(L), NEW head \in E
      PROVE  /\ SameOrders(book, SetBest([book EXCEPT !.levels = L], side, head))
             /\ Grown(book, SetBest([book EXCEPT !.levels = L], side, head), new, list)
             /\ SameOrders(book, [book EXCEPT !.levels = L])
             /\ Grown(book, [book EXCEPT !.levels = L], new, list)
  BY <1>4, Retied
<1>5. /\ level.side = side /\ level.price = price
      /\ [placed EXCEPT !.levels = relink] = [book EXCEPT !.levels = relink]
      /\ [placed EXCEPT !.levels = InsertLast(levels, best, new)]
            = [book EXCEPT !.levels = InsertLast(levels, best, new)]
  <2> HIDE DEF relink, levels
  <2>1. QED BY DEF Books
<1>6. after = IF best = Null THEN SetBest(placed, side, new)
              ELSE IF ~past \/ (stops # {} /\ ~last)
                   THEN SetBest([placed EXCEPT !.levels = relink], side,
                                IF better THEN new ELSE best)
              ELSE IF stops = {} THEN [book EXCEPT !.fault = TRUE]
              ELSE [placed EXCEPT !.levels = InsertLast(levels, best, new)]
  BY DEF InsertLevel
<1> HIDE DEF after, levels, level, stops
<1>7. CASE best = Null
  BY <1>2, <1>4, <1>6, <1>7 DEF after, level
<1>8. CASE best # Null
  <2>1. best \in Levels(book)
    BY <1>8, TiedMeans DEF Best
  <2>2. stops # {} => stop \in Levels(book)
    <3>1. stops \in SUBSET Nat /\ stops \in SUBSET (0 .. MaxPriceLevels)
      BY LevelsAssumption DEF stops, Stops
    <3>2. stops # {} => Smallest(stops) \in 0 .. MaxPriceLevels
      BY <3>1, SmallestStop
    <3>3. QED BY <2>1, <3>2, HopStays
  <2>3. CASE ~past \/ (stops # {} /\ ~last)
    <3>1. target \in E
      BY <2>1, <2>2, <2>3
    <3>2. Fits(before)
      BY <1>3, <3>1
    <3> HIDE DEF before, target, better
    <3>3. Fits(relink)
      <4>1. CASE relink = before
        BY <3>2, <4>1
      <4>2. CASE relink = [before EXCEPT ![target].next = new]
        <5>1. E \subseteq LevelIndices /\ before \in [LevelIndices -> LevelRecords \cup {Null}]
          BY <3>2 DEF LevelMap
        <5>2. before[target] \in LevelRecords
          BY <3>1, <3>2, <5>1 DEF LevelMap
        <5>3. /\ relink \in [LevelIndices -> LevelRecords \cup {Null}]
              /\ \A i \in LevelIndices : i # target => relink[i] = before[i]
              /\ relink[target] \in LevelRecords /\ relink[target].next = new
              /\ relink[target].prev = before[target].prev
              /\ relink[target].orders = before[target].orders
          <6> HIDE DEF E, relink, new
          <6>1. target \in LevelIndices /\ new \in LevelIndices
            BY <3>1, <5>1 DEF new
          <6>2. QED BY <4>2, <5>1, <5>2, <6>1 DEF LevelRecords
        <5> HIDE DEF relink
        <5>4. LevelMap(relink, E)
          BY <3>1, <3>2, <5>1, <5>3 DEF LevelMap
        <5>5. LinksIn(relink, E)
          BY <3>1, <3>2, <5>1, <5>3 DEF LinksIn
        <5>6. SameLists(before, relink, E)
          BY <3>1, <5>1, <5>3 DEF SameLists
        <5>7. QED BY <3>2, <5>4, <5>5, <5>6 DEF SameLists
      <4>3. QED BY <4>1, <4>2
    <3> HIDE DEF relink
    <3>4. (IF better THEN new ELSE best) \in E
      BY <2>1
    <3>5. QED BY <1>4, <1>5, <1>6, <1>8, <2>3, <3>3, <3>4 DEF after, level
  <2>4. CASE ~(~past \/ (stops # {} /\ ~last)) /\ stops = {}
    <3>1. after = [book EXCEPT !.fault = TRUE]
      BY <1>6, <1>8, <2>4
    <3>2. SameOrders(book, after) /\ after.fault
      BY <3>1 DEF SameOrders, Books
    <3>3. QED BY <3>2 DEF after, level
  <2>5. CASE ~(~past \/ (stops # {} /\ ~last)) /\ stops # {}
    <3>1. after = [book EXCEPT !.levels = InsertLast(levels, best, new)]
      BY <1>5, <1>6, <1>8, <2>5
    <3>2. Fits(InsertLast(levels, best, new)) /\ best \in E
      BY <1>3, <2>1
    <3>3. QED BY <1>4, <3>1, <3>2 DEF after, level
  <2>6. QED BY <2>3, <2>4, <2>5
<1>9. QED BY <1>7, <1>8

-----------------------------------------------------------------------------
(* Books: their orders.                                                    *)

\* The lists of the levels name the orders of the hash map, and no others,
\* each at the index of its price.
Filed(book) ==
    /\ \A i \in Levels(book) :
          /\ book.levels[i].orders # << >>
          /\ \A n \in DOMAIN book.levels[i].orders :
                /\ book.levels[i].orders[n] \in Live(book)
                /\ priceToIndex(book.orders[book.levels[i].orders[n]].price) = i
    /\ \A k \in Live(book) :
          /\ priceToIndex(book.orders[k].price) \in Levels(book)
          /\ \E n \in DOMAIN book.levels[priceToIndex(book.orders[k].price)].orders :
                book.levels[priceToIndex(book.orders[k].price)].orders[n] = k

\* A book as long as the process lives.
InOrder(book) == ~Dangles(book) /\ Filed(book) /\ InTime(book)

\* The index of a price.
LEMMA IndexInRange == ASSUME NEW price \in Prices PROVE priceToIndex(price) \in LevelIndices
<1>1. price \in Nat /\ MaxPriceLevels \in Nat /\ MaxPriceLevels > 0
  BY OrdersAssumption, LevelsAssumption DEF Prices
<1>2. QED BY <1>1 DEF priceToIndex, LevelIndices

\* A list without the order at place m.
LEMMA UnlinkedParts ==
    ASSUME NEW S, NEW s \in Seq(S), NEW m \in DOMAIN s, \A i, j \in DOMAIN s : s[i] = s[j] => i = j
    PROVE  /\ Unlinked(s, s[m]) \in Seq(S)
           /\ Len(Unlinked(s, s[m])) = Len(s) - 1
           /\ \A i \in 1 .. Len(s) - 1 : Unlinked(s, s[m])[i] = IF i < m THEN s[i] ELSE s[i + 1]
<1> DEFINE front == SubSeq(s, 1, m - 1)
           back  == SubSeq(s, m + 1, Len(s))
<1>0. Len(s) \in Nat /\ m \in 1 .. Len(s)
  OBVIOUS
<1>1. (CHOOSE n \in DOMAIN s : s[n] = s[m]) = m
  OBVIOUS
<1>2. Unlinked(s, s[m]) = front \o back
  BY <1>1 DEF Unlinked, RemoveAt
<1>3. /\ front \in Seq(S) /\ Len(front) = m - 1
      /\ \A i \in 1 .. m - 1 : front[i] = s[i]
  BY <1>0, SubSeqProperties
<1>4. /\ back \in Seq(S) /\ Len(back) = Len(s) - m
      /\ \A i \in 1 .. Len(s) - m : back[i] = s[m + i]
  BY <1>0, SubSeqProperties
<1> HIDE DEF front, back
<1>5. /\ front \o back \in Seq(S) /\ Len(front \o back) = Len(s) - 1
      /\ \A i \in 1 .. Len(s) - 1 :
            (front \o back)[i] = IF i <= Len(front) THEN front[i] ELSE back[i - Len(front)]
  <2>1. /\ front \o back \in Seq(S) /\ Len(front \o back) = Len(front) + Len(back)
        /\ \A i \in 1 .. Len(front) + Len(back) :
              (front \o back)[i] = IF i <= Len(front) THEN front[i] ELSE back[i - Len(front)]
    BY <1>3, <1>4, ConcatProperties, ZenonT(60)
  <2>2. Len(front) + Len(back) = Len(s) - 1
    BY <1>0, <1>3, <1>4
  <2>3. QED BY <2>1, <2>2
<1>6. ASSUME NEW i \in 1 .. Len(s) - 1
      PROVE  (front \o back)[i] = IF i < m THEN s[i] ELSE s[i + 1]
  <2>1. CASE i < m
    BY <1>0, <1>3, <1>5, <2>1
  <2>2. CASE ~(i < m)
    <3>1. i - (m - 1) \in 1 .. Len(s) - m /\ m + (i - (m - 1)) = i + 1
      BY <1>0, <2>2
    <3>2. QED BY <1>0, <1>3, <1>4, <1>5, <2>2, <3>1
  <2>3. QED BY <2>1, <2>2
<1>7. QED BY <1>2, <1>5, <1>6

\* What is in such a list, and in which order.
LEMMA UnlinkedOrder ==
    ASSUME NEW s \in Seq(Keys), NEW m \in DOMAIN s, \A i, j \in DOMAIN s : s[i] = s[j] => i = j
    PROVE  LET u == Unlinked(s, s[m])
           IN  /\ u \in Seq(Keys)
               /\ (u = << >>) => \A n \in DOMAIN s : n = m
               /\ \A i \in DOMAIN u : \E n \in DOMAIN s : n # m /\ u[i] = s[n]
               /\ \A n \in DOMAIN s : n # m => \E i \in DOMAIN u : u[i] = s[n]
               /\ \A i, j \in DOMAIN u : i < j =>
                     \E n, o \in DOMAIN s : n < o /\ u[i] = s[n] /\ u[j] = s[o]
<1> DEFINE u == Unlinked(s, s[m])
           at(i) == IF i < m THEN i ELSE i + 1
<1>0. Len(s) \in Nat /\ DOMAIN s = 1 .. Len(s) /\ m \in 1 .. Len(s)
  OBVIOUS
<1>1. /\ u \in Seq(Keys) /\ Len(u) = Len(s) - 1 /\ DOMAIN u = 1 .. Len(s) - 1
      /\ \A i \in 1 .. Len(s) - 1 : u[i] = IF i < m THEN s[i] ELSE s[i + 1]
  BY UnlinkedParts
<1> HIDE DEF u
<1>2. \A i \in DOMAIN u : at(i) \in DOMAIN s /\ at(i) # m /\ u[i] = s[at(i)]
  BY <1>0, <1>1
<1>3. \A i, j \in DOMAIN u : i < j => at(i) < at(j)
  BY <1>0, <1>1
<1>4. ASSUME NEW n \in DOMAIN s, n # m PROVE \E i \in DOMAIN u : u[i] = s[n]
  <2>1. CASE n < m
    <3>1. n \in DOMAIN u /\ u[n] = s[n]
      BY <1>0, <1>1, <2>1
    <3>2. QED BY <3>1
  <2>2. CASE n > m
    <3>1. n - 1 \in DOMAIN u /\ u[n - 1] = s[n]
      BY <1>0, <1>1, <2>2
    <3>2. QED BY <3>1
  <2>3. QED BY <1>0, <1>4, <2>1, <2>2
<1>5. (u = << >>) => \A n \in DOMAIN s : n = m
  BY <1>4
<1> HIDE DEF at
<1>6. QED BY <1>1, <1>2, <1>3, <1>4, <1>5 DEF u

\* Orders that come in time are different, and so is the place of each.
LEMMA InTimeDistinct ==
    ASSUME NEW book \in Books, InTime(book), NEW i \in Levels(book)
    PROVE  \A m, n \in DOMAIN book.levels[i].orders :
              book.levels[i].orders[m] = book.levels[i].orders[n] => m = n
<1> DEFINE s == book.levels[i].orders
<1>1. s \in Seq(Keys)
  BY BookFields DEF LevelRecords
<1>2. \A m, n \in DOMAIN s : m < n => s[m][2] < s[n][2]
  BY DEF InTime
<1>3. \A m \in DOMAIN s : m \in Nat /\ s[m] \in Keys
  BY <1>1
<1>4. \A k \in Keys : k[2] \in Int
  BY OrdersAssumption DEF Keys, OrderIds
<1> HIDE DEF s
<1>5. ASSUME NEW m \in DOMAIN s, NEW n \in DOMAIN s, s[m] = s[n] PROVE m = n
  <2>1. ~(m < n) /\ ~(n < m)
    BY <1>2, <1>3, <1>4, <1>5
  <2>2. QED BY <1>3, <2>1
<1>6. QED BY <1>5 DEF s

\* What an order that leaves changes: its entry, its place in the list of its
\* level, and the level when it was the only one.
Removed(book, after, key) ==
    /\ after \in Books
    /\ after.orders = [book.orders EXCEPT ![key] = Null]
    /\ after.next_market_order_id_ = book.next_market_order_id_
    /\ after.fault \/ InOrder(after)

\* A level with nobody in it leaves the hash map of levels.
LEMMA RemoveLevelKeeps ==
    ASSUME NEW book \in Books, ~Dangles(book), NEW side \in Sides, NEW price \in Prices,
           priceToIndex(price) \in Levels(book)
    PROVE  LET after == removeOrdersAtPrice(book, side, price)
           IN  /\ SameOrders(book, after)
               /\ after.fault = book.fault
               /\ Levels(after) = Levels(book) \ {priceToIndex(price)}
               /\ SameLists(book.levels, after.levels, Levels(book) \ {priceToIndex(price)})
<1> DEFINE index    == priceToIndex(price)
           level    == book.levels[index]
           best     == Best(book, side)
           tied     == Link(book.levels, level.prev, level.next)
           unlinked == [tied EXCEPT ![index] = Null]
           alone    == [book.levels EXCEPT ![index] = Null]
           E        == Levels(book)
           after    == removeOrdersAtPrice(book, side, price)
<1>1. /\ index \in LevelIndices /\ level \in LevelRecords /\ level.prev \in E /\ level.next \in E
      /\ level.next \in LevelIndices /\ level.prev \in LevelIndices
      /\ best \in LevelIndices \cup {Null}
  BY BookFields, TiedMeans DEF LevelRecords, Best
<1>2. LevelMap(book.levels, E) /\ LinksIn(book.levels, E)
  BY BookFields, TiedMeans DEF LevelMap, LinksIn, Levels
<1>3. LevelMap(tied, E) /\ SameLists(book.levels, tied, E)
  <2> HIDE DEF level, E
  <2>1. QED BY <1>1, <1>2, LinkKeeps
<1>4. ASSUME NEW L, LevelMap(L, E), SameLists(book.levels, L, E),
             NEW h \in LevelIndices \cup {Null}
      PROVE  LET b == SetBest([book EXCEPT !.levels = [L EXCEPT ![index] = Null]], side, h)
             IN  /\ SameOrders(book, b) /\ b.fault = book.fault
                 /\ Levels(b) = E \ {index} /\ SameLists(book.levels, b.levels, E \ {index})
  <2> DEFINE M == [L EXCEPT ![index] = Null]
             p == [book EXCEPT !.levels = M]
             b == SetBest(p, side, h)
  <2>1. L \in [LevelIndices -> LevelRecords \cup {Null}]
    BY <1>4 DEF LevelMap
  <2>2. /\ M \in [LevelIndices -> LevelRecords \cup {Null}] /\ M[index] = Null
        /\ \A i \in LevelIndices : i # index => M[i] = L[i]
    BY <1>1, <2>1
  <2> HIDE DEF M
  <2>3. p \in Books /\ p.levels = M /\ p.fault = book.fault /\ SameOrders(book, p)
    BY <2>2 DEF Books, SameOrders
  <2>4. b \in Books /\ b.levels = M /\ b.fault = book.fault /\ SameOrders(book, b)
    <3> HIDE DEF p
    <3>1. CASE side = "BUY"
      <4>1. b = [p EXCEPT !.bids = h]
        BY <3>1 DEF SetBest
      <4>2. QED BY <2>3, <4>1 DEF Books, SameOrders
    <3>2. CASE side # "BUY"
      <4>1. b = [p EXCEPT !.asks = h]
        BY <3>2 DEF SetBest
      <4>2. QED BY <2>3, <4>1 DEF Books, SameOrders
    <3>3. QED BY <3>1, <3>2
  <2> HIDE DEF b
  <2>5. Levels(b) = E \ {index}
    BY <1>4, <2>2, <2>4, NullAssumption DEF Levels, LevelMap
  <2>6. SameLists(book.levels, b.levels, E \ {index})
    BY <1>4, <2>2, <2>4 DEF SameLists, Levels
  <2>7. QED BY <2>4, <2>5, <2>6 DEF b, p, M
<1>5. SameLists(book.levels, book.levels, E)
  BY DEF SameLists
<1>6. CASE level.next = index
  <2>1. after = SetBest([book EXCEPT !.levels = alone], side, Null)
    BY <1>6 DEF removeOrdersAtPrice, Books
  <2>2. QED BY <1>2, <1>4, <1>5, <2>1
<1>7. CASE level.next # index
  <2>1. after = SetBest([book EXCEPT !.levels = unlinked], side,
                        IF index = best THEN level.next ELSE best)
    BY <1>7 DEF removeOrdersAtPrice
  <2>2. (IF index = best THEN level.next ELSE best) \in LevelIndices \cup {Null}
    BY <1>1
  <2> HIDE DEF tied, after, index, best
  <2>3. QED BY <1>3, <1>4, <2>1, <2>2 DEF after, index
<1>8. QED BY <1>6, <1>7

\* The lists of before, less key, are those of book.
ListsWithout(book, before, key) ==
    /\ \A i \in Levels(book) :
          /\ i \in Levels(before)
          /\ book.levels[i].orders # << >>
          /\ \A n \in DOMAIN book.levels[i].orders :
                \E o \in DOMAIN before.levels[i].orders :
                    /\ book.levels[i].orders[n] = before.levels[i].orders[o]
                    /\ book.levels[i].orders[n] # key
          /\ \A m, n \in DOMAIN book.levels[i].orders : m < n =>
                \E o, p \in DOMAIN before.levels[i].orders :
                    /\ o < p
                    /\ book.levels[i].orders[m] = before.levels[i].orders[o]
                    /\ book.levels[i].orders[n] = before.levels[i].orders[p]
    /\ \A k \in Live(before) \ {key} :
          LET i == priceToIndex(before.orders[k].price)
          IN  i \in Levels(book) /\ \E n \in DOMAIN book.levels[i].orders :
                                        book.levels[i].orders[n] = k

\* Once its place is gone the entry of an order goes too.
LEMMA EntryGoes ==
    ASSUME NEW book \in Books, Filed(book), InTime(book), NEW key \in Keys,
           NEW b, SameOrders(book, b), b.fault = book.fault, ListsWithout(b, book, key)
    PROVE  LET result == [b EXCEPT !.orders[key] = Null]
           IN  Removed(book, [result EXCEPT !.fault = @ \/ Dangles(result)], key)
<1> DEFINE result == [b EXCEPT !.orders[key] = Null]
           after  == [result EXCEPT !.fault = @ \/ Dangles(result)]
<1>1. /\ b \in Books /\ b.orders = book.orders
      /\ b.next_market_order_id_ = book.next_market_order_id_
  BY DEF SameOrders
<1>2. /\ result \in Books /\ result.orders = [book.orders EXCEPT ![key] = Null]
      /\ result.levels = b.levels /\ result.fault = b.fault
      /\ result.next_market_order_id_ = book.next_market_order_id_
  BY <1>1, BookFields DEF Books
<1>3. /\ after \in Books /\ after.orders = result.orders /\ after.levels = b.levels
      /\ after.fault = (result.fault \/ Dangles(result))
      /\ after.next_market_order_id_ = book.next_market_order_id_
      /\ after.bids = result.bids /\ after.asks = result.asks
  <2>1. (result.fault \/ Dangles(result)) \in BOOLEAN
    OBVIOUS
  <2> HIDE DEF result
  <2>2. QED BY <1>2, <2>1 DEF Books
<1> HIDE DEF result, after
<1>4. Dangles(after) = Dangles(result)
  BY <1>2, <1>3 DEF Dangles, Levels
<1>5. Levels(after) = Levels(b)
  BY <1>3 DEF Levels
<1>6. Live(after) = Live(book) \ {key}
  <2>1. book.orders \in [Keys -> OrderRecords \cup {Null}] /\ DOMAIN after.orders = Keys
    BY <1>2, <1>3, BookFields
  <2>2. QED BY <1>2, <1>3, <2>1 DEF Live
<1>7. \A k \in Live(book) \ {key} : after.orders[k] = book.orders[k]
  BY <1>2, <1>3, BookFields
<1>8. Filed(after)
  <2>1. ASSUME NEW i \in Levels(after)
        PROVE  /\ after.levels[i].orders # << >>
               /\ \A n \in DOMAIN after.levels[i].orders :
                     /\ after.levels[i].orders[n] \in Live(after)
                     /\ priceToIndex(after.orders[after.levels[i].orders[n]].price) = i
    <3>1. /\ i \in Levels(book) /\ b.levels[i].orders # << >>
          /\ \A n \in DOMAIN b.levels[i].orders :
                \E o \in DOMAIN book.levels[i].orders :
                    /\ b.levels[i].orders[n] = book.levels[i].orders[o]
                    /\ b.levels[i].orders[n] # key
      BY <1>5 DEF ListsWithout
    <3>2. \A o \in DOMAIN book.levels[i].orders :
             /\ book.levels[i].orders[o] \in Live(book)
             /\ priceToIndex(book.orders[book.levels[i].orders[o]].price) = i
      BY <3>1 DEF Filed
    <3>3. QED BY <1>3, <1>6, <1>7, <3>1, <3>2
  <2>2. ASSUME NEW k \in Live(after)
        PROVE  /\ priceToIndex(after.orders[k].price) \in Levels(after)
               /\ \E n \in DOMAIN after.levels[priceToIndex(after.orders[k].price)].orders :
                     after.levels[priceToIndex(after.orders[k].price)].orders[n] = k
    BY <1>3, <1>5, <1>6, <1>7 DEF ListsWithout
  <2>3. QED BY <2>1, <2>2 DEF Filed
<1>9. InTime(after)
  <2>1. ASSUME NEW i \in Levels(after), NEW m \in DOMAIN after.levels[i].orders,
               NEW n \in DOMAIN after.levels[i].orders, m < n
        PROVE  /\ after.orders[after.levels[i].orders[m]].priority
                     < after.orders[after.levels[i].orders[n]].priority
               /\ after.levels[i].orders[m][2] < after.levels[i].orders[n][2]
    <3>1. PICK o, p \in DOMAIN book.levels[i].orders :
             /\ o < p
             /\ after.levels[i].orders[m] = book.levels[i].orders[o]
             /\ after.levels[i].orders[n] = book.levels[i].orders[p]
      BY <1>3, <1>5, <2>1 DEF ListsWithout
    <3>2. i \in Levels(book)
      BY <1>5 DEF ListsWithout
    <3>3. /\ book.orders[book.levels[i].orders[o]].priority
               < book.orders[book.levels[i].orders[p]].priority
          /\ book.levels[i].orders[o][2] < book.levels[i].orders[p][2]
      BY <3>1, <3>2 DEF InTime
    <3>4. /\ after.levels[i].orders[m] \in Live(book) \ {key}
          /\ after.levels[i].orders[n] \in Live(book) \ {key}
      BY <1>6, <1>8 DEF Filed
    <3>5. QED BY <1>7, <3>1, <3>3, <3>4
  <2>2. QED BY <2>1 DEF InTime
<1>10. Removed(book, after, key)
  BY <1>2, <1>3, <1>4, <1>8, <1>9 DEF Removed, InOrder
<1>11. QED BY <1>10 DEF after, result

\* The book of removeOrder() when the order has left the list of its level.
Shortened(book, key) ==
    LET order   == book.orders[key]
        index   == priceToIndex(order.price)
        others  == Unlinked(book.levels[index].orders, key)
    IN  IF others = << >> THEN removeOrdersAtPrice(book, order.side, order.price)
        ELSE [book EXCEPT !.levels[index].orders = others]

\* The levels of both books are the same but for the lists of their orders.
SameFrame(book, after) ==
    /\ Levels(after) = Levels(book)
    /\ after.bids = book.bids /\ after.asks = book.asks
    /\ \A i \in Levels(book) : /\ after.levels[i].side = book.levels[i].side
                               /\ after.levels[i].price = book.levels[i].price
                               /\ after.levels[i].next = book.levels[i].next
                               /\ after.levels[i].prev = book.levels[i].prev

\* The order is gone from the lists, its level when it was the last of it, and
\* nothing else is.
LEMMA ShortenedLists ==
    ASSUME NEW book \in Books, InOrder(book), NEW key \in Live(book)
    PROVE  LET order == book.orders[key]
               short == Shortened(book, key)
           IN  /\ SameOrders(book, short) /\ short.fault = book.fault
               /\ ListsWithout(short, book, key)
               /\ \/ short = removeOrdersAtPrice(book, order.side, order.price)
                  \/ SameFrame(book, short)
<1> DEFINE order   == book.orders[key]
           index   == priceToIndex(order.price)
           list    == book.levels[index].orders
           others  == Unlinked(list, key)
           removed == IF others = << >>
                      THEN removeOrdersAtPrice(book, order.side, order.price)
                      ELSE [book EXCEPT !.levels[index].orders = others]
<1>0. ~Dangles(book) /\ Filed(book) /\ InTime(book) /\ key \in Keys
  BY BookFields DEF InOrder
<1>1. /\ order \in OrderRecords /\ order.side \in Sides /\ order.price \in Prices
      /\ index \in Levels(book) /\ index \in LevelIndices /\ list \in Seq(Keys)
      /\ book.levels[index] \in LevelRecords
  BY <1>0, BookFields DEF Filed, OrderRecords, LevelRecords
<1>2. PICK m \in DOMAIN list : list[m] = key
  BY <1>0 DEF Filed
<1>3. \A n, o \in DOMAIN list : list[n] = list[o] => n = o
  BY <1>0, <1>1, InTimeDistinct
<1>4. /\ others \in Seq(Keys)
      /\ (others = << >>) => \A n \in DOMAIN list : n = m
      /\ \A i \in DOMAIN others : \E n \in DOMAIN list : n # m /\ others[i] = list[n]
      /\ \A n \in DOMAIN list : n # m => \E i \in DOMAIN others : others[i] = list[n]
      /\ \A i, j \in DOMAIN others : i < j =>
            \E n, o \in DOMAIN list : n < o /\ others[i] = list[n] /\ others[j] = list[o]
  <2> HIDE DEF list
  <2>1. QED BY <1>1, <1>2, <1>3, UnlinkedOrder
<1>5. \A i \in Levels(book) : \A n \in DOMAIN book.levels[i].orders :
         i # index => book.levels[i].orders[n] # key
  BY <1>0 DEF Filed
<1>6. \A i \in Levels(book) :
         /\ book.levels[i].orders # << >>
         /\ book.levels[i].orders \in Seq(Keys)
  BY <1>0, BookFields DEF Filed, LevelRecords
<1>7. ASSUME NEW k \in Live(book) \ {key}
      PROVE  /\ priceToIndex(book.orders[k].price) \in Levels(book)
             /\ \E n \in DOMAIN book.levels[priceToIndex(book.orders[k].price)].orders :
                   book.levels[priceToIndex(book.orders[k].price)].orders[n] = k
  BY <1>0 DEF Filed
<1> HIDE DEF others
<1>8. CASE others = << >>
  <2>1. removed = removeOrdersAtPrice(book, order.side, order.price)
    BY <1>8
  <2> HIDE DEF removed, index
  <2>2. /\ SameOrders(book, removed) /\ removed.fault = book.fault
        /\ Levels(removed) = Levels(book) \ {index}
        /\ SameLists(book.levels, removed.levels, Levels(book) \ {index})
    BY <1>0, <1>1, <2>1, RemoveLevelKeeps DEF index
  <2>3. \A i \in Levels(removed) :
           i \in Levels(book) /\ i # index /\ removed.levels[i].orders = book.levels[i].orders
    BY <2>2 DEF SameLists
  <2>4. \A n \in DOMAIN list : list[n] = key
    BY <1>2, <1>4, <1>8
  <2>5. ListsWithout(removed, book, key)
    <3>1. ASSUME NEW k \in Live(book) \ {key}
          PROVE  LET i == priceToIndex(book.orders[k].price)
                 IN  i \in Levels(removed) /\ \E n \in DOMAIN removed.levels[i].orders :
                                                  removed.levels[i].orders[n] = k
      <4>1. priceToIndex(book.orders[k].price) # index
        BY <1>7, <2>4
      <4>2. QED BY <1>7, <2>2, <2>3, <4>1
    <3>2. QED BY <1>5, <1>6, <2>3, <3>1 DEF ListsWithout
  <2>6. QED BY <2>1, <2>2, <2>5 DEF Shortened, others, removed, index
<1>9. CASE others # << >>
  <2> DEFINE level == [book.levels[index] EXCEPT !.orders = others]
             map   == [book.levels EXCEPT ![index] = level]
  <2>1. level \in LevelRecords /\ level.orders = others
    BY <1>1, <1>4 DEF LevelRecords
  <2>2. /\ removed = [book EXCEPT !.levels = map]
        /\ book.levels \in [LevelIndices -> LevelRecords \cup {Null}]
    BY <1>9, BookFields DEF Books
  <2> HIDE DEF level, removed
  <2>3. /\ map \in [LevelIndices -> LevelRecords \cup {Null}]
        /\ map[index] = level
        /\ \A i \in LevelIndices : i # index => map[i] = book.levels[i]
    BY <1>1, <2>1, <2>2
  <2> HIDE DEF map
  <2>4. SameOrders(book, removed) /\ removed.fault = book.fault /\ removed.levels = map
    BY <2>2, <2>3 DEF Books, SameOrders
  <2> HIDE DEF index
  <2>5. Levels(removed) = Levels(book)
    BY <1>1, <2>1, <2>3, <2>4, NullAssumption DEF Levels
  <2>6. /\ removed.levels[index].orders = others
        /\ \A i \in Levels(book) : i # index => removed.levels[i].orders = book.levels[i].orders
    BY <2>1, <2>3, <2>4 DEF Levels
  <2>7. ListsWithout(removed, book, key)
    <3>1. ASSUME NEW i \in Levels(removed)
          PROVE  /\ i \in Levels(book) /\ removed.levels[i].orders # << >>
                 /\ \A n \in DOMAIN removed.levels[i].orders :
                      \E o \in DOMAIN book.levels[i].orders :
                         /\ removed.levels[i].orders[n] = book.levels[i].orders[o]
                         /\ removed.levels[i].orders[n] # key
                 /\ \A n, o \in DOMAIN removed.levels[i].orders : n < o =>
                      \E p, q \in DOMAIN book.levels[i].orders :
                         /\ p < q
                         /\ removed.levels[i].orders[n] = book.levels[i].orders[p]
                         /\ removed.levels[i].orders[o] = book.levels[i].orders[q]
      <4>1. CASE i = index
        <5>1. book.levels[i].orders = list /\ removed.levels[i].orders = others
          BY <2>6, <4>1
        <5> HIDE DEF list
        <5>2. \A n \in DOMAIN others :
                 \E o \in DOMAIN list : others[n] = list[o] /\ others[n] # key
          BY <1>2, <1>3, <1>4
        <5>3. QED BY <1>1, <1>4, <1>9, <4>1, <5>1, <5>2
      <4>2. CASE i # index
        BY <1>5, <1>6, <2>5, <2>6, <4>2
      <4>3. QED BY <4>1, <4>2
    <3>2. ASSUME NEW k \in Live(book) \ {key}
          PROVE  LET i == priceToIndex(book.orders[k].price)
                 IN  i \in Levels(removed) /\ \E n \in DOMAIN removed.levels[i].orders :
                                                  removed.levels[i].orders[n] = k
      <4>1. CASE priceToIndex(book.orders[k].price) = index
        BY <1>2, <1>4, <1>7, <2>5, <2>6, <4>1
      <4>2. CASE priceToIndex(book.orders[k].price) # index
        BY <1>7, <2>5, <2>6, <4>2
      <4>3. QED BY <4>1, <4>2
    <3>3. QED BY <3>1, <3>2 DEF ListsWithout
  <2>8. SameFrame(book, removed)
    <3>1. \A i \in Levels(book) : i \in LevelIndices /\ map[i] = IF i = index THEN level
                                                                 ELSE book.levels[i]
      BY <1>1, <2>3 DEF Levels
    <3>2. removed.bids = book.bids /\ removed.asks = book.asks
      BY <2>2 DEF Books
    <3>3. /\ level.side = book.levels[index].side /\ level.price = book.levels[index].price
          /\ level.next = book.levels[index].next /\ level.prev = book.levels[index].prev
      BY <1>1 DEF level, LevelRecords
    <3>4. QED BY <2>4, <2>5, <3>1, <3>2, <3>3 DEF SameFrame
  <2>9. QED BY <2>4, <2>7, <2>8 DEF Shortened, others, removed, index
<1>10. QED BY <1>8, <1>9

\* removeOrder() takes an order out of everything that names it.
LEMMA RemoveOrderRemoves ==
    ASSUME NEW book \in Books, InOrder(book), NEW key \in Live(book)
    PROVE  Removed(book, removeOrder(book, key), key)
<1> DEFINE b      == Shortened(book, key)
           result == [b EXCEPT !.orders[key] = Null]
<1>1. SameOrders(book, b) /\ b.fault = book.fault /\ ListsWithout(b, book, key)
  BY ShortenedLists
<1>2. Filed(book) /\ InTime(book) /\ key \in Keys
  BY BookFields DEF InOrder
<1>3. removeOrder(book, key) = [result EXCEPT !.fault = @ \/ Dangles(result)]
  BY DEF removeOrder, Shortened
<1> HIDE DEF b
<1>4. Removed(book, [result EXCEPT !.fault = @ \/ Dangles(result)], key)
  BY <1>1, <1>2, EntryGoes
<1>5. QED BY <1>3, <1>4

\* The list of the level at an index, empty if there is none.
ListAt(book, i) == IF i \in Levels(book) THEN book.levels[i].orders ELSE << >>

\* An order gets a priority above all those of its level.
LEMMA NextPriorityIsNext ==
    ASSUME NEW book \in Books, Filed(book), InTime(book), NEW price \in Prices
    PROVE  /\ getNextPriority(book, price) \in Nat \ {0}
           /\ \A n \in DOMAIN ListAt(book, priceToIndex(price)) :
                 book.orders[ListAt(book, priceToIndex(price))[n]].priority
                     < getNextPriority(book, price)
<1> DEFINE index == priceToIndex(price)
           list  == book.levels[index].orders
<1>1. index \in LevelIndices
  BY IndexInRange
<1>2. CASE index \notin Levels(book)
  <2>1. ListAt(book, index) = << >> /\ book.levels[index] = Null
    BY <1>1, <1>2 DEF ListAt, Levels
  <2>2. getNextPriority(book, price) = 1
    BY <2>1 DEF getNextPriority, getOrdersAtPrice
  <2>3. QED BY <2>1, <2>2
<1>3. CASE index \in Levels(book)
  <2>1. /\ list \in Seq(Keys) /\ list # << >> /\ ListAt(book, index) = list
        /\ book.levels[index] # Null
    BY <1>3, BookFields DEF Filed, LevelRecords, ListAt, Levels
  <2>2. \A n \in DOMAIN list : book.orders[list[n]].priority \in Nat
    BY <1>3, BookFields DEF Filed, OrderRecords
  <2>3. \A m, n \in DOMAIN list : m < n =>
           book.orders[list[m]].priority < book.orders[list[n]].priority
    BY <1>3 DEF InTime
  <2>4. getNextPriority(book, price) = book.orders[list[Len(list)]].priority + 1
    BY <2>1 DEF getNextPriority, getOrdersAtPrice
  <2> HIDE DEF list
  <2>5. Len(list) \in DOMAIN list /\ \A n \in DOMAIN list : n \in Nat /\ n <= Len(list)
    BY <2>1
  <2>6. \A n \in DOMAIN list :
           book.orders[list[n]].priority < book.orders[list[Len(list)]].priority + 1
    <3>1. ASSUME NEW n \in DOMAIN list
          PROVE  book.orders[list[n]].priority < book.orders[list[Len(list)]].priority + 1
      <4>1. CASE n = Len(list)
        BY <2>2, <2>5, <4>1
      <4>2. CASE n # Len(list)
        <5>1. n < Len(list)
          BY <2>1, <2>5, <4>2
        <5>2. book.orders[list[n]].priority < book.orders[list[Len(list)]].priority
          BY <2>3, <2>5, <5>1
        <5>3. QED BY <2>2, <2>5, <5>2
      <4>3. QED BY <4>1, <4>2
    <3>2. QED BY <3>1
  <2>7. QED BY <2>1, <2>2, <2>4, <2>5, <2>6
<1>4. QED BY <1>2, <1>3

\* A book with one order more, at the end of the list of its level.
LEMMA EntryComes ==
    ASSUME NEW book \in Books, Filed(book), InTime(book),
           NEW key \in Keys, key \notin Live(book), \A k \in Live(book) : k[2] < key[2],
           NEW order \in OrderRecords, order.priority = getNextPriority(book, order.price),
           NEW after \in Books, ~Dangles(after),
           after.orders = [book.orders EXCEPT ![key] = order],
           Levels(after) = Levels(book) \cup {priceToIndex(order.price)},
           \A i \in Levels(book) : i # priceToIndex(order.price) =>
               after.levels[i].orders = book.levels[i].orders,
           after.levels[priceToIndex(order.price)].orders
               = Append(ListAt(book, priceToIndex(order.price)), key)
    PROVE  InOrder(after)
<1> DEFINE index == priceToIndex(order.price)
           old   == ListAt(book, index)
           list  == Append(old, key)
<1>1. /\ old \in Seq(Keys)
      /\ \A n \in DOMAIN old :
            /\ index \in Levels(book) /\ old[n] = book.levels[index].orders[n]
            /\ old[n] \in Live(book) /\ priceToIndex(book.orders[old[n]].price) = index
      /\ \A m, n \in DOMAIN old : m < n =>
            /\ book.orders[old[m]].priority < book.orders[old[n]].priority
            /\ old[m][2] < old[n][2]
  <2>1. CASE index \in Levels(book)
    <3>1. old = book.levels[index].orders /\ old \in Seq(Keys)
      BY <2>1, BookFields DEF ListAt, LevelRecords
    <3>2. \A n \in DOMAIN book.levels[index].orders :
             /\ book.levels[index].orders[n] \in Live(book)
             /\ priceToIndex(book.orders[book.levels[index].orders[n]].price) = index
      BY <2>1 DEF Filed
    <3>3. \A m, n \in DOMAIN book.levels[index].orders : m < n =>
             /\ book.orders[book.levels[index].orders[m]].priority
                   < book.orders[book.levels[index].orders[n]].priority
             /\ book.levels[index].orders[m][2] < book.levels[index].orders[n][2]
      BY <2>1 DEF InTime
    <3> HIDE DEF old, index
    <3>4. QED BY <2>1, <3>1, <3>2, <3>3
  <2>2. CASE index \notin Levels(book)
    <3>1. old = << >>
      BY <2>2 DEF ListAt
    <3>2. QED BY <3>1
  <2>3. QED BY <2>1, <2>2
<1>2. \A n \in DOMAIN old : book.orders[old[n]].priority < order.priority
  <2>1. order.price \in Prices
    BY DEF OrderRecords
  <2>2. QED BY <2>1, NextPriorityIsNext
<1> HIDE DEF old
<1>3. /\ list \in Seq(Keys) /\ list # << >> /\ DOMAIN list = DOMAIN old \cup {Len(old) + 1}
      /\ list[Len(old) + 1] = key /\ Len(old) \in Nat
      /\ \A n \in DOMAIN old : list[n] = old[n] /\ n \in Nat /\ n <= Len(old)
  BY <1>1
<1> HIDE DEF list
<1>4. after.levels[index].orders = list
  BY DEF list, old
<1>5. /\ Live(after) = Live(book) \cup {key} /\ after.orders[key] = order
      /\ \A k \in Live(book) : after.orders[k] = book.orders[k]
  <2>1. order # Null
    BY NullAssumption
  <2>2. QED BY <2>1, BookFields DEF Live
<1>6. Filed(after)
  <2>1. ASSUME NEW i \in Levels(after)
        PROVE  /\ after.levels[i].orders # << >>
               /\ \A n \in DOMAIN after.levels[i].orders :
                     /\ after.levels[i].orders[n] \in Live(after)
                     /\ priceToIndex(after.orders[after.levels[i].orders[n]].price) = i
    <3>1. CASE i = index
      BY <1>1, <1>3, <1>4, <1>5, <3>1
    <3>2. CASE i # index
      <4>1. i \in Levels(book) /\ after.levels[i].orders = book.levels[i].orders
        BY <3>2
      <4>2. QED BY <1>5, <4>1 DEF Filed
    <3>3. QED BY <3>1, <3>2
  <2>2. ASSUME NEW k \in Live(after)
        PROVE  /\ priceToIndex(after.orders[k].price) \in Levels(after)
               /\ \E n \in DOMAIN after.levels[priceToIndex(after.orders[k].price)].orders :
                     after.levels[priceToIndex(after.orders[k].price)].orders[n] = k
    <3>1. CASE k = key
      BY <1>3, <1>4, <1>5, <3>1
    <3>2. CASE k # key
      <4> DEFINE i == priceToIndex(book.orders[k].price)
      <4>1. /\ k \in Live(book) /\ priceToIndex(after.orders[k].price) = i
            /\ i \in Levels(book) /\ i \in Levels(after)
        BY <1>5, <3>2 DEF Filed
      <4>2. PICK n \in DOMAIN book.levels[i].orders : book.levels[i].orders[n] = k
        BY <4>1 DEF Filed
      <4> HIDE DEF i
      <4>3. CASE i = index
        <5>1. n \in DOMAIN old /\ old[n] = k
          BY <4>1, <4>2, <4>3 DEF old, ListAt
        <5>2. n \in DOMAIN list /\ list[n] = k
          BY <1>3, <5>1
        <5>3. QED BY <1>4, <4>1, <4>3, <5>2
      <4>4. CASE i # index
        BY <4>1, <4>2, <4>4
      <4>5. QED BY <4>3, <4>4
    <3>3. QED BY <3>1, <3>2
  <2>3. QED BY <2>1, <2>2 DEF Filed
<1>7. InTime(after)
  <2>1. ASSUME NEW i \in Levels(after), NEW m \in DOMAIN after.levels[i].orders,
               NEW n \in DOMAIN after.levels[i].orders, m < n
        PROVE  /\ after.orders[after.levels[i].orders[m]].priority
                     < after.orders[after.levels[i].orders[n]].priority
               /\ after.levels[i].orders[m][2] < after.levels[i].orders[n][2]
    <3>1. CASE i # index
      <4>1. i \in Levels(book) /\ after.levels[i].orders = book.levels[i].orders
        BY <3>1
      <4>2. /\ after.levels[i].orders[m] \in Live(book)
            /\ after.levels[i].orders[n] \in Live(book)
        BY <4>1 DEF Filed
      <4>3. QED BY <1>5, <2>1, <4>1, <4>2 DEF InTime
    <3>2. CASE i = index
      <4>1. m \in DOMAIN old /\ list[m] = old[m]
        BY <1>3, <1>4, <2>1, <3>2
      <4>2. CASE n \in DOMAIN old
        BY <1>1, <1>3, <1>4, <1>5, <2>1, <3>2, <4>1, <4>2
      <4>3. CASE n = Len(old) + 1
        BY <1>1, <1>2, <1>3, <1>4, <1>5, <3>2, <4>1, <4>3
      <4>4. QED BY <1>3, <1>4, <3>2, <4>2, <4>3
    <3>3. QED BY <3>1, <3>2
  <2>2. QED BY <2>1 DEF InTime
<1>8. QED BY <1>6, <1>7 DEF InOrder

\* after is book with the order under key, and in order as long as the process
\* lives.
Added(book, after, key, order) ==
    /\ after \in Books
    /\ after.orders = [book.orders EXCEPT ![key] = order]
    /\ after.next_market_order_id_ = book.next_market_order_id_
    /\ after.fault \/ InOrder(after)

\* addOrder() files an order in everything that is to name it.
LEMMA AddOrderAdds ==
    ASSUME NEW book \in Books, ~book.fault, InOrder(book),
           NEW key \in Keys, key \notin Live(book), \A k \in Live(book) : k[2] < key[2],
           NEW order \in OrderRecords, order.priority = getNextPriority(book, order.price)
    PROVE  Added(book, addOrder(book, key, order), key, order)
<1> DEFINE index == priceToIndex(order.price)
           filed == [book EXCEPT !.orders[key] = order]
           level == [side |-> order.side, price |-> order.price, orders |-> <<key>>,
                     prev |-> Null, next |-> Null]
           past  == GoesAfterBest(order.side, order.price, filed.levels[Best(filed, order.side)])
           grown == InsertLevel(filed, level, past)
           more  == [filed EXCEPT !.levels[index].orders = Append(@, key)]
           full  == [grown EXCEPT !.fault = @ \/ Levels(grown) = LevelIndices]
<1>1. /\ order.price \in Prices /\ order.side \in Sides /\ index \in LevelIndices
      /\ <<key>> \in Seq(Keys) /\ past \in BOOLEAN
  <2>1. order.price \in Prices /\ order.side \in Sides
    BY DEF OrderRecords
  <2>2. QED BY <2>1, IndexInRange DEF GoesAfterBest
<1>2. ~Dangles(book) /\ Filed(book) /\ InTime(book)
  BY DEF InOrder
<1>3. /\ filed \in Books /\ filed.orders = [book.orders EXCEPT ![key] = order]
      /\ filed.levels = book.levels /\ filed.fault = book.fault
      /\ filed.bids = book.bids /\ filed.asks = book.asks
      /\ filed.next_market_order_id_ = book.next_market_order_id_
  BY BookFields DEF Books
<1>4. addOrder(book, key, order) = IF book.levels[index] # Null THEN more ELSE full
  BY DEF addOrder, addOrdersAtPrice
<1> HIDE DEF filed, past
<1>5. ~Dangles(filed) /\ Levels(filed) = Levels(book)
  BY <1>2, <1>3 DEF Dangles, Levels
<1>6. CASE book.levels[index] # Null
  <2> DEFINE list == book.levels[index].orders
             lvl  == [book.levels[index] EXCEPT !.orders = Append(list, key)]
             map  == [book.levels EXCEPT ![index] = lvl]
  <2>1. index \in Levels(book) /\ book.levels[index] \in LevelRecords /\ list \in Seq(Keys)
    BY <1>1, <1>6, BookFields DEF Levels, LevelRecords
  <2>2. /\ lvl \in LevelRecords /\ lvl.orders = Append(list, key)
        /\ lvl.next = book.levels[index].next /\ lvl.prev = book.levels[index].prev
    <3>1. Append(list, key) \in Seq(Keys)
      BY <2>1
    <3> HIDE DEF list
    <3>2. QED BY <2>1, <3>1 DEF LevelRecords
  <2>3. more = [filed EXCEPT !.levels = map]
    BY <1>3, BookFields DEF Books
  <2> HIDE DEF lvl, more
  <2>4. /\ map \in [LevelIndices -> LevelRecords \cup {Null}] /\ map[index] = lvl
        /\ \A i \in LevelIndices : i # index => map[i] = book.levels[i]
    BY <1>1, <2>2, BookFields
  <2> HIDE DEF map
  <2>5. /\ more \in Books /\ more.orders = filed.orders /\ more.levels = map
        /\ more.bids = book.bids /\ more.asks = book.asks
        /\ more.next_market_order_id_ = book.next_market_order_id_
    BY <1>3, <2>3, <2>4 DEF Books
  <2> HIDE DEF index
  <2>6. Levels(more) = Levels(book) \cup {index}
    BY <1>1, <2>1, <2>2, <2>4, <2>5, NullAssumption DEF Levels
  <2>7. ~Dangles(more)
    <3>1. \A i \in Levels(book) : i \in LevelIndices
      BY DEF Levels
    <3>2. \A i \in Levels(more) : more.levels[i].next \in Levels(more)
                                  /\ more.levels[i].prev \in Levels(more)
      BY <1>2, <2>1, <2>2, <2>4, <2>5, <2>6, <3>1, TiedMeans
    <3>3. /\ more.bids # Null => more.bids \in Levels(more)
          /\ more.asks # Null => more.asks \in Levels(more)
      BY <1>2, <2>5, <2>6, TiedMeans
    <3>4. QED BY <2>5, <3>2, <3>3, TiedMeans
  <2>8. /\ \A i \in Levels(book) : i # index => more.levels[i].orders = book.levels[i].orders
        /\ more.levels[index].orders = Append(ListAt(book, index), key)
    BY <2>1, <2>2, <2>4, <2>5 DEF ListAt, Levels
  <2>9. InOrder(more)
    BY <1>2, <1>3, <2>5, <2>6, <2>7, <2>8, EntryComes DEF index
  <2>10. QED BY <1>3, <1>4, <1>6, <2>5, <2>9 DEF Added, index
<1>7. CASE book.levels[index] = Null
  <2>1. index \notin Levels(book)
    BY <1>7 DEF Levels
  <2>2. SameOrders(filed, grown) /\ (grown.fault \/ Grown(filed, grown, index, <<key>>))
    BY <1>1, <1>3, <1>5, <2>1, InsertLevelGrows
  <2> HIDE DEF grown
  <2>3. /\ full \in Books /\ full.orders = grown.orders /\ full.levels = grown.levels
        /\ full.bids = grown.bids /\ full.asks = grown.asks
        /\ full.next_market_order_id_ = grown.next_market_order_id_
        /\ grown.fault => full.fault
    <3>1. grown \in Books /\ (grown.fault \/ Levels(grown) = LevelIndices) \in BOOLEAN
      BY <2>2 DEF SameOrders
    <3>2. QED BY <3>1 DEF Books
  <2>4. /\ full.orders = [book.orders EXCEPT ![key] = order]
        /\ full.next_market_order_id_ = book.next_market_order_id_
    BY <1>3, <2>2, <2>3 DEF SameOrders
  <2>5. ASSUME ~full.fault PROVE InOrder(full)
    <3>1. Grown(filed, grown, index, <<key>>)
      BY <2>2, <2>3, <2>5
    <3>2. ~Dangles(full) /\ Levels(full) = Levels(book) \cup {index}
      BY <1>5, <2>3, <3>1 DEF Grown, Dangles, Levels
    <3>3. ListAt(book, index) = << >> /\ Append(<< >>, key) = <<key>>
      BY <2>1 DEF ListAt
    <3>4. /\ \A i \in Levels(book) : i # index => full.levels[i].orders = book.levels[i].orders
          /\ full.levels[index].orders = Append(ListAt(book, index), key)
      BY <1>3, <1>5, <2>3, <3>1, <3>3 DEF Grown, SameLists
    <3> HIDE DEF full
    <3>5. QED BY <1>2, <2>3, <2>4, <3>2, <3>4, EntryComes
  <2> HIDE DEF full
  <2>6. QED BY <1>4, <1>7, <2>3, <2>4, <2>5 DEF Added
<1>8. QED BY <1>6, <1>7

\* A book that differs in the quantity of one order, or in its counter, is in
\* order as it was.
LEMMA SameOutline ==
    ASSUME NEW book \in Books, InOrder(book), NEW after \in Books,
           after.levels = book.levels, after.bids = book.bids, after.asks = book.asks,
           Live(after) = Live(book),
           \A k \in Live(book) : /\ after.orders[k].price = book.orders[k].price
                                 /\ after.orders[k].priority = book.orders[k].priority
    PROVE  InOrder(after)
<1>1. Levels(after) = Levels(book) /\ Dangles(after) = Dangles(book)
  BY DEF Levels, Dangles
<1>2. Filed(after)
  <2>1. ASSUME NEW i \in Levels(book), NEW n \in DOMAIN book.levels[i].orders
        PROVE  /\ book.levels[i].orders[n] \in Live(after)
               /\ priceToIndex(after.orders[book.levels[i].orders[n]].price) = i
    BY DEF InOrder, Filed
  <2>2. \A i \in Levels(book) : book.levels[i].orders # << >>
    BY DEF InOrder, Filed
  <2>3. ASSUME NEW k \in Live(after)
        PROVE  /\ priceToIndex(after.orders[k].price) \in Levels(after)
               /\ \E n \in DOMAIN after.levels[priceToIndex(after.orders[k].price)].orders :
                     after.levels[priceToIndex(after.orders[k].price)].orders[n] = k
    BY <1>1 DEF InOrder, Filed
  <2>4. QED BY <1>1, <2>1, <2>2, <2>3 DEF Filed
<1>3. InTime(after)
  <2>1. ASSUME NEW i \in Levels(book), NEW m \in DOMAIN book.levels[i].orders,
               NEW n \in DOMAIN book.levels[i].orders, m < n
        PROVE  /\ after.orders[book.levels[i].orders[m]].priority
                     < after.orders[book.levels[i].orders[n]].priority
               /\ book.levels[i].orders[m][2] < book.levels[i].orders[n][2]
    <3>1. book.levels[i].orders[m] \in Live(book) /\ book.levels[i].orders[n] \in Live(book)
      BY DEF InOrder, Filed
    <3>2. /\ book.orders[book.levels[i].orders[m]].priority
               < book.orders[book.levels[i].orders[n]].priority
          /\ book.levels[i].orders[m][2] < book.levels[i].orders[n][2]
      BY <2>1 DEF InOrder, InTime
    <3>3. QED BY <3>1, <3>2
  <2>2. QED BY <1>1, <2>1 DEF InTime
<1>4. QED BY <1>1, <1>2, <1>3 DEF InOrder

\* The id of a new order changes the counter at most.
LEMMA IdTakenKeeps ==
    ASSUME NEW book \in Books, InOrder(book)
    PROVE  /\ IdTaken(book) \in Books
           /\ IdTaken(book).orders = book.orders
           /\ IdTaken(book).fault = book.fault
           /\ InOrder(IdTaken(book))
<1> DEFINE after == IdTaken(book)
<1>1. /\ after \in Books /\ after.orders = book.orders /\ after.fault = book.fault
      /\ after.levels = book.levels /\ after.bids = book.bids /\ after.asks = book.asks
  <2>1. CASE DistinctIds
    <3>1. after = [book EXCEPT !.next_market_order_id_ = @ + 1]
      BY <2>1 DEF IdTaken
    <3>2. QED BY <3>1 DEF Books
  <2>2. CASE ~DistinctIds
    <3>1. after = book
      BY <2>2 DEF IdTaken
    <3>2. QED BY <3>1
  <2>3. QED BY <2>1, <2>2
<1> HIDE DEF after
<1>2. Live(after) = Live(book)
  BY <1>1 DEF Live
<1>3. InOrder(after)
  BY <1>1, <1>2, SameOutline
<1>4. QED BY <1>1, <1>3 DEF after

\* after is book when the order under key has left over.
Filled(book, after, key, left) ==
    /\ after \in Books
    /\ after.next_market_order_id_ = book.next_market_order_id_
    /\ after.fault \/ InOrder(after)
    /\ \A k \in Keys \ {key} : after.orders[k] = book.orders[k]
    /\ IF left = 0 THEN after.orders[key] = Null
       ELSE after.orders[key] = [book.orders[key] EXCEPT !.qty = left]

\* A book in which an order has another quantity is in order as it was.
LEMMA QtyChanges ==
    ASSUME NEW book \in Books, InOrder(book), NEW key \in Live(book), NEW left \in Nat
    PROVE  LET order == [book.orders[key] EXCEPT !.qty = left]
               after == [book EXCEPT !.orders[key].qty = left]
           IN  /\ after \in Books /\ InOrder(after) /\ Live(after) = Live(book)
               /\ after.levels = book.levels /\ after.bids = book.bids /\ after.asks = book.asks
               /\ after.orders[key] = order
               /\ after.next_market_order_id_ = book.next_market_order_id_
               /\ order.price = book.orders[key].price /\ order.side = book.orders[key].side
               /\ \A k \in Keys : k # key => after.orders[k] = book.orders[k]
<1> DEFINE order == [book.orders[key] EXCEPT !.qty = left]
           map   == [book.orders EXCEPT ![key] = order]
           after == [book EXCEPT !.orders = map]
<1>1. book.orders[key] \in OrderRecords /\ key \in Keys
  BY BookFields DEF OrderRecords
<1>2. /\ order \in OrderRecords /\ order.price = book.orders[key].price
      /\ order.side = book.orders[key].side
      /\ order.priority = book.orders[key].priority
  BY <1>1 DEF OrderRecords
<1>3. after = [book EXCEPT !.orders[key].qty = left]
  BY BookFields DEF Books
<1> HIDE DEF order
<1>4. /\ map \in [Keys -> OrderRecords \cup {Null}] /\ map[key] = order
      /\ \A k \in Keys : k # key => map[k] = book.orders[k]
  BY <1>1, <1>2, BookFields
<1> HIDE DEF map
<1>5. /\ after \in Books /\ after.orders = map /\ after.levels = book.levels
      /\ after.bids = book.bids /\ after.asks = book.asks
      /\ after.next_market_order_id_ = book.next_market_order_id_
  BY <1>4 DEF Books
<1> HIDE DEF after
<1>6. Live(after) = Live(book)
  <2>1. order # Null /\ DOMAIN map = Keys /\ DOMAIN book.orders = Keys
    BY <1>2, <1>4, NullAssumption, BookFields
  <2>2. QED BY <1>4, <1>5, <2>1 DEF Live
<1>7. InOrder(after)
  <2>1. \A k \in Live(book) : /\ after.orders[k].price = book.orders[k].price
                              /\ after.orders[k].priority = book.orders[k].priority
    BY <1>2, <1>4, <1>5, BookFields
  <2>2. QED BY <1>5, <1>6, <2>1, SameOutline
<1>8. QED BY <1>2, <1>3, <1>4, <1>5, <1>6, <1>7 DEF order

\* A fill takes its quantity from the maker, and the maker from the book when
\* nothing is left.
LEMMA FillFills ==
    ASSUME NEW book \in Books, InOrder(book), NEW key \in Live(book),
           NEW fill \in Nat, fill <= book.orders[key].qty
    PROVE  Filled(book, Fill(book, key, fill), key, book.orders[key].qty - fill)
<1> DEFINE left  == book.orders[key].qty - fill
           order == [book.orders[key] EXCEPT !.qty = left]
           book1 == [book EXCEPT !.orders[key].qty = left]
<1>1. key \in Keys /\ left \in Nat
  BY BookFields DEF OrderRecords
<1>2. /\ book1 \in Books /\ InOrder(book1) /\ Live(book1) = Live(book)
      /\ book1.orders[key] = order
      /\ book1.next_market_order_id_ = book.next_market_order_id_
      /\ \A k \in Keys : k # key => book1.orders[k] = book.orders[k]
  <2> HIDE DEF left
  <2>1. QED BY <1>1, QtyChanges
<1>3. Fill(book, key, fill) = IF left = 0 THEN removeOrder(book1, key) ELSE book1
  BY DEF Fill
<1> HIDE DEF left, order, book1
<1>4. CASE left = 0
  <2>1. Removed(book1, removeOrder(book1, key), key)
    BY <1>2, RemoveOrderRemoves
  <2>2. /\ removeOrder(book1, key).orders[key] = Null
        /\ \A k \in Keys : k # key => removeOrder(book1, key).orders[k] = book1.orders[k]
    BY <1>1, <1>2, <2>1, BookFields DEF Removed
  <2>3. QED BY <1>2, <1>3, <1>4, <2>1, <2>2 DEF Removed, Filled, left
<1>5. CASE left # 0
  BY <1>2, <1>3, <1>5 DEF Filled, order, left
<1>6. QED BY <1>4, <1>5

-----------------------------------------------------------------------------
(* The engine.                                                             *)

\* The books of a process that lives are in order.
BooksInOrder ==
    \A t \in Tickers : ticker_order_book_[t].fault \/ InOrder(ticker_order_book_[t])

\* A book only has orders of its own client, and only such as were sent.
OwnOrders ==
    \A t \in Tickers, k \in Keys :
        ticker_order_book_[t].orders[k] # Null => k[1] = t /\ asked[k] # Null

\* A client uses its order ids in turn, and hears of none that it has not used.
IdsInTurn ==
    \A k \in Keys : /\ asked[k] # Null <=> k[2] < next_order_id[k[1]]
                    /\ asked[k] = Null => view[k] = Unknown

\* The order being matched is the last its client has sent, and not in the book
\* yet.
TakerIsLast ==
    taker # Null =>
        /\ taker.book = taker.key[1]
        /\ taker.key[2] + 1 = next_order_id[taker.book]
        /\ ticker_order_book_[taker.book].orders[taker.key] = Null

\* The inductive invariant.
EngineInv ==
    /\ TypeOK /\ BooksInOrder /\ OwnOrders /\ IdsInTurn /\ TakerIsLast
    /\ QuantityConserved

\* A key is what a client id and an order id make.
LEMMA KeyParts ==
    ASSUME NEW k \in Keys
    PROVE  /\ k = <<k[1], k[2]>> /\ k[1] \in Clients /\ k[1] \in Tickers
           /\ k[2] \in Nat /\ k[2] < MaxOrders
BY ClientsAssumption, OrdersAssumption DEF Keys, OrderIds

\* One book changes.
LEMMA OneBook ==
    ASSUME TypeOK, NEW t \in Tickers, NEW book \in Books, SetBook(t, book)
    PROVE  /\ ticker_order_book_' \in [Tickers -> Books]
           /\ ticker_order_book_'[t] = book
           /\ \A u \in Tickers : u # t => ticker_order_book_'[u] = ticker_order_book_[u]
BY DEF TypeOK, SetBook

\* One response changes what one client knows of one order.
LEMMA TellOne ==
    ASSUME NEW r, NEW key \in Keys, <<r.client, r.order_id>> = key, Tell(<<r>>)
    PROVE  view' = [k \in Keys |-> IF k = key THEN Told(view[k], r) ELSE view[k]]
<1> DEFINE sent == <<r>>
<1>1. DOMAIN sent = {1} /\ sent[1] = r
  OBVIOUS
<1>2. ASSUME NEW k \in Keys
      PROVE  (IF \E i \in DOMAIN sent : <<sent[i].client, sent[i].order_id>> = k
              THEN Told(view[k], sent[CHOOSE i \in DOMAIN sent :
                                      <<sent[i].client, sent[i].order_id>> = k])
              ELSE view[k])
             = IF k = key THEN Told(view[k], r) ELSE view[k]
  <2> HIDE DEF sent
  <2>1. CASE k = key
    <3>1. (CHOOSE i \in DOMAIN sent : <<sent[i].client, sent[i].order_id>> = k) = 1
      BY <1>1, <2>1
    <3>2. QED BY <1>1, <2>1, <3>1
  <2>2. CASE k # key
    BY <1>1, <2>2
  <2>3. QED BY <2>1, <2>2
<1>3. QED BY <1>2 DEF Tell

\* Two responses on different orders.
LEMMA TellTwo ==
    ASSUME NEW r, NEW q, NEW key \in Keys, NEW other \in Keys, key # other,
           <<r.client, r.order_id>> = key, <<q.client, q.order_id>> = other, Tell(<<r, q>>)
    PROVE  view' = [k \in Keys |-> IF k = key THEN Told(view[k], r)
                                   ELSE IF k = other THEN Told(view[k], q) ELSE view[k]]
<1> DEFINE sent == <<r, q>>
<1>1. DOMAIN sent = {1, 2} /\ sent[1] = r /\ sent[2] = q
  OBVIOUS
<1>2. ASSUME NEW k \in Keys
      PROVE  (IF \E i \in DOMAIN sent : <<sent[i].client, sent[i].order_id>> = k
              THEN Told(view[k], sent[CHOOSE i \in DOMAIN sent :
                                      <<sent[i].client, sent[i].order_id>> = k])
              ELSE view[k])
             = IF k = key THEN Told(view[k], r)
               ELSE IF k = other THEN Told(view[k], q) ELSE view[k]
  <2> HIDE DEF sent
  <2>1. CASE k = key
    <3>1. (CHOOSE i \in DOMAIN sent : <<sent[i].client, sent[i].order_id>> = k) = 1
      BY <1>1, <2>1
    <3>2. QED BY <1>1, <2>1, <3>1
  <2>2. CASE k = other
    <3>1. (CHOOSE i \in DOMAIN sent : <<sent[i].client, sent[i].order_id>> = k) = 2
      BY <1>1, <2>2
    <3>2. QED BY <1>1, <2>2, <3>1
  <2>3. CASE k # key /\ k # other
    BY <1>1, <2>3
  <2>4. QED BY <2>1, <2>2, <2>3
<1>3. QED BY <1>2 DEF Tell

\* No response, no news.
LEMMA TellNone == ASSUME TypeOK, Tell(<< >>) PROVE view' = view
<1>1. view' = [k \in Keys |-> view[k]]
  BY DEF Tell
<1>2. QED BY <1>1 DEF TypeOK

\* What the invariant says of the book of a client between two steps.
LEMMA BookFacts ==
    ASSUME EngineInv, NEW t \in Tickers, Sound(t)
    PROVE  /\ ticker_order_book_[t] \in Books
           /\ ~ticker_order_book_[t].fault
           /\ InOrder(ticker_order_book_[t])
           /\ \A k \in Live(ticker_order_book_[t]) : k \in Keys /\ k[1] = t /\ asked[k] # Null
           /\ \A k \in Keys : (k \in Live(ticker_order_book_[t])
                                  <=> ticker_order_book_[t].orders[k] # Null)
<1>1. ticker_order_book_[t] \in Books
  BY DEF EngineInv, TypeOK
<1>2. ~ticker_order_book_[t].fault /\ InOrder(ticker_order_book_[t])
  BY DEF EngineInv, BooksInOrder, Sound
<1>3. DOMAIN ticker_order_book_[t].orders = Keys
  BY <1>1, BookFields
<1>4. QED BY <1>1, <1>2, <1>3 DEF EngineInv, OwnOrders, Live

\* Quantities, order by order.
LEMMA ConservedMeans ==
    ASSUME TypeOK
    PROVE  QuantityConserved <=>
             \A k \in Keys : asked[k] # Null =>
               /\ view[k].filled + view[k].leaves = asked[k].qty
               /\ ticker_order_book_[k[1]].orders[k] # Null =>
                     /\ ticker_order_book_[k[1]].orders[k].qty = view[k].leaves
                     /\ ticker_order_book_[k[1]].orders[k].qty > 0
               /\ taker # Null /\ taker.key = k => taker.qty = view[k].leaves
BY DEF QuantityConserved, Resting, BookOf

\* A new engine.
LEMMA EngineInit == Init => EngineInv
<1> SUFFICES ASSUME Init PROVE EngineInv
  OBVIOUS
<1> DEFINE empty == EmptyBook(Keys)
<1>1. /\ empty \in Books /\ empty.orders = [k \in Keys |-> Null]
      /\ Levels(empty) = {} /\ Live(empty) = {} /\ empty.bids = Null /\ empty.asks = Null
  BY DEF EmptyBook, Books, Levels, Live
<1> HIDE DEF empty
<1>2. ticker_order_book_ = [t \in Tickers |-> empty]
  BY DEF Init, empty
<1>3. TypeOK
  <2>1. next_order_id \in [Clients -> 0 .. MaxOrders]
    BY OrdersAssumption DEF Init
  <2>2. view \in [Keys -> [filled : Nat, leaves : Nat]]
    BY DEF Init, Unknown
  <2>3. QED BY <1>1, <1>2, <2>1, <2>2 DEF Init, TypeOK
<1>4. InOrder(empty)
  <2>1. ~Dangles(empty)
    BY <1>1, TiedMeans
  <2>2. QED BY <1>1, <2>1 DEF InOrder, Filed, InTime
<1>5. BooksInOrder /\ OwnOrders
  BY <1>1, <1>2, <1>4 DEF BooksInOrder, OwnOrders
<1>6. IdsInTurn
  BY KeyParts DEF Init, IdsInTurn
<1>7. TakerIsLast /\ QuantityConserved
  BY DEF Init, TakerIsLast, QuantityConserved
<1>8. QED BY <1>3, <1>5, <1>6, <1>7 DEF EngineInv


\* What a step may do to an order that has ended: nothing, and nothing is said
\* of it but that it cannot be canceled.
StaysEnded(k) ==
    Ended(k) => /\ Ended(k)'
                /\ \A i \in DOMAIN responses' :
                      <<responses'[i].client, responses'[i].order_id>> = k
                          => responses'[i].type = "CANCEL_REJECTED"

\* NEW: the order is accepted, with an id nobody has used.
LEMMA AddKeeps ==
    ASSUME EngineInv, NEW client \in Clients, NEW ticker \in Tickers, NEW side \in Sides,
           NEW price \in PricesOf(side), NEW qty \in Qtys, add(client, ticker, side, price, qty)
    PROVE  EngineInv' /\ \A k \in Keys : StaysEnded(k)
<1> DEFINE n    == next_order_id[client]
           key  == <<client, n>>
           old  == ticker_order_book_[client]
           book == IdTaken(old)
           id   == generateNewMarketOrderId(old)
           new  == [key |-> key, book |-> client, ticker |-> ticker, side |-> side,
                    price |-> price, qty |-> qty, market_order_id |-> id]
           r    == Response("ACCEPTED", key, ticker, id, side, price, 0, qty)
           ask  == [ticker |-> ticker, qty |-> qty]
<1>1. /\ taker = Null /\ Sound(client) /\ n < MaxOrders /\ taker' = new
      /\ Send(<<r>>, << >>)
      /\ next_order_id' = [next_order_id EXCEPT ![client] = @ + 1]
      /\ asked' = [asked EXCEPT ![key] = ask]
      /\ SetBook(client, book)
  BY DEF add, BookOf
<1>2. /\ client \in Tickers /\ n \in Nat /\ n < MaxOrders /\ MaxOrders \in Nat /\ key \in Keys
      /\ qty \in Nat /\ price \in Prices
  <2>1. client \in Tickers /\ n \in 0 .. MaxOrders /\ MaxOrders \in Nat
    BY ClientsAssumption, OrdersAssumption DEF EngineInv, TypeOK
  <2>2. qty \in Nat /\ price \in Prices
    BY OrdersAssumption DEF PricesOf, Prices
  <2>3. QED BY <1>1, <2>1, <2>2 DEF Keys, OrderIds
<1>3. /\ old \in Books /\ ~old.fault /\ InOrder(old)
      /\ book \in Books /\ book.orders = old.orders /\ InOrder(book)
      /\ id \in Nat \ {0}
  <2>1. old \in Books /\ ~old.fault /\ InOrder(old)
    BY <1>1, <1>2, BookFacts
  <2>2. book \in Books /\ book.orders = old.orders /\ InOrder(book)
    BY <2>1, IdTakenKeeps
  <2>3. QED BY <2>1, <2>2, BookFields DEF generateNewMarketOrderId
<1>4. /\ new \in Takers /\ new.key = key /\ new.book = client /\ new.qty = qty
      /\ new # Null /\ ask \in Asked /\ ask # Null /\ ask.qty = qty
  <2>1. new \in Takers /\ ask \in Asked
    BY <1>2, <1>3 DEF Takers, Asked
  <2>2. QED BY <2>1, NullAssumption
<1>5. /\ <<r.client, r.order_id>> = key /\ r.type = "ACCEPTED"
      /\ r.exec_qty = 0 /\ r.leaves_qty = qty
  BY DEF Response
<1> HIDE DEF new, ask, r, id, book
<1>6. /\ ticker_order_book_' \in [Tickers -> Books] /\ ticker_order_book_'[client] = book
      /\ \A u \in Tickers : u # client => ticker_order_book_'[u] = ticker_order_book_[u]
  BY <1>1, <1>2, <1>3, OneBook DEF EngineInv
<1>7. \A t \in Tickers : ticker_order_book_'[t].orders = ticker_order_book_[t].orders
  BY <1>3, <1>6
<1>8. /\ view' = [k \in Keys |-> IF k = key THEN Told(view[k], r) ELSE view[k]]
      /\ responses' = <<r>>
  <2>1. Tell(<<r>>) /\ responses' = <<r>>
    BY <1>1 DEF Send
  <2>2. QED BY <1>2, <1>5, <2>1, TellOne
<1>9. asked[key] = Null /\ view[key] = Unknown
  <2>1. key[1] = client /\ key[2] = n
    OBVIOUS
  <2>2. QED BY <1>2, <2>1 DEF EngineInv, IdsInTurn
<1>10. Told(view[key], r) = [filled |-> 0, leaves |-> qty]
  BY <1>5, <1>9 DEF Told, Unknown
<1> HIDE DEF key, n, old
<1>11. /\ \A k \in Keys : k # key => asked'[k] = asked[k] /\ view'[k] = view[k]
       /\ asked'[key] = ask /\ view'[key] = [filled |-> 0, leaves |-> qty]
       /\ asked' \in [Keys -> Asked \cup {Null}]
       /\ view' \in [Keys -> [filled : Nat, leaves : Nat]]
  <2>1. /\ asked \in [Keys -> Asked \cup {Null}]
        /\ view \in [Keys -> [filled : Nat, leaves : Nat]]
    BY DEF EngineInv, TypeOK
  <2>2. [filled |-> 0, leaves |-> qty] \in [filled : Nat, leaves : Nat]
    BY <1>2
  <2>3. QED BY <1>1, <1>2, <1>4, <1>8, <1>10, <2>1, <2>2
<1>12. /\ next_order_id' \in [Clients -> 0 .. MaxOrders] /\ next_order_id'[client] = n + 1
       /\ \A c \in Clients : c # client => next_order_id'[c] = next_order_id[c]
  BY <1>1, <1>2 DEF n, EngineInv, TypeOK
<1>13. TypeOK'
  <2>1. spoiled' = spoiled
    BY DEF add
  <2>2. spoiled' \in [Tickers -> BOOLEAN]
    BY <2>1 DEF EngineInv, TypeOK
  <2>3. QED BY <1>1, <1>4, <1>6, <1>11, <1>12, <2>2 DEF TypeOK
<1>14. BooksInOrder'
  BY <1>3, <1>6 DEF EngineInv, BooksInOrder
<1>15. OwnOrders'
  <2>1. \A k \in Keys : asked[k] # Null => asked'[k] # Null
    BY <1>4, <1>11
  <2>2. QED BY <1>7, <2>1 DEF EngineInv, OwnOrders
<1>16. IdsInTurn'
  <2>1. ASSUME NEW k \in Keys
        PROVE  /\ asked'[k] # Null <=> k[2] < next_order_id'[k[1]]
               /\ asked'[k] = Null => view'[k] = Unknown
    <3>1. /\ asked[k] # Null <=> k[2] < next_order_id[k[1]]
          /\ asked[k] = Null => view[k] = Unknown
      BY DEF EngineInv, IdsInTurn
    <3>2. k[2] \in Nat /\ k[1] \in Clients /\ k = <<k[1], k[2]>>
      BY KeyParts
    <3>3. CASE k = key
      <4>1. k[1] = client /\ k[2] = n
        BY <3>3 DEF key
      <4>2. QED BY <1>2, <1>4, <1>11, <1>12, <3>3, <4>1
    <3>4. CASE k # key /\ k[1] = client
      <4>1. k[2] # n /\ next_order_id[client] = n
        BY <3>2, <3>4 DEF key, n
      <4>2. k[2] < n <=> k[2] < n + 1
        BY <1>2, <3>2, <4>1
      <4>3. QED BY <1>11, <1>12, <3>1, <3>4, <4>1, <4>2
    <3>5. CASE k[1] # client
      <4>1. k # key
        BY <3>5 DEF key
      <4>2. QED BY <1>11, <1>12, <3>1, <3>2, <3>5, <4>1
    <3>6. QED BY <3>3, <3>4, <3>5
  <2>2. QED BY <2>1 DEF IdsInTurn
<1>17. ticker_order_book_[client].orders[key] = Null
  BY <1>2, <1>9 DEF EngineInv, OwnOrders
<1>18. TakerIsLast'
  <2>1. key[1] = client /\ key[2] = n
    BY DEF key
  <2>2. QED BY <1>1, <1>2, <1>4, <1>7, <1>12, <1>17, <2>1 DEF TakerIsLast
<1>19. QuantityConserved'
  <2>1. ASSUME NEW k \in Keys, asked'[k] # Null
        PROVE  /\ view'[k].filled + view'[k].leaves = asked'[k].qty
               /\ ticker_order_book_'[k[1]].orders[k] # Null =>
                     /\ ticker_order_book_'[k[1]].orders[k].qty = view'[k].leaves
                     /\ ticker_order_book_'[k[1]].orders[k].qty > 0
               /\ taker' # Null /\ taker'.key = k => taker'.qty = view'[k].leaves
    <3>1. k[1] \in Tickers
      BY KeyParts
    <3>2. CASE k = key
      <4>1. key[1] = client
        BY DEF key
      <4>2. QED BY <1>1, <1>2, <1>4, <1>7, <1>11, <1>17, <3>1, <3>2, <4>1
    <3>3. CASE k # key
      <4>1. /\ view[k].filled + view[k].leaves = asked[k].qty
            /\ ticker_order_book_[k[1]].orders[k] # Null =>
                     /\ ticker_order_book_[k[1]].orders[k].qty = view[k].leaves
                     /\ ticker_order_book_[k[1]].orders[k].qty > 0
        BY <1>11, <2>1, <3>3, ConservedMeans DEF EngineInv
      <4>2. QED BY <1>1, <1>4, <1>7, <1>11, <3>1, <3>3, <4>1
    <3>4. QED BY <3>2, <3>3
  <2>2. QED BY <2>1 DEF QuantityConserved, Resting, BookOf
<1>20. ASSUME NEW k \in Keys, Ended(k)
       PROVE  /\ Ended(k)'
              /\ \A i \in DOMAIN responses' :
                    <<responses'[i].client, responses'[i].order_id>> = k
                        => responses'[i].type = "CANCEL_REJECTED"
  <2>1. asked[k] # Null /\ ticker_order_book_[k[1]].orders[k] = Null /\ k[1] \in Tickers
    BY <1>20, KeyParts DEF Ended, Resting, BookOf
  <2>2. k # key
    BY <1>9, <2>1
  <2>3. asked'[k] # Null /\ ticker_order_book_'[k[1]].orders[k] = Null /\ taker'.key # k
    BY <1>1, <1>4, <1>7, <1>11, <2>1, <2>2
  <2>4. DOMAIN responses' = {1} /\ responses'[1] = r
    BY <1>8
  <2>5. QED BY <1>5, <2>2, <2>3, <2>4 DEF Ended, Resting, BookOf
<1>21. QED BY <1>13, <1>14, <1>15, <1>16, <1>18, <1>19, <1>20 DEF EngineInv, StaysEnded

\* The order a fill is made against is in the book.
LEMMA MakerLives ==
    ASSUME NEW book \in Books, InOrder(book), NEW side, Maker(book, side) # Null
    PROVE  Maker(book, side) \in Live(book)
<1> DEFINE best == Best(book, Opposite(side))
<1>1. best # Null /\ Maker(book, side) = book.levels[best].orders[1]
  BY DEF Maker
<1>2. best \in Levels(book)
  BY <1>1, TiedMeans DEF InOrder, Best
<1>3. /\ book.levels[best].orders \in Seq(Keys) /\ book.levels[best].orders # << >>
      /\ \A n \in DOMAIN book.levels[best].orders : book.levels[best].orders[n] \in Live(book)
  BY <1>2, BookFields DEF InOrder, Filed, LevelRecords
<1> HIDE DEF best
<1>4. 1 \in DOMAIN book.levels[best].orders
  BY <1>3
<1>5. QED BY <1>1, <1>3, <1>4

\* A fill: what one side gives the other takes, and both are told.
LEMMA MatchKeeps ==
    ASSUME EngineInv, match
    PROVE  EngineInv' /\ \A k \in Keys : StaysEnded(k)
<1> DEFINE t      == taker.book
           old    == ticker_order_book_[t]
           key    == Maker(old, taker.side)
           order  == old.orders[key]
           fill   == FillQty(taker.qty, order)
           left   == order.qty - fill
           leaves == taker.qty - fill
           book   == Fill(old, key, fill)
           mine   == taker.key
           r      == Response("FILLED", mine, taker.ticker, taker.market_order_id,
                              taker.side, order.price, fill, leaves)
           q      == Response("FILLED", key, taker.ticker, order.market_order_id,
                              order.side, order.price, fill, left)
<1>1. /\ taker # Null /\ Sound(t) /\ taker.qty > 0 /\ key # Null
      /\ SetBook(t, book)
      /\ taker' = [taker EXCEPT !.qty = leaves]
      /\ responses' = <<r, q>> /\ Tell(<<r, q>>)
      /\ next_order_id' = next_order_id /\ asked' = asked
  BY DEF match, CanMatch, Send
<1>2. /\ taker \in Takers /\ t \in Tickers /\ mine \in Keys /\ taker.qty \in Nat
      /\ t = mine[1] /\ mine[2] + 1 = next_order_id[t] /\ old.orders[mine] = Null
  BY <1>1 DEF EngineInv, TypeOK, TakerIsLast, Takers
<1>3. /\ old \in Books /\ ~old.fault /\ InOrder(old) /\ key \in Live(old)
      /\ key \in Keys /\ key[1] = t /\ asked[key] # Null /\ order # Null
      /\ order \in OrderRecords /\ order.qty \in Nat
  <2>1. /\ old \in Books /\ ~old.fault /\ InOrder(old)
        /\ \A k \in Live(old) : k \in Keys /\ k[1] = t /\ asked[k] # Null
    BY <1>1, <1>2, BookFacts
  <2>2. key \in Live(old)
    BY <1>1, <2>1, MakerLives
  <2>3. QED BY <2>1, <2>2, BookFields DEF Live, OrderRecords
<1>4. /\ order.qty = view[key].leaves /\ order.qty > 0
      /\ view[key].filled + view[key].leaves = asked[key].qty
  <2>1. TypeOK /\ QuantityConserved
    BY DEF EngineInv
  <2>2. QED BY <1>3, <2>1, ConservedMeans
<1>5. key # mine
  BY <1>2, <1>3
<1>6. asked[mine] # Null
  <2>1. mine[2] < next_order_id[mine[1]]
    <3>1. mine[2] \in Nat
      BY <1>2, KeyParts
    <3>2. mine[2] < mine[2] + 1
      BY <3>1
    <3>3. QED BY <1>2, <3>2
  <2>2. QED BY <1>2, <2>1 DEF EngineInv, IdsInTurn
<1>7. /\ taker.qty = view[mine].leaves
      /\ view[mine].filled + view[mine].leaves = asked[mine].qty
  <2>1. TypeOK /\ QuantityConserved
    BY DEF EngineInv
  <2>2. QED BY <1>1, <1>2, <1>6, <2>1, ConservedMeans
<1>8. /\ fill \in Nat /\ fill > 0 /\ fill <= order.qty /\ fill <= taker.qty
      /\ left \in Nat /\ leaves \in Nat
  <2>1. fill = IF taker.qty < order.qty THEN taker.qty ELSE order.qty
    BY DEF FillQty
  <2>2. taker.qty > 0 /\ order.qty > 0 /\ taker.qty \in Nat /\ order.qty \in Nat
    BY <1>1, <1>2, <1>3, <1>4
  <2> HIDE DEF order, fill
  <2>3. QED BY <2>1, <2>2
<1>9. /\ book \in Books /\ (book.fault \/ InOrder(book))
      /\ \A k \in Keys \ {key} : book.orders[k] = old.orders[k]
      /\ IF left = 0 THEN book.orders[key] = Null
         ELSE book.orders[key] = [order EXCEPT !.qty = left]
  <2>1. Filled(old, book, key, left)
    BY <1>3, <1>8, FillFills
  <2>2. QED BY <2>1 DEF Filled
<1>10. /\ <<r.client, r.order_id>> = mine /\ r.type = "FILLED"
       /\ r.exec_qty = fill /\ r.leaves_qty = leaves
       /\ <<q.client, q.order_id>> = key /\ q.type = "FILLED"
       /\ q.exec_qty = fill /\ q.leaves_qty = left
  <2>1. <<mine[1], mine[2]>> = mine /\ <<key[1], key[2]>> = key
    BY <1>2, <1>3, KeyParts
  <2>2. QED BY <2>1 DEF Response
<1> HIDE DEF r, q
<1>11. view' = [k \in Keys |-> IF k = mine THEN Told(view[k], r)
                               ELSE IF k = key THEN Told(view[k], q) ELSE view[k]]
  BY <1>1, <1>2, <1>3, <1>5, <1>10, TellTwo
<1>12. view \in [Keys -> [filled : Nat, leaves : Nat]]
  BY DEF EngineInv, TypeOK
<1>13. /\ view'[mine] = [filled |-> view[mine].filled + fill, leaves |-> leaves]
       /\ view'[key] = [filled |-> view[key].filled + fill, leaves |-> left]
       /\ \A k \in Keys : k # mine /\ k # key => view'[k] = view[k]
  BY <1>2, <1>3, <1>5, <1>10, <1>11 DEF Told
<1>14. view' \in [Keys -> [filled : Nat, leaves : Nat]]
  <2>1. /\ [filled |-> view[mine].filled + fill, leaves |-> leaves]
              \in [filled : Nat, leaves : Nat]
        /\ [filled |-> view[key].filled + fill, leaves |-> left]
              \in [filled : Nat, leaves : Nat]
    BY <1>2, <1>3, <1>8, <1>12
  <2>2. \A k \in Keys : view'[k] \in [filled : Nat, leaves : Nat]
    BY <1>12, <1>13, <2>1
  <2>3. QED BY <1>11, <2>2
<1>15. /\ ticker_order_book_' \in [Tickers -> Books] /\ ticker_order_book_'[t] = book
       /\ \A u \in Tickers : u # t => ticker_order_book_'[u] = ticker_order_book_[u]
  BY <1>1, <1>2, <1>9, OneBook DEF EngineInv
<1>16. /\ taker' \in Takers /\ taker'.key = mine /\ taker'.book = t /\ taker'.qty = leaves
  BY <1>1, <1>2, <1>8 DEF Takers
<1> HIDE DEF key, order, left, leaves, book, old, fill, t, mine
<1>17. ASSUME NEW u \in Tickers, NEW k \in Keys
       PROVE  /\ ticker_order_book_[u].orders[k] = Null =>
                     ticker_order_book_'[u].orders[k] = Null
              /\ k # key => ticker_order_book_'[u].orders[k] = ticker_order_book_[u].orders[k]
              /\ k = key /\ ticker_order_book_'[u].orders[k] # Null =>
                     /\ u = t /\ left # 0
                     /\ ticker_order_book_'[u].orders[k].qty = left
  <2>1. CASE u = t
    <3>1. order.qty \in Nat /\ [order EXCEPT !.qty = left].qty = left
      BY <1>3 DEF OrderRecords
    <3>2. old = ticker_order_book_[t] /\ order = old.orders[key]
      BY DEF old, order
    <3>3. QED BY <1>3, <1>9, <1>15, <2>1, <3>1, <3>2
  <2>2. CASE u # t
    <3>1. ticker_order_book_[u].orders[key] = Null
      BY <1>3, <2>2 DEF EngineInv, OwnOrders
    <3>2. QED BY <1>15, <2>2, <3>1
  <2>3. QED BY <2>1, <2>2
<1>18. TypeOK'
  <2>1. spoiled' = spoiled
    BY DEF match
  <2>2. QED BY <1>1, <1>14, <1>15, <1>16, <2>1 DEF EngineInv, TypeOK
<1>19. BooksInOrder'
  BY <1>9, <1>15 DEF EngineInv, BooksInOrder
<1>20. OwnOrders'
  BY <1>1, <1>17 DEF EngineInv, OwnOrders
<1>21. IdsInTurn'
  BY <1>1, <1>3, <1>6, <1>13 DEF EngineInv, IdsInTurn
<1>22. TakerIsLast'
  <2>1. ticker_order_book_'[t].orders[mine] = Null
    BY <1>2, <1>17 DEF old
  <2>2. QED BY <1>1, <1>2, <1>16, <2>1 DEF TakerIsLast
<1>23. QuantityConserved'
  <2>1. ASSUME NEW k \in Keys, asked[k] # Null
        PROVE  /\ view'[k].filled + view'[k].leaves = asked[k].qty
               /\ ticker_order_book_'[k[1]].orders[k] # Null =>
                     /\ ticker_order_book_'[k[1]].orders[k].qty = view'[k].leaves
                     /\ ticker_order_book_'[k[1]].orders[k].qty > 0
               /\ taker' # Null /\ taker'.key = k => taker'.qty = view'[k].leaves
    <3>0. k[1] \in Tickers /\ view[k].filled \in Nat /\ view[k].leaves \in Nat
      BY <1>12, KeyParts
    <3>1. CASE k = mine
      <4>1. view[k].filled + fill + leaves = view[k].filled + view[k].leaves
        BY <1>2, <1>7, <1>8, <3>0, <3>1 DEF leaves
      <4>2. ticker_order_book_'[k[1]].orders[k] = Null
        BY <1>2, <1>17, <3>1 DEF old
      <4>3. QED BY <1>7, <1>13, <1>16, <3>1, <4>1, <4>2
    <3>2. CASE k = key
      <4>1. view[k].filled + fill + left = view[k].filled + view[k].leaves
        BY <1>3, <1>4, <1>8, <3>0, <3>2 DEF left
      <4>2. ticker_order_book_'[k[1]].orders[k] # Null =>
               left > 0 /\ ticker_order_book_'[k[1]].orders[k].qty = left
        BY <1>8, <1>17, <3>0, <3>2
      <4>3. QED BY <1>4, <1>5, <1>13, <1>16, <3>2, <4>1, <4>2
    <3>3. CASE k # mine /\ k # key
      <4>1. /\ view[k].filled + view[k].leaves = asked[k].qty
            /\ ticker_order_book_[k[1]].orders[k] # Null =>
                     /\ ticker_order_book_[k[1]].orders[k].qty = view[k].leaves
                     /\ ticker_order_book_[k[1]].orders[k].qty > 0
        BY <2>1, ConservedMeans DEF EngineInv
      <4>2. QED BY <1>13, <1>16, <1>17, <3>0, <3>3, <4>1
    <3>4. QED BY <3>1, <3>2, <3>3
  <2>2. QED BY <1>1, <2>1 DEF QuantityConserved, Resting, BookOf
<1>24. ASSUME NEW k \in Keys, Ended(k)
       PROVE  /\ Ended(k)'
              /\ \A i \in DOMAIN responses' :
                    <<responses'[i].client, responses'[i].order_id>> = k
                        => responses'[i].type = "CANCEL_REJECTED"
  <2>1. /\ asked[k] # Null /\ ticker_order_book_[k[1]].orders[k] = Null /\ k[1] \in Tickers
        /\ k # mine
    BY <1>1, <1>24, KeyParts DEF Ended, Resting, BookOf, mine
  <2>2. k # key
    BY <1>3, <2>1 DEF old, order
  <2>3. asked'[k] # Null /\ ticker_order_book_'[k[1]].orders[k] = Null /\ taker'.key # k
    BY <1>1, <1>16, <1>17, <2>1
  <2>4. DOMAIN responses' = {1, 2} /\ responses'[1] = r /\ responses'[2] = q
    BY <1>1
  <2>5. \A i \in DOMAIN responses' : <<responses'[i].client, responses'[i].order_id>> # k
    BY <1>10, <2>1, <2>2, <2>4
  <2>6. QED BY <2>3, <2>5 DEF Ended, Resting, BookOf
<1>25. QED BY <1>18, <1>19, <1>20, <1>21, <1>22, <1>23, <1>24 DEF EngineInv, StaysEnded

\* An order that comes to rest is filed behind those that came before it.
LEMMA RestAdds ==
    ASSUME EngineInv, rest, taker.qty # 0
    PROVE  LET old   == ticker_order_book_[taker.book]
               order == [ticker |-> taker.ticker, side |-> taker.side, price |-> taker.price,
                         qty |-> taker.qty, priority |-> getNextPriority(old, taker.price),
                         market_order_id |-> taker.market_order_id]
               book  == addOrder(old, taker.key, order)
           IN  SetBook(taker.book, book) /\ Added(old, book, taker.key, order)
<1> DEFINE t     == taker.book
           old   == ticker_order_book_[t]
           mine  == taker.key
           prio  == getNextPriority(old, taker.price)
           order == [ticker |-> taker.ticker, side |-> taker.side, price |-> taker.price,
                     qty |-> taker.qty, priority |-> prio,
                     market_order_id |-> taker.market_order_id]
           book  == addOrder(old, mine, order)
<1>1. taker # Null /\ Sound(t) /\ SetBook(t, book)
  BY DEF rest
<1>2. /\ taker \in Takers /\ t \in Tickers /\ mine \in Keys /\ taker.qty \in Nat
      /\ taker.price \in Prices
      /\ t = mine[1] /\ mine[2] + 1 = next_order_id[t] /\ old.orders[mine] = Null
  BY <1>1 DEF EngineInv, TypeOK, TakerIsLast, Takers
<1>3. /\ old \in Books /\ ~old.fault /\ InOrder(old)
      /\ \A k \in Live(old) : k \in Keys /\ k[1] = t /\ asked[k] # Null
      /\ mine \notin Live(old)
  BY <1>1, <1>2, BookFacts
<1>4. prio \in Nat \ {0}
  BY <1>2, <1>3, NextPriorityIsNext DEF InOrder
<1>5. order \in OrderRecords /\ order.priority = getNextPriority(old, order.price)
  BY <1>2, <1>4 DEF OrderRecords, Takers
<1>6. ASSUME NEW k \in Live(old) PROVE k[2] < mine[2]
  <2>1. k \in Keys /\ k[1] = t /\ asked[k] # Null /\ k # mine
    BY <1>3
  <2>2. k[2] \in Nat /\ mine[2] \in Nat /\ k = <<k[1], k[2]>> /\ mine = <<mine[1], mine[2]>>
    BY <1>2, <2>1, KeyParts
  <2>3. k[2] # mine[2]
    BY <1>2, <2>1, <2>2
  <2>4. k[2] < mine[2] + 1
    BY <1>2, <2>1 DEF EngineInv, IdsInTurn
  <2>5. QED BY <2>2, <2>3, <2>4
<1>7. \A k \in Live(old) : k[2] < mine[2]
  BY <1>6
<1> HIDE DEF order, old, mine
<1>8. Added(old, book, mine, order)
  BY <1>2, <1>3, <1>5, <1>7, AddOrderAdds
<1>9. QED BY <1>1, <1>8 DEF order, old, mine

\* The history of misplaced levels stays one Boolean per book.
LEMMA RestMaySpoil ==
    ASSUME EngineInv, rest
    PROVE  spoiled' \in [Tickers -> BOOLEAN]
<1> DEFINE t    == taker.book
           hurt == spoiled[t] \/ Spoils(ticker_order_book_[t], taker.side, taker.price)
<1>1. spoiled \in [Tickers -> BOOLEAN]
  BY DEF EngineInv, TypeOK
<1>2. spoiled' = spoiled \/ spoiled' = [spoiled EXCEPT ![t] = hurt]
  BY DEF rest
<1>3. hurt \in BOOLEAN
  OBVIOUS
<1> HIDE DEF hurt
<1>4. QED BY <1>1, <1>2, <1>3

\* The end of NEW: what nobody took becomes an order of the book, behind those
\* that came before it.
LEMMA RestKeeps ==
    ASSUME EngineInv, rest
    PROVE  EngineInv' /\ \A k \in Keys : StaysEnded(k)
<1> DEFINE t     == taker.book
           old   == ticker_order_book_[t]
           mine  == taker.key
           prio  == getNextPriority(old, taker.price)
           order == [ticker |-> taker.ticker, side |-> taker.side, price |-> taker.price,
                     qty |-> taker.qty, priority |-> prio,
                     market_order_id |-> taker.market_order_id]
           book  == addOrder(old, mine, order)
<1>1. /\ taker # Null /\ Sound(t) /\ taker' = Null
      /\ IF taker.qty = 0 THEN ticker_order_book_' = ticker_order_book_ ELSE SetBook(t, book)
      /\ responses' = << >> /\ Tell(<< >>)
      /\ next_order_id' = next_order_id /\ asked' = asked
  BY DEF rest, Send
<1>2. /\ taker \in Takers /\ t \in Tickers /\ mine \in Keys /\ taker.qty \in Nat
      /\ taker.price \in Prices
      /\ t = mine[1] /\ mine[2] + 1 = next_order_id[t] /\ old.orders[mine] = Null
  BY <1>1 DEF EngineInv, TypeOK, TakerIsLast, Takers
<1>3. /\ old \in Books /\ ~old.fault /\ InOrder(old)
      /\ \A k \in Live(old) : k \in Keys /\ k[1] = t /\ asked[k] # Null
      /\ mine \notin Live(old)
  BY <1>1, <1>2, BookFacts
<1>4. view' = view
  BY <1>1, TellNone DEF EngineInv
<1>5. asked[mine] # Null
  <2>1. mine[2] < mine[2] + 1
    BY <1>2, KeyParts
  <2>2. QED BY <1>2, <2>1 DEF EngineInv, IdsInTurn
<1>6. taker.qty = view[mine].leaves
  <2>1. TypeOK /\ QuantityConserved
    BY DEF EngineInv
  <2>2. QED BY <1>1, <1>2, <1>5, <2>1, ConservedMeans
<1>7. ASSUME taker.qty # 0
      PROVE  /\ book \in Books /\ (book.fault \/ InOrder(book))
             /\ book.orders = [old.orders EXCEPT ![mine] = order]
  <2>1. Added(old, book, mine, order)
    BY <1>7, RestAdds
  <2>2. QED BY <2>1 DEF Added
<1>8. /\ order.qty = taker.qty
      /\ old = ticker_order_book_[t]
      /\ DOMAIN old.orders = Keys
  BY <1>3, BookFields
<1> HIDE DEF old, mine, order, book, t
<1>9. ticker_order_book_' \in [Tickers -> Books] /\ BooksInOrder'
  <2>1. CASE taker.qty = 0
    BY <1>1, <2>1 DEF EngineInv, TypeOK, BooksInOrder
  <2>2. CASE taker.qty # 0
    <3>1. /\ ticker_order_book_' \in [Tickers -> Books] /\ ticker_order_book_'[t] = book
          /\ \A u \in Tickers : u # t => ticker_order_book_'[u] = ticker_order_book_[u]
      BY <1>1, <1>2, <1>7, <2>2, OneBook DEF EngineInv
    <3>2. QED BY <1>7, <2>2, <3>1 DEF EngineInv, BooksInOrder
  <2>3. QED BY <2>1, <2>2
<1>10. ASSUME NEW u \in Tickers, NEW k \in Keys
       PROVE  /\ u # t \/ k # mine =>
                    ticker_order_book_'[u].orders[k] = ticker_order_book_[u].orders[k]
              /\ u = t /\ k = mine /\ ticker_order_book_'[u].orders[k] # Null =>
                    taker.qty # 0 /\ ticker_order_book_'[u].orders[k].qty = taker.qty
  <2>1. CASE taker.qty = 0
    BY <1>1, <1>2, <1>8, <2>1
  <2>2. CASE taker.qty # 0
    <3>1. /\ ticker_order_book_'[t] = book
          /\ \A v \in Tickers : v # t => ticker_order_book_'[v] = ticker_order_book_[v]
      BY <1>1, <1>2, <1>7, <2>2, OneBook DEF EngineInv
    <3>2. book.orders[mine] = order /\ \A l \in Keys : l # mine => book.orders[l] = old.orders[l]
      BY <1>2, <1>7, <1>8, <2>2
    <3>3. QED BY <1>8, <2>2, <3>1, <3>2
  <2>3. QED BY <2>1, <2>2
<1>11. TypeOK'
  <2>1. spoiled' \in [Tickers -> BOOLEAN]
    BY RestMaySpoil
  <2>2. QED BY <1>1, <1>4, <1>9, <2>1 DEF EngineInv, TypeOK
<1>12. OwnOrders'
  <2>1. ASSUME NEW u \in Tickers, NEW k \in Keys, ticker_order_book_'[u].orders[k] # Null
        PROVE  k[1] = u /\ asked'[k] # Null
    <3>1. CASE u = t /\ k = mine
      BY <1>1, <1>2, <1>5, <3>1
    <3>2. CASE u # t \/ k # mine
      BY <1>1, <1>10, <2>1, <3>2 DEF EngineInv, OwnOrders
    <3>3. QED BY <3>1, <3>2
  <2>2. QED BY <2>1 DEF OwnOrders
<1>13. IdsInTurn' /\ TakerIsLast'
  BY <1>1, <1>4 DEF EngineInv, IdsInTurn, TakerIsLast
<1>14. QuantityConserved'
  <2>1. ASSUME NEW k \in Keys, asked[k] # Null
        PROVE  /\ view[k].filled + view[k].leaves = asked[k].qty
               /\ ticker_order_book_'[k[1]].orders[k] # Null =>
                     /\ ticker_order_book_'[k[1]].orders[k].qty = view[k].leaves
                     /\ ticker_order_book_'[k[1]].orders[k].qty > 0
    <3>0. k[1] \in Tickers
      BY KeyParts
    <3>1. /\ view[k].filled + view[k].leaves = asked[k].qty
          /\ ticker_order_book_[k[1]].orders[k] # Null =>
                     /\ ticker_order_book_[k[1]].orders[k].qty = view[k].leaves
                     /\ ticker_order_book_[k[1]].orders[k].qty > 0
      BY <2>1, ConservedMeans DEF EngineInv
    <3>2. CASE k = mine
      <4>1. taker.qty # 0 => taker.qty > 0
        BY <1>2
      <4>2. QED BY <1>2, <1>6, <1>10, <3>0, <3>1, <3>2, <4>1
    <3>3. CASE k # mine
      BY <1>10, <3>0, <3>1, <3>3
    <3>4. QED BY <3>2, <3>3
  <2>2. QED BY <1>1, <1>4, <2>1 DEF QuantityConserved, Resting, BookOf
<1>15. ASSUME NEW k \in Keys, Ended(k)
       PROVE  /\ Ended(k)'
              /\ \A i \in DOMAIN responses' :
                    <<responses'[i].client, responses'[i].order_id>> = k
                        => responses'[i].type = "CANCEL_REJECTED"
  <2>1. /\ asked[k] # Null /\ ticker_order_book_[k[1]].orders[k] = Null /\ k[1] \in Tickers
        /\ k # mine
    BY <1>1, <1>15, KeyParts DEF Ended, Resting, BookOf, mine
  <2>2. asked'[k] # Null /\ ticker_order_book_'[k[1]].orders[k] = Null /\ taker' = Null
    BY <1>1, <1>10, <2>1
  <2>3. DOMAIN responses' = {}
    BY <1>1
  <2>4. QED BY <2>2, <2>3 DEF Ended, Resting, BookOf
<1>16. QED BY <1>9, <1>11, <1>12, <1>13, <1>14, <1>15 DEF EngineInv, StaysEnded

\* CANCEL: the order leaves the book, or its client hears that it is not there.
LEMMA CancelKeeps ==
    ASSUME EngineInv, NEW client \in Clients, NEW order_id \in OrderIds, cancel(client, order_id)
    PROVE  EngineInv' /\ \A k \in Keys : StaysEnded(k)
<1> DEFINE key   == <<client, order_id>>
           old   == ticker_order_book_[client]
           order == old.orders[key]
           book  == removeOrder(old, key)
           tick  == asked[key].ticker
           rej   == Response("CANCEL_REJECTED", key, tick, Invalid, Invalid, Invalid,
                             Invalid, Invalid)
           done  == Response("CANCELED", key, tick, order.market_order_id, order.side,
                             order.price, Invalid, order.qty)
           r     == IF order = Null THEN rej ELSE done
<1>1. /\ taker = Null /\ Sound(client) /\ asked[key] # Null
      /\ IF order = Null THEN ticker_order_book_' = ticker_order_book_ ELSE SetBook(client, book)
      /\ responses' = <<r>> /\ Tell(<<r>>)
      /\ taker' = taker /\ next_order_id' = next_order_id /\ asked' = asked
  BY DEF cancel, Send, BookOf
<1>2. client \in Tickers /\ key \in Keys /\ key[1] = client
  BY ClientsAssumption DEF Keys
<1>3. /\ old \in Books /\ InOrder(old) /\ DOMAIN old.orders = Keys
      /\ order # Null => key \in Live(old)
  BY <1>1, <1>2, BookFacts, BookFields
<1>4. /\ <<r.client, r.order_id>> = key
      /\ r.type = IF order = Null THEN "CANCEL_REJECTED" ELSE "CANCELED"
  BY DEF Response
<1>5. ASSUME order # Null
      PROVE  /\ book \in Books /\ (book.fault \/ InOrder(book))
             /\ book.orders = [old.orders EXCEPT ![key] = Null]
  <2>1. Removed(old, book, key)
    BY <1>3, <1>5, RemoveOrderRemoves
  <2>2. QED BY <2>1 DEF Removed
<1> HIDE DEF r, book, key
<1>6. view' = view
  <2>1. view' = [k \in Keys |-> IF k = key THEN Told(view[k], r) ELSE view[k]]
    BY <1>1, <1>2, <1>4, TellOne
  <2>2. \A k \in Keys : Told(view[k], r) = view[k]
    BY <1>4 DEF Told
  <2>3. view' = [k \in Keys |-> view[k]]
    BY <2>1, <2>2
  <2>4. QED BY <2>3 DEF EngineInv, TypeOK
<1>7. ticker_order_book_' \in [Tickers -> Books] /\ BooksInOrder'
  <2>1. CASE order = Null
    BY <1>1, <2>1 DEF EngineInv, TypeOK, BooksInOrder
  <2>2. CASE order # Null
    <3>1. /\ ticker_order_book_' \in [Tickers -> Books] /\ ticker_order_book_'[client] = book
          /\ \A u \in Tickers : u # client => ticker_order_book_'[u] = ticker_order_book_[u]
      BY <1>1, <1>2, <1>5, <2>2, OneBook DEF EngineInv
    <3>2. QED BY <1>5, <2>2, <3>1 DEF EngineInv, BooksInOrder
  <2>3. QED BY <2>1, <2>2
<1>8. ASSUME NEW u \in Tickers, NEW k \in Keys
      PROVE  /\ k # key =>
                   ticker_order_book_'[u].orders[k] = ticker_order_book_[u].orders[k]
             /\ ticker_order_book_'[u].orders[k] # Null =>
                   ticker_order_book_'[u].orders[k] = ticker_order_book_[u].orders[k]
  <2>1. CASE order = Null
    BY <1>1, <2>1
  <2>2. CASE order # Null
    <3>1. /\ ticker_order_book_'[client] = book
          /\ \A v \in Tickers : v # client => ticker_order_book_'[v] = ticker_order_book_[v]
      BY <1>1, <1>2, <1>5, <2>2, OneBook DEF EngineInv
    <3>2. book.orders[key] = Null /\ \A l \in Keys : l # key => book.orders[l] = old.orders[l]
      BY <1>2, <1>3, <1>5, <2>2
    <3>3. QED BY <3>1, <3>2
  <2>3. QED BY <2>1, <2>2
<1>9. TypeOK'
  <2>1. spoiled' = spoiled
    BY DEF cancel
  <2>2. QED BY <1>1, <1>6, <1>7, <2>1 DEF EngineInv, TypeOK
<1>10. OwnOrders'
  BY <1>1, <1>8 DEF EngineInv, OwnOrders
<1>11. IdsInTurn' /\ TakerIsLast'
  BY <1>1, <1>6 DEF EngineInv, IdsInTurn, TakerIsLast
<1>12. QuantityConserved'
  <2>1. ASSUME NEW k \in Keys, asked[k] # Null
        PROVE  /\ view[k].filled + view[k].leaves = asked[k].qty
               /\ ticker_order_book_'[k[1]].orders[k] # Null =>
                     /\ ticker_order_book_'[k[1]].orders[k].qty = view[k].leaves
                     /\ ticker_order_book_'[k[1]].orders[k].qty > 0
    <3>0. k[1] \in Tickers
      BY KeyParts
    <3>1. /\ view[k].filled + view[k].leaves = asked[k].qty
          /\ ticker_order_book_[k[1]].orders[k] # Null =>
                     /\ ticker_order_book_[k[1]].orders[k].qty = view[k].leaves
                     /\ ticker_order_book_[k[1]].orders[k].qty > 0
      BY <2>1, ConservedMeans DEF EngineInv
    <3>2. QED BY <1>8, <3>0, <3>1
  <2>2. QED BY <1>1, <1>6, <2>1 DEF QuantityConserved, Resting, BookOf
<1>13. ASSUME NEW k \in Keys, Ended(k)
       PROVE  /\ Ended(k)'
              /\ \A i \in DOMAIN responses' :
                    <<responses'[i].client, responses'[i].order_id>> = k
                        => responses'[i].type = "CANCEL_REJECTED"
  <2>1. asked[k] # Null /\ ticker_order_book_[k[1]].orders[k] = Null /\ k[1] \in Tickers
    BY <1>13, KeyParts DEF Ended, Resting, BookOf
  <2>2. asked'[k] # Null /\ ticker_order_book_'[k[1]].orders[k] = Null /\ taker' = Null
    BY <1>1, <1>8, <2>1
  <2>3. DOMAIN responses' = {1} /\ responses'[1] = r
    BY <1>1
  <2>4. k = key => order = Null
    BY <1>2, <2>1
  <2>5. QED BY <1>4, <2>2, <2>3, <2>4 DEF Ended, Resting, BookOf
<1>14. QED BY <1>7, <1>9, <1>10, <1>11, <1>12, <1>13 DEF EngineInv, StaysEnded

\* Every step keeps the invariant, and leaves the orders that have ended alone.
LEMMA EngineStep ==
    ASSUME EngineInv, Next
    PROVE  EngineInv' /\ \A k \in Keys : StaysEnded(k)
<1>1. CASE processClientRequest
  BY <1>1, AddKeeps, CancelKeeps DEF processClientRequest
<1>2. CASE match
  BY <1>2, MatchKeeps
<1>3. CASE rest
  BY <1>3, RestKeeps
<1>4. QED BY <1>1, <1>2, <1>3 DEF Next

-----------------------------------------------------------------------------

\* The invariant holds in every state the engine reaches, whatever the prices,
\* quantities, number of clients and size of the hash map of levels: prices that
\* collide and levels tied in the wrong order included.
THEOREM EngineSafety == Spec => []EngineInv
<1>1. ASSUME EngineInv, [Next]_vars PROVE EngineInv'
  <2>1. CASE Next
    BY <1>1, <2>1, EngineStep
  <2>2. CASE UNCHANGED vars
    BY <1>1, <2>2 DEF vars, EngineInv, TypeOK, BooksInOrder, OwnOrders, IdsInTurn, TakerIsLast,
                      QuantityConserved, Resting, BookOf
  <2>3. QED BY <1>1, <2>1, <2>2
<1>2. QED BY EngineInit, <1>1, PTL DEF Spec

\* No quantity is made or lost between addOrder(), match() and cancel(): what a
\* client was told was filled and is left adds up to what it asked for, and is
\* what the book or the request in progress still offers.
THEOREM NothingLost == Spec => []QuantityConserved
<1>1. EngineInv => QuantityConserved
  BY DEF EngineInv
<1>2. QED BY EngineSafety, <1>1, PTL

\* An order that was filled or canceled never rests or trades again, and its
\* client only hears that it cannot be canceled.
THEOREM EndedForGood == Spec => EndedOrdersStayEnded
<1>1. ASSUME EngineInv, [Next]_vars
      PROVE  [\A k \in Keys : Ended(k) =>
                /\ Ended(k)'
                /\ \A i \in DOMAIN responses' :
                      <<responses'[i].client, responses'[i].order_id>> = k
                          => responses'[i].type = "CANCEL_REJECTED"]_vars
  BY <1>1, EngineStep DEF StaysEnded
<1>2. QED BY EngineSafety, <1>1, PTL DEF Spec, EndedOrdersStayEnded

\* The orders of every level are in the order they came, by their priorities
\* and by their ids, although getNextPriority() only looks at the last of them
\* and orders leave from every place of the list.
THEOREM FirstComeFirstServed == Spec => []TimePriority
<1>1. EngineInv => TimePriority
  BY DEF EngineInv, BooksInOrder, InOrder, TimePriority, SoundBooks, Sound
<1>2. QED BY EngineSafety, <1>1, PTL

-----------------------------------------------------------------------------
(* Rings: circular lists that are sorted.                                  *)

\* The elements S, the cost of each in c, are tied into one ring by nx and pv,
\* from the cheapest, which is the head h, up: what follows an element is the
\* cheapest of all that cost more, or the head when none does.
Ring(S, h, c, nx, pv) ==
    /\ IF S = {} THEN h = Null ELSE h \in S
    /\ \A i \in S : /\ c[i] \in Int /\ c[h] <= c[i]
                    /\ nx[i] \in S /\ pv[i] \in S /\ pv[nx[i]] = i /\ nx[pv[i]] = i
    /\ \A i, j \in S : c[i] = c[j] => i = j
    /\ \A i, j \in S : IF nx[i] = h THEN c[j] <= c[i]
                       ELSE c[i] < c[nx[i]] /\ (c[j] <= c[i] \/ c[nx[i]] <= c[j])

\* An element that is tied in where it belongs leaves a ring.
LEMMA RingGrows ==
    ASSUME NEW S, NEW h, NEW c, NEW nx, NEW pv, Ring(S, h, c, nx, pv),
           NEW p \in S, NEW new, new \notin S, NEW hh, NEW c2, NEW nx2, NEW pv2,
           \A i \in S : c2[i] = c[i] /\ c[i] # c2[new],
           c2[new] \in Int,
           \A i \in S : nx2[i] = IF i = p THEN new ELSE nx[i],
           \A i \in S : pv2[i] = IF i = nx[p] THEN new ELSE pv[i],
           nx2[new] = nx[p], pv2[new] = p,
           \/ c[p] < c2[new] /\ (nx[p] = h \/ c2[new] < c[nx[p]]) /\ hh = h
           \/ nx[p] = h /\ c2[new] < c[h] /\ hh = new
    PROVE  Ring(S \cup {new}, hh, c2, nx2, pv2)
<1> DEFINE T == S \cup {new}
           t == nx[p]
<1>1. /\ h \in S /\ t \in S /\ hh \in T
      /\ \A i \in T : i = new \/ i \in S
      /\ \A i \in S : i # new
  BY DEF Ring
<1>2. ASSUME NEW i \in S
      PROVE  /\ c[i] \in Int /\ c[h] <= c[i] /\ nx[i] \in S /\ pv[i] \in S
             /\ pv[nx[i]] = i /\ nx[pv[i]] = i
  BY DEF Ring
<1>3. ASSUME NEW i \in T
      PROVE  c2[i] \in Int /\ c2[hh] <= c2[i] /\ nx2[i] \in T /\ pv2[i] \in T
  <2>1. CASE i = new
    BY <1>1, <1>2, <2>1
  <2>2. CASE i \in S
    BY <1>1, <1>2, <2>2
  <2>3. QED BY <1>1, <2>1, <2>2
<1>4. ASSUME NEW i \in T PROVE pv2[nx2[i]] = i
  <2>1. CASE i = new
    BY <1>1, <2>1
  <2>2. CASE i = p
    BY <1>1, <2>2
  <2>3. CASE i \in S /\ i # p
    <3>1. nx2[i] = nx[i] /\ nx[i] \in S /\ nx[i] # t
      BY <1>1, <1>2, <2>3
    <3>2. QED BY <1>2, <2>3, <3>1
  <2>4. QED BY <1>1, <2>1, <2>2, <2>3
<1>5. ASSUME NEW i \in T PROVE nx2[pv2[i]] = i
  <2>1. CASE i = new
    BY <1>1, <2>1
  <2>2. CASE i = t
    BY <1>1, <2>2
  <2>3. CASE i \in S /\ i # t
    <3>1. pv2[i] = pv[i] /\ pv[i] \in S /\ pv[i] # p
      BY <1>1, <1>2, <2>3
    <3>2. QED BY <1>2, <2>3, <3>1
  <2>4. QED BY <1>1, <2>1, <2>2, <2>3
<1>6. ASSUME NEW i \in T, NEW j \in T, c2[i] = c2[j] PROVE i = j
  <2>1. CASE i \in S /\ j \in S
    BY <1>6, <2>1 DEF Ring
  <2>2. CASE i = new \/ j = new
    BY <1>1, <1>6, <2>2
  <2>3. QED BY <1>1, <2>1, <2>2
<1>7. ASSUME NEW i \in T, NEW j \in T
      PROVE  IF nx2[i] = hh THEN c2[j] <= c2[i]
             ELSE c2[i] < c2[nx2[i]] /\ (c2[j] <= c2[i] \/ c2[nx2[i]] <= c2[j])
  <2>1. \A k, l \in S : IF nx[k] = h THEN c[l] <= c[k]
                        ELSE c[k] < c[nx[k]] /\ (c[l] <= c[k] \/ c[nx[k]] <= c[l])
    BY DEF Ring
  <2>2. ASSUME c[p] < c2[new], nx[p] = h \/ c2[new] < c[nx[p]], hh = h
        PROVE  IF nx2[i] = hh THEN c2[j] <= c2[i]
               ELSE c2[i] < c2[nx2[i]] /\ (c2[j] <= c2[i] \/ c2[nx2[i]] <= c2[j])
    <3>1. CASE i = new
      <4>1. nx2[i] = t
        BY <3>1
      <4>2. CASE j = new
        BY <1>1, <1>2, <2>2, <3>1, <4>1, <4>2
      <4>3. CASE j \in S
        BY <1>1, <1>2, <2>1, <2>2, <3>1, <4>1, <4>3
      <4>4. QED BY <1>1, <4>2, <4>3
    <3>2. CASE i = p
      <4>1. nx2[i] = new /\ new # hh
        BY <1>1, <2>2, <3>2
      <4>2. CASE j = new
        BY <1>1, <1>2, <2>2, <3>2, <4>1, <4>2
      <4>3. CASE j \in S
        BY <1>1, <1>2, <2>1, <2>2, <3>2, <4>1, <4>3
      <4>4. QED BY <1>1, <4>2, <4>3
    <3>3. CASE i \in S /\ i # p
      <4>1. nx2[i] = nx[i] /\ nx[i] \in S /\ nx[i] # t
        BY <1>2, <3>3
      <4>2. CASE j \in S
        BY <1>1, <2>1, <2>2, <3>3, <4>1, <4>2
      <4>3. CASE j = new /\ nx[i] = h
        <5>1. c[t] <= c[i] /\ c2[new] < c[t]
          BY <1>1, <2>1, <2>2, <3>3, <4>1, <4>3
        <5>2. QED BY <1>1, <1>2, <1>3, <2>2, <3>3, <4>1, <4>3, <5>1
      <4>4. CASE j = new /\ nx[i] # h
        <5>1. c[i] < c[nx[i]] /\ (c[p] <= c[i] \/ c[nx[i]] <= c[p])
          BY <2>1, <3>3, <4>4
        <5>2. c[p] # c[i]
          BY <3>3 DEF Ring
        <5>3. CASE c[nx[i]] <= c[p]
          BY <1>1, <1>2, <1>3, <2>2, <3>3, <4>1, <4>4, <5>1, <5>3
        <5>4. CASE c[p] < c[i]
          <6>1. t # h
            BY <1>1, <1>2, <2>1, <3>3, <5>4
          <6>2. c[t] <= c[i]
            BY <1>1, <1>2, <2>1, <3>3, <5>4, <6>1
          <6>3. QED BY <1>1, <1>2, <1>3, <2>2, <3>3, <4>1, <4>4, <5>1, <6>1, <6>2
        <5>5. QED BY <1>2, <3>3, <5>1, <5>2, <5>3, <5>4
      <4>5. QED BY <1>1, <4>2, <4>3, <4>4
    <3>4. QED BY <1>1, <3>1, <3>2, <3>3
  <2>3. ASSUME nx[p] = h, c2[new] < c[h], hh = new
        PROVE  IF nx2[i] = hh THEN c2[j] <= c2[i]
               ELSE c2[i] < c2[nx2[i]] /\ (c2[j] <= c2[i] \/ c2[nx2[i]] <= c2[j])
    <3>1. CASE i = new
      <4>1. nx2[i] = h /\ h # hh
        BY <1>1, <2>3, <3>1
      <4>2. QED BY <1>1, <1>2, <1>3, <2>3, <3>1, <4>1
    <3>2. CASE i = p
      <4>1. nx2[i] = hh /\ \A l \in S : c[l] <= c[p]
        BY <2>1, <2>3, <3>2
      <4>2. c[h] <= c[p]
        BY <1>2
      <4>3. QED BY <1>1, <1>2, <1>3, <2>3, <3>2, <4>1, <4>2
    <3>3. CASE i \in S /\ i # p
      <4>1. nx2[i] = nx[i] /\ nx[i] \in S /\ nx[i] # h /\ nx[i] # hh
        BY <1>1, <1>2, <2>3, <3>3
      <4>2. CASE j \in S
        BY <1>1, <2>1, <3>3, <4>1, <4>2
      <4>3. CASE j = new
        <5>1. c[h] <= c[i]
          BY <1>2, <3>3
        <5>2. QED BY <1>1, <1>2, <1>3, <2>1, <2>3, <3>3, <4>1, <4>3, <5>1
      <4>4. QED BY <1>1, <4>2, <4>3
    <3>4. QED BY <1>1, <3>1, <3>2, <3>3
  <2>4. QED BY <2>2, <2>3
<1>8. QED BY <1>1, <1>3, <1>4, <1>5, <1>6, <1>7 DEF Ring

\* An element that follows itself is alone.
LEMMA RingOfOne ==
    ASSUME NEW S, NEW h, NEW c, NEW nx, NEW pv, Ring(S, h, c, nx, pv), NEW x \in S, nx[x] = x
    PROVE  S = {x} /\ h = x
<1>1. x = h
  BY DEF Ring
<1>2. \A j \in S : c[j] = c[x]
  BY <1>1 DEF Ring
<1>3. QED BY <1>1, <1>2 DEF Ring

\* A ring without one of its elements.
LEMMA RingShrinks ==
    ASSUME NEW S, NEW h, NEW c, NEW nx, NEW pv, Ring(S, h, c, nx, pv),
           NEW x \in S, nx[x] # x, NEW T, T = S \ {x}, NEW c2, NEW nx2, NEW pv2,
           \A i \in T : c2[i] = c[i],
           \A i \in T : nx2[i] = IF i = pv[x] THEN nx[x] ELSE nx[i],
           \A i \in T : pv2[i] = IF i = nx[x] THEN pv[x] ELSE pv[i],
           NEW hh, hh = IF x = h THEN nx[x] ELSE h
    PROVE  Ring(T, hh, c2, nx2, pv2)
<1> DEFINE p  == pv[x]
           t  == nx[x]
<1>1. ASSUME NEW i \in S
      PROVE  /\ c[i] \in Int /\ c[h] <= c[i] /\ nx[i] \in S /\ pv[i] \in S
             /\ pv[nx[i]] = i /\ nx[pv[i]] = i
  BY DEF Ring
<1>2. \A k, l \in S : IF nx[k] = h THEN c[l] <= c[k]
                      ELSE c[k] < c[nx[k]] /\ (c[l] <= c[k] \/ c[nx[k]] <= c[l])
  BY DEF Ring
<1>3. t \in T /\ p \in T /\ hh \in T /\ h \in S /\ nx[p] = x /\ pv[t] = x
  BY <1>1 DEF Ring
<1>4. ASSUME NEW i \in T
      PROVE  c2[i] \in Int /\ c2[hh] <= c2[i] /\ nx2[i] \in T /\ pv2[i] \in T
  <2>1. nx[i] = x => i = p
    BY <1>1
  <2>2. pv[i] = x => i = t
    BY <1>1
  <2>3. c[hh] <= c[i]
    <3>1. CASE x # h
      BY <1>1, <3>1
    <3>2. CASE x = h
      <4>1. CASE t = h
        BY <1>3, <3>2, <4>1
      <4>2. CASE t # h
        <5>1. c[i] <= c[x] \/ c[t] <= c[i]
          BY <1>2, <4>2
        <5>2. c[x] <= c[i] /\ c[i] # c[x]
          BY <1>1, <3>2 DEF Ring
        <5>3. QED BY <1>1, <1>3, <3>2, <5>1, <5>2
      <4>3. QED BY <4>1, <4>2
    <3>3. QED BY <3>1, <3>2
  <2> HIDE DEF p, t
  <2>4. nx2[i] \in T /\ pv2[i] \in T
    <3>1. nx2[i] = IF i = p THEN t ELSE nx[i]
      BY DEF p, t
    <3>2. pv2[i] = IF i = t THEN p ELSE pv[i]
      BY DEF p, t
    <3>3. QED BY <1>1, <1>3, <2>1, <2>2, <3>1, <3>2
  <2>5. QED BY <1>1, <1>3, <2>3, <2>4
<1>5. ASSUME NEW i \in T PROVE pv2[nx2[i]] = i
  <2>1. CASE i = p
    BY <1>3, <2>1
  <2>2. CASE i # p
    <3>1. nx2[i] = nx[i] /\ nx[i] \in T /\ nx[i] # t
      BY <1>1, <1>4, <2>2
    <3>2. QED BY <1>1, <3>1
  <2>3. QED BY <2>1, <2>2
<1>6. ASSUME NEW i \in T PROVE nx2[pv2[i]] = i
  <2>1. CASE i = t
    BY <1>3, <2>1
  <2>2. CASE i # t
    <3>1. pv2[i] = pv[i] /\ pv[i] \in T /\ pv[i] # p
      BY <1>1, <1>4, <2>2
    <3>2. QED BY <1>1, <3>1
  <2>3. QED BY <2>1, <2>2
<1>7. ASSUME NEW i \in T, NEW j \in T
      PROVE  IF nx2[i] = hh THEN c2[j] <= c2[i]
             ELSE c2[i] < c2[nx2[i]] /\ (c2[j] <= c2[i] \/ c2[nx2[i]] <= c2[j])
  <2>1. /\ c2[i] = c[i] /\ c2[j] = c[j] /\ c2[nx2[i]] = c[nx2[i]]
        /\ c[i] \in Int /\ c[j] \in Int /\ c[x] \in Int /\ c[t] \in Int /\ c[nx[i]] \in Int
    BY <1>1, <1>3, <1>4
  <2>2. CASE i # p
    <3>1. nx2[i] = nx[i] /\ nx[i] # x /\ nx[i] # t
      BY <1>1, <1>4, <2>2
    <3>2. CASE nx[i] = h
      BY <1>2, <2>1, <3>1, <3>2
    <3>3. CASE nx[i] # h
      BY <1>2, <2>1, <3>1, <3>3
    <3>4. QED BY <3>2, <3>3
  <2>3. CASE i = p
    <3>1. nx2[i] = t /\ nx[i] = x
      BY <1>3, <2>3
    <3>2. CASE x = h
      BY <1>2, <2>1, <2>3, <3>1, <3>2
    <3>3. CASE x # h
      <4>1. c[i] < c[x] /\ (c[j] <= c[i] \/ c[x] <= c[j])
        BY <1>2, <3>1, <3>3
      <4>2. c[j] # c[x]
        BY DEF Ring
      <4>3. CASE t = h
        <5>1. c[j] <= c[x]
          BY <1>2, <4>3
        <5>2. QED BY <2>1, <3>1, <3>3, <4>1, <4>2, <4>3, <5>1
      <4>4. CASE t # h
        <5>1. c[x] < c[t] /\ (c[j] <= c[x] \/ c[t] <= c[j])
          BY <1>2, <4>4
        <5> HIDE DEF t
        <5>2. QED BY <2>1, <3>1, <3>3, <4>1, <4>2, <4>4, <5>1
      <4>5. QED BY <4>3, <4>4
    <3>4. QED BY <3>2, <3>3
  <2>4. QED BY <2>2, <2>3
<1>8. \A i, j \in T : c2[i] = c2[j] => i = j
  BY DEF Ring
<1>9. QED BY <1>3, <1>4, <1>5, <1>6, <1>7, <1>8 DEF Ring

-----------------------------------------------------------------------------
(* The levels of a side.                                                   *)

\* The better a price is for the other side, the less it costs.
Cost(side, price) == IF side = "SELL" THEN price ELSE -price

Costs(levels, side) == [i \in LevelIndices |-> Cost(side, levels[i].price)]
Nexts(levels) == [i \in LevelIndices |-> levels[i].next]
Prevs(levels) == [i \in LevelIndices |-> levels[i].prev]

\* The levels of a side are tied into a ring, best first.
SideRing(book, side) ==
    Ring(SidePrices(book, side), Best(book, side),
         Costs(book.levels, side), Nexts(book.levels), Prevs(book.levels))

\* Each level stands at the index of its price, which is one of its side.
LevelsPlaced(book) ==
    \A i \in Levels(book) :
        /\ priceToIndex(book.levels[i].price) = i
        /\ book.levels[i].price \in PricesOf(book.levels[i].side)

Rings(book) == SideRing(book, "BUY") /\ SideRing(book, "SELL") /\ LevelsPlaced(book)

\* What the comparisons of the code say of costs.
LEMMA CostMeans ==
    ASSUME NEW side \in Sides, NEW price \in Nat, NEW level, level.price \in Nat
    PROVE  /\ Cost(side, price) \in Int /\ Cost(side, level.price) \in Int
           /\ GoesAfter(side, price, level) <=> Cost(side, level.price) < Cost(side, price)
           /\ GoesAfter(Opposite(side), price, level)
                 <=> Cost(side, price) < Cost(side, level.price)
           /\ Cost(side, price) = Cost(side, level.price) <=> price = level.price
<1>1. CASE side = "SELL"
  BY <1>1 DEF Cost, GoesAfter, Opposite
<1>2. CASE side = "BUY"
  BY <1>2 DEF Cost, GoesAfter, Opposite
<1>3. QED BY <1>1, <1>2 DEF Sides

\* The first comparison of a side with the best level.
LEMMA FirstComparison ==
    ASSUME NEW side \in Sides, NEW price \in Nat, NEW level, level.price \in Nat,
           price # level.price
    PROVE  /\ GoesAfter(side, price, level) => GoesAfterBest(side, price, level)
           /\ side = "BUY" =>
                (GoesAfterBest(side, price, level) <=> GoesAfter(side, price, level))
<1>1. CASE side = "SELL"
  BY <1>1 DEF GoesAfter, GoesAfterBest
<1>2. CASE side = "BUY"
  BY <1>2 DEF GoesAfter, GoesAfterBest
<1>3. QED BY <1>1, <1>2 DEF Sides

\* The fields of a level.
LEMMA LevelFields ==
    ASSUME NEW book \in Books, NEW i \in Levels(book)
    PROVE  /\ i \in LevelIndices /\ i # Null
           /\ book.levels[i] \in LevelRecords /\ book.levels[i].side \in Sides
           /\ book.levels[i].price \in Prices /\ book.levels[i].price \in Nat
           /\ book.levels[i].orders \in Seq(Keys)
           /\ book.levels[i].next \in LevelIndices /\ book.levels[i].prev \in LevelIndices
           /\ i \in SidePrices(book, book.levels[i].side)
<1>1. i \in LevelIndices /\ book.levels[i] \in LevelRecords
  BY BookFields
<1>2. Prices \subseteq Nat
  BY OrdersAssumption DEF Prices
<1>3. QED BY <1>1, <1>2, NullAssumption DEF LevelRecords, SidePrices

\* What a ring says of the levels it ties, field by field.
LEMMA RingMeans ==
    ASSUME NEW book \in Books, NEW side \in Sides, SideRing(book, side)
    PROVE  LET S == SidePrices(book, side)
               best == Best(book, side)
               cost(i) == Cost(side, book.levels[i].price)
           IN  /\ IF S = {} THEN best = Null ELSE best \in S
               /\ best # Null => best \in S
               /\ \A i \in S :
                     /\ i \in Levels(book) /\ i \in LevelIndices /\ book.levels[i].side = side
                     /\ cost(i) \in Int /\ cost(best) <= cost(i)
                     /\ book.levels[i].next \in S /\ book.levels[i].prev \in S
                     /\ book.levels[book.levels[i].next].prev = i
                     /\ book.levels[book.levels[i].prev].next = i
               /\ \A i, j \in S : cost(i) = cost(j) => i = j
               /\ \A i, j \in S :
                     IF book.levels[i].next = best THEN cost(j) <= cost(i)
                     ELSE /\ cost(i) < cost(book.levels[i].next)
                          /\ cost(j) <= cost(i) \/ cost(book.levels[i].next) <= cost(j)
<1> DEFINE S == SidePrices(book, side)
           best == Best(book, side)
           c  == Costs(book.levels, side)
           nx == Nexts(book.levels)
           pv == Prevs(book.levels)
<1>1. Ring(S, best, c, nx, pv)
  BY DEF SideRing
<1>2. /\ S \subseteq LevelIndices /\ \A i \in S : i \in Levels(book) /\ book.levels[i].side = side
      /\ \A i \in LevelIndices : /\ c[i] = Cost(side, book.levels[i].price)
                                /\ nx[i] = book.levels[i].next /\ pv[i] = book.levels[i].prev
  BY DEF SidePrices, Levels, Costs, Nexts, Prevs
<1>3. S # {} => best \in S
  BY <1>1 DEF Ring
<1> HIDE DEF S, best, c, nx, pv
<1>4. IF S = {} THEN best = Null ELSE best \in S
  BY <1>1 DEF Ring
<1>5. ASSUME NEW i \in S
      PROVE  /\ Cost(side, book.levels[i].price) \in Int
             /\ Cost(side, book.levels[best].price) <= Cost(side, book.levels[i].price)
             /\ book.levels[i].next \in S /\ book.levels[i].prev \in S
             /\ book.levels[book.levels[i].next].prev = i
             /\ book.levels[book.levels[i].prev].next = i
  BY <1>1, <1>2, <1>3 DEF Ring
<1>6. ASSUME NEW i \in S, NEW j \in S
      PROVE  /\ Cost(side, book.levels[i].price) = Cost(side, book.levels[j].price) => i = j
             /\ IF book.levels[i].next = best
                THEN Cost(side, book.levels[j].price) <= Cost(side, book.levels[i].price)
                ELSE /\ Cost(side, book.levels[i].price)
                           < Cost(side, book.levels[book.levels[i].next].price)
                     /\ \/ Cost(side, book.levels[j].price) <= Cost(side, book.levels[i].price)
                        \/ Cost(side, book.levels[book.levels[i].next].price)
                              <= Cost(side, book.levels[j].price)
  <2>1. /\ i \in LevelIndices /\ j \in LevelIndices /\ book.levels[i].next \in LevelIndices
        /\ nx[i] = book.levels[i].next
    BY <1>2, <1>5
  <2>2. /\ c[i] = c[j] => i = j
        /\ IF nx[i] = best THEN c[j] <= c[i]
           ELSE c[i] < c[nx[i]] /\ (c[j] <= c[i] \/ c[nx[i]] <= c[j])
    BY <1>1 DEF Ring
  <2>3. QED BY <1>2, <2>1, <2>2
<1>7. best # Null => best \in S
  BY <1>4
<1>8. QED BY <1>2, <1>4, <1>5, <1>6, <1>7 DEF S, best

\* A ring only looks at the links and prices of its own levels.
LEMMA RingElsewhere ==
    ASSUME NEW book \in Books, NEW side \in Sides, SideRing(book, side), NEW after \in Books,
           SidePrices(after, side) = SidePrices(book, side), Best(after, side) = Best(book, side),
           \A i \in SidePrices(book, side) :
               /\ after.levels[i].price = book.levels[i].price
               /\ after.levels[i].next = book.levels[i].next
               /\ after.levels[i].prev = book.levels[i].prev
    PROVE  SideRing(after, side)
<1> DEFINE S == SidePrices(book, side)
           best == Best(book, side)
           c  == Costs(book.levels, side)
           nx == Nexts(book.levels)
           pv == Prevs(book.levels)
           c2  == Costs(after.levels, side)
           nx2 == Nexts(after.levels)
           pv2 == Prevs(after.levels)
<1>1. Ring(S, best, c, nx, pv)
  BY DEF SideRing
<1>2. S \subseteq LevelIndices
  BY DEF SidePrices, Levels
<1>3. \A i \in S : c2[i] = c[i] /\ nx2[i] = nx[i] /\ pv2[i] = pv[i]
  BY <1>2 DEF Costs, Nexts, Prevs
<1>4. SidePrices(after, side) = S /\ Best(after, side) = best
  OBVIOUS
<1> HIDE DEF S, best, c, nx, pv, c2, nx2, pv2
<1>5. S # {} => best \in S
  BY <1>1 DEF Ring
<1>6. Ring(S, best, c2, nx2, pv2)
  <2>1. ASSUME NEW i \in S
        PROVE  /\ c2[i] \in Int /\ c2[best] <= c2[i] /\ nx2[i] \in S /\ pv2[i] \in S
               /\ pv2[nx2[i]] = i /\ nx2[pv2[i]] = i
    BY <1>1, <1>3, <1>5 DEF Ring
  <2>2. ASSUME NEW i \in S, NEW j \in S
        PROVE  /\ c2[i] = c2[j] => i = j
               /\ IF nx2[i] = best THEN c2[j] <= c2[i]
                  ELSE c2[i] < c2[nx2[i]] /\ (c2[j] <= c2[i] \/ c2[nx2[i]] <= c2[j])
    <3>1. nx[i] \in S
      BY <1>1 DEF Ring
    <3>2. QED BY <1>1, <1>3, <3>1 DEF Ring
  <2>3. QED BY <1>1, <2>1, <2>2 DEF Ring
<1>7. QED BY <1>4, <1>6 DEF SideRing, c2, nx2, pv2

-----------------------------------------------------------------------------
(* Tying a level in and out.                                               *)

\* after is before with the level new tied in between p and t.
TiedIn(before, after, p, new, t, E) ==
    \A i \in E :
        /\ after[i].side = before[i].side /\ after[i].price = before[i].price
        /\ after[i].next = IF i = p THEN new ELSE IF i = new THEN t ELSE before[i].next
        /\ after[i].prev = IF i = t THEN new ELSE IF i = new THEN p ELSE before[i].prev

\* Link(), field by field.
LEMMA LinkMeans ==
    ASSUME NEW levels, NEW E, LevelMap(levels, E), NEW from \in E, NEW to \in E
    PROVE  LET after == Link(levels, from, to)
           IN  \A i \in E :
                 /\ after[i].side = levels[i].side /\ after[i].price = levels[i].price
                 /\ after[i].next = IF i = from THEN to ELSE levels[i].next
                 /\ after[i].prev = IF i = to THEN from ELSE levels[i].prev
<1> DEFINE one == [levels EXCEPT ![from].next = to]
           two == [one EXCEPT ![to].prev = from]
<1>1. \A i \in E : i \in LevelIndices /\ levels[i] \in LevelRecords
  BY DEF LevelMap
<1>2. /\ DOMAIN levels = LevelIndices
      /\ \A i \in LevelIndices : i # from => one[i] = levels[i]
      /\ one[from] = [levels[from] EXCEPT !.next = to]
      /\ DOMAIN one = LevelIndices
  BY <1>1 DEF LevelMap
<1>3. /\ one[from].next = to /\ one[from].prev = levels[from].prev
      /\ one[from].side = levels[from].side /\ one[from].price = levels[from].price
      /\ DOMAIN one[from] = {"side", "price", "orders", "prev", "next"}
  BY <1>1, <1>2 DEF LevelRecords
<1>4. /\ \A i \in LevelIndices : i # to => two[i] = one[i]
      /\ two[to] = [one[to] EXCEPT !.prev = from]
  BY <1>1, <1>2
<1>5. DOMAIN one[to] = {"side", "price", "orders", "prev", "next"}
  BY <1>1, <1>2, <1>3 DEF LevelRecords
<1>6. /\ two[to].prev = from /\ two[to].next = one[to].next
      /\ two[to].side = one[to].side /\ two[to].price = one[to].price
  BY <1>4, <1>5
<1>7. Link(levels, from, to) = two
  BY DEF Link
<1> HIDE DEF one, two
<1>8. ASSUME NEW i \in E
      PROVE  /\ two[i].side = levels[i].side /\ two[i].price = levels[i].price
             /\ two[i].next = IF i = from THEN to ELSE levels[i].next
             /\ two[i].prev = IF i = to THEN from ELSE levels[i].prev
  <2>1. /\ one[i].side = levels[i].side /\ one[i].price = levels[i].price
        /\ one[i].next = IF i = from THEN to ELSE levels[i].next
        /\ one[i].prev = levels[i].prev
    BY <1>1, <1>2, <1>3
  <2>2. CASE i = to
    BY <1>6, <2>1, <2>2
  <2>3. CASE i # to
    <3>1. two[i] = one[i]
      BY <1>1, <1>4, <2>3
    <3>2. QED BY <2>1, <2>3, <3>1
  <2>4. QED BY <2>2, <2>3
<1>9. QED BY <1>7, <1>8

\* Both ways to insert tie the new level in.
LEMMA InsertTies ==
    ASSUME NEW levels, NEW E, LevelMap(levels, E), LinksIn(levels, E),
           NEW at \in E, NEW new \in E, at # new, levels[at].prev # new
    PROVE  /\ TiedIn(levels, InsertBefore(levels, at, new), levels[at].prev, new, at, E)
           /\ levels[levels[at].prev].next # new =>
                TiedIn(levels, InsertLast(levels, at, new), levels[at].prev, new,
                       levels[levels[at].prev].next, E)
<1> DEFINE p   == levels[at].prev
           t   == levels[p].next
           one == Link(levels, p, new)
<1>1. p \in E /\ t \in E
  BY DEF LinksIn
<1>2. LevelMap(one, E)
  BY <1>1, LinkKeeps
<1>3. \A i \in E : /\ one[i].side = levels[i].side /\ one[i].price = levels[i].price
                   /\ one[i].next = IF i = p THEN new ELSE levels[i].next
                   /\ one[i].prev = IF i = new THEN p ELSE levels[i].prev
  BY <1>1, LinkMeans
<1>4. ASSUME NEW to \in E, to # new
      PROVE  TiedIn(levels, Link(one, new, to), p, new, to, E)
  <2> DEFINE two == Link(one, new, to)
  <2>1. \A i \in E : /\ two[i].side = one[i].side /\ two[i].price = one[i].price
                     /\ two[i].next = IF i = new THEN to ELSE one[i].next
                     /\ two[i].prev = IF i = to THEN new ELSE one[i].prev
    BY <1>2, LinkMeans
  <2>2. p # new
    OBVIOUS
  <2> HIDE DEF two, one, p
  <2>3. TiedIn(levels, two, p, new, to, E)
    BY <1>3, <1>4, <2>1, <2>2 DEF TiedIn
  <2>4. QED BY <2>3 DEF two
<1>5. InsertLast(levels, at, new) = Link(one, new, t)
  BY DEF InsertLast
<1>6. InsertBefore(levels, at, new) = Link(one, new, at)
  BY DEF InsertBefore
<1> HIDE DEF one
<1>7. QED BY <1>1, <1>4, <1>5, <1>6

-----------------------------------------------------------------------------
(* Inserting a level.                                                      *)

\* The places where the search may stop.
LEMMA StopsMeans ==
    ASSUME NEW book, NEW side, NEW price, NEW best, Stops(book, side, price, best) # {}
    PROVE  LET stops == Stops(book, side, price, best)
               n     == Smallest(stops)
               hop   == Hop(book, best)
           IN  /\ n \in 1 .. MaxPriceLevels
               /\ hop[n] = best \/ ~GoesAfter(side, price, book.levels[hop[n]])
               /\ \A m \in 1 .. MaxPriceLevels :
                     m < n => hop[m] # best /\ GoesAfter(side, price, book.levels[hop[m]])
<1> DEFINE stops == Stops(book, side, price, best)
           n     == Smallest(stops)
<1>0. MaxPriceLevels \in Nat
  BY LevelsAssumption
<1>1. stops \in SUBSET Nat
  BY <1>0 DEF Stops
<1>2. n \in stops /\ \A m \in stops : n <= m
  <2> HIDE DEF stops
  <2>1. \E x \in stops : \A y \in stops : x <= y
    BY <1>1, Least DEF stops
  <2>2. QED BY <2>1 DEF Smallest
<1>3. \A m \in 1 .. MaxPriceLevels : m < n => m \notin stops
  <2>1. n \in Nat
    BY <1>1, <1>2
  <2> HIDE DEF stops, n
  <2>2. QED BY <1>0, <1>2, <2>1
<1> HIDE DEF n
<1>4. QED BY <1>2, <1>3 DEF Stops, n

\* In front of the only level of a side the search does not matter.
LEMMA EitherWay ==
    ASSUME NEW book \in Books, ~Dangles(book), NEW side \in Sides, SideRing(book, side),
           NEW price \in Prices, NEW list,
           SidePrices(book, side) = {Best(book, side)},
           ~GoesAfter(side, price, book.levels[Best(book, side)])
    PROVE  LET level == [side |-> side, price |-> price, orders |-> list,
                         prev |-> Null, next |-> Null]
           IN  InsertLevel(book, level, TRUE) = InsertLevel(book, level, FALSE)
<1> DEFINE best  == Best(book, side)
           stops == Stops(book, side, price, best)
           hop   == Hop(book, best)
           level == [side |-> side, price |-> price, orders |-> list,
                     prev |-> Null, next |-> Null]
<1>0. MaxPriceLevels \in Nat /\ 1 \in 1 .. MaxPriceLevels /\ 1 - 1 = 0
  BY LevelsAssumption
<1>1. best \in SidePrices(book, side) /\ best \in Levels(book) /\ book.levels[best].next = best
  <2>1. best \in SidePrices(book, side)
    OBVIOUS
  <2>2. QED BY <2>1, RingMeans
<1>2. hop[1] = best
  <2>1. hop[0] = best /\ hop[1] = book.levels[hop[1 - 1]].next
    BY <1>0, <1>1, HopSteps
  <2>2. QED BY <1>0, <1>1, <2>1
<1>3. 1 \in stops /\ stops # {}
  BY <1>0, <1>2 DEF Stops
<1>4. Smallest(stops) = 1
  <2>1. Smallest(stops) \in 1 .. MaxPriceLevels
    BY <1>3, StopsMeans
  <2>2. 1 < Smallest(stops) => hop[1] # best
    BY <1>0, <1>3, StopsMeans
  <2> HIDE DEF stops
  <2>3. QED BY <1>0, <1>2, <2>1, <2>2
<1>5. /\ level.side = side /\ level.price = price
      /\ ~(hop[1] = best /\ (1 > 1 \/ GoesAfter(side, price, book.levels[best])))
  OBVIOUS
<1> HIDE DEF hop, stops, level, best
<1>6. InsertLevel(book, level, TRUE) = InsertLevel(book, level, FALSE)
  BY <1>2, <1>3, <1>4, <1>5 DEF InsertLevel, hop, stops, best
<1>7. QED BY <1>6 DEF level

\* after has the levels of book, each at its old price, and the level new.
OneMoreLevel(book, after, new, side, price) ==
    /\ Levels(after) = Levels(book) \cup {new}
    /\ after.levels[new].side = side /\ after.levels[new].price = price
    /\ \A i \in Levels(book) : /\ after.levels[i].side = book.levels[i].side
                             /\ after.levels[i].price = book.levels[i].price

\* The side of a level more.
LEMMA SidesGrow ==
    ASSUME NEW book \in Books, NEW after \in Books, NEW new \in LevelIndices,
           new \notin Levels(book), NEW side \in Sides, NEW price,
           OneMoreLevel(book, after, new, side, price)
    PROVE  /\ SidePrices(after, side) = SidePrices(book, side) \cup {new}
           /\ new \notin SidePrices(book, side)
           /\ \A s \in Sides : s # side => SidePrices(after, s) = SidePrices(book, s)
BY DEF OneMoreLevel, SidePrices

\* Levels stay at the index of their price.
LEMMA PlacesGrow ==
    ASSUME NEW book \in Books, LevelsPlaced(book), NEW after \in Books, NEW side \in Sides,
           NEW price \in PricesOf(side), priceToIndex(price) \notin Levels(book),
           OneMoreLevel(book, after, priceToIndex(price), side, price)
    PROVE  LevelsPlaced(after)
BY DEF OneMoreLevel, LevelsPlaced

\* The other side of a book is left alone.
LEMMA OtherSide ==
    ASSUME NEW book \in Books, NEW side \in Sides, NEW other \in Sides, other # side,
           SideRing(book, other), NEW after \in Books,
           SidePrices(after, other) = SidePrices(book, other), Best(after, other) = Best(book, other),
           \A i \in SidePrices(book, other) :
               /\ after.levels[i].price = book.levels[i].price
               /\ after.levels[i].next = book.levels[i].next
               /\ after.levels[i].prev = book.levels[i].prev
    PROVE  SideRing(after, other)
BY RingElsewhere

\* The first level of a side.
LEMMA FirstLevelSorts ==
    ASSUME NEW book \in Books, Rings(book), NEW side \in Sides,
           NEW price \in PricesOf(side), NEW new, new = priceToIndex(price),
           new \in LevelIndices, new \notin Levels(book), NEW after \in Books,
           OneMoreLevel(book, after, new, side, price),
           Best(book, side) = Null, Best(after, side) = new,
           \A s \in Sides : s # side => Best(after, s) = Best(book, s),
           after.levels[new].next = new, after.levels[new].prev = new,
           \A i \in Levels(book) : /\ after.levels[i].next = book.levels[i].next
                                /\ after.levels[i].prev = book.levels[i].prev
    PROVE  Rings(after)
<1> DEFINE c  == Costs(after.levels, side)
           nx == Nexts(after.levels)
           pv == Prevs(after.levels)
<1>1. SidePrices(book, side) = {}
  <2>1. SideRing(book, side)
    BY DEF Rings, Sides
  <2>2. \A i \in SidePrices(book, side) : i # Null
    BY LevelFields DEF SidePrices
  <2>3. QED BY <2>1, <2>2, RingMeans
<1>2. SidePrices(after, side) = {new}
  BY <1>1, SidesGrow
<1>3. nx[new] = new /\ pv[new] = new /\ c[new] \in Int
  <2>1. price \in Nat
    BY OrdersAssumption DEF PricesOf
  <2>2. c[new] = Cost(side, price)
    BY DEF OneMoreLevel, Costs
  <2>3. QED BY <2>1, <2>2 DEF Nexts, Prevs, Cost
<1>4. SideRing(after, side)
  <2> HIDE DEF c, nx, pv
  <2>1. Ring({new}, new, c, nx, pv)
    BY <1>3 DEF Ring
  <2>2. QED BY <1>2, <2>1 DEF SideRing, c, nx, pv
<1>5. ASSUME NEW s \in Sides, s # side PROVE SideRing(after, s)
  <2>1. SideRing(book, s) /\ SidePrices(after, s) = SidePrices(book, s)
    BY <1>5, SidesGrow DEF Rings, Sides
  <2>2. SidePrices(book, s) \subseteq Levels(book)
    BY DEF SidePrices
  <2>3. QED BY <1>5, <2>1, <2>2, OtherSide DEF OneMoreLevel
<1>6. LevelsPlaced(after)
  BY PlacesGrow DEF Rings
<1>7. QED BY <1>4, <1>5, <1>6 DEF Rings, Sides

\* after is book with a level for price tied in behind the level p.
TiedBehind(book, after, side, price, p) ==
    LET new == priceToIndex(price)
        t   == book.levels[p].next
    IN  /\ OneMoreLevel(book, after, new, side, price)
        /\ \A i \in Levels(book) :
              /\ after.levels[i].next = IF i = p THEN new ELSE book.levels[i].next
              /\ after.levels[i].prev = IF i = t THEN new ELSE book.levels[i].prev
        /\ after.levels[new].next = t /\ after.levels[new].prev = p

\* The level p is where price belongs, and the heads of after say so.
BelongsBehind(book, after, side, price, p) ==
    LET t    == book.levels[p].next
        best == Best(book, side)
    IN  /\ \/ /\ Cost(side, book.levels[p].price) < Cost(side, price)
              /\ t = best \/ Cost(side, price) < Cost(side, book.levels[t].price)
              /\ Best(after, side) = best
           \/ /\ t = best /\ Cost(side, price) < Cost(side, book.levels[best].price)
              /\ Best(after, side) = priceToIndex(price)
        /\ \A s \in Sides : s # side => Best(after, s) = Best(book, s)

\* A level that is tied in between its neighbours in price.
LEMMA NextLevelSorts ==
    ASSUME NEW book \in Books, Rings(book), NEW side \in Sides,
           NEW price \in PricesOf(side), priceToIndex(price) \notin Levels(book),
           NEW after \in Books, NEW p \in SidePrices(book, side),
           TiedBehind(book, after, side, price, p), BelongsBehind(book, after, side, price, p)
    PROVE  Rings(after)
<1> DEFINE new == priceToIndex(price)
           t == book.levels[p].next
<1> DEFINE S  == SidePrices(book, side)
           h  == Best(book, side)
           c  == Costs(book.levels, side)
           nx == Nexts(book.levels)
           pv == Prevs(book.levels)
           c2  == Costs(after.levels, side)
           nx2 == Nexts(after.levels)
           pv2 == Prevs(after.levels)
<1>1. OneMoreLevel(book, after, new, side, price) /\ new \in LevelIndices
  <2>1. price \in Prices
    BY DEF Prices, PricesOf
  <2>2. QED BY <2>1, IndexInRange DEF TiedBehind
<1>2. SideRing(book, side)
  BY DEF Rings, Sides
<1>3. /\ \A i \in S : i \in Levels(book) /\ i \in LevelIndices
      /\ new \notin S /\ p \in S /\ h \in S /\ t \in S
  <2>1. S # {} /\ \A i \in S : i \in Levels(book) /\ i \in LevelIndices
    BY DEF SidePrices, Levels
  <2>2. h \in S /\ t \in S
    BY <1>2, <2>1, RingMeans
  <2>3. QED BY <2>1, <2>2
<1>4. ASSUME NEW i \in S
      PROVE  /\ c[i] = Cost(side, book.levels[i].price) /\ c2[i] = c[i]
             /\ nx[i] = book.levels[i].next /\ pv[i] = book.levels[i].prev
             /\ nx2[i] = IF i = p THEN new ELSE nx[i]
             /\ pv2[i] = IF i = t THEN new ELSE pv[i]
  <2>1. i \in Levels(book) /\ i \in LevelIndices
    BY <1>3
  <2>2. /\ after.levels[i].price = book.levels[i].price
        /\ after.levels[i].next = IF i = p THEN new ELSE book.levels[i].next
        /\ after.levels[i].prev = IF i = t THEN new ELSE book.levels[i].prev
    BY <2>1 DEF TiedBehind, OneMoreLevel
  <2>3. QED BY <2>1, <2>2 DEF Costs, Nexts, Prevs
<1>5. c2[new] = Cost(side, price) /\ nx2[new] = t /\ pv2[new] = p
  <2>1. new # p /\ new # t
    BY <1>3
  <2>2. after.levels[new].next = t /\ after.levels[new].prev = p
    BY DEF TiedBehind
  <2>3. after.levels[new].price = price
    BY <1>1 DEF OneMoreLevel
  <2>4. QED BY <1>1, <2>2, <2>3 DEF Costs, Nexts, Prevs
<1>6. ASSUME NEW i \in S PROVE c[i] # c2[new] /\ c2[new] \in Int
  <2>1. priceToIndex(book.levels[i].price) = i
    BY <1>3 DEF Rings, LevelsPlaced
  <2>2. book.levels[i].price \in Nat /\ price \in Nat
    BY <1>3, LevelFields, OrdersAssumption DEF PricesOf
  <2>3. book.levels[i].price # price
    BY <1>3, <2>1
  <2>4. QED BY <1>4, <1>5, <2>2, <2>3, CostMeans
<1>7. SideRing(after, side)
  <2>1. Ring(S, h, c, nx, pv)
    BY <1>2 DEF SideRing
  <2>2. nx[p] = t
    BY <1>3, <1>4
  <2>3. SidePrices(after, side) = S \cup {new}
    BY <1>1, SidesGrow
  <2>4. \/ /\ c[p] < c2[new] /\ (nx[p] = h \/ c2[new] < c[nx[p]])
           /\ Best(after, side) = h
        \/ /\ nx[p] = h /\ c2[new] < c[h] /\ Best(after, side) = new
    <3>1. \/ /\ Cost(side, book.levels[p].price) < Cost(side, price)
             /\ t = h \/ Cost(side, price) < Cost(side, book.levels[t].price)
             /\ Best(after, side) = h
          \/ /\ t = h /\ Cost(side, price) < Cost(side, book.levels[h].price)
             /\ Best(after, side) = new
      BY DEF BelongsBehind
    <3> HIDE DEF S, h, c, nx, pv, c2, nx2, pv2, t, new
    <3>2. QED BY <1>3, <1>4, <1>5, <2>2, <3>1
  <2> HIDE DEF S, h, c, nx, pv, c2, nx2, pv2
  <2>5. Ring(S \cup {new}, Best(after, side), c2, nx2, pv2)
    <3>1. /\ \A i \in S : c2[i] = c[i] /\ c[i] # c2[new]
          /\ c2[new] \in Int
          /\ \A i \in S : nx2[i] = IF i = p THEN new ELSE nx[i]
          /\ \A i \in S : pv2[i] = IF i = nx[p] THEN new ELSE pv[i]
          /\ nx2[new] = nx[p] /\ pv2[new] = p
      <4>1. c2[new] \in Int /\ \A i \in S : c2[i] = c[i] /\ c[i] # c2[new]
        BY <1>3, <1>4, <1>6
      <4>2. /\ \A i \in S : nx2[i] = IF i = p THEN new ELSE nx[i]
            /\ \A i \in S : pv2[i] = IF i = t THEN new ELSE pv[i]
        BY <1>4
      <4>3. QED BY <1>5, <2>2, <4>1, <4>2
    <3> HIDE DEF t, new
    <3>2. QED BY <1>3, <2>1, <2>4, <3>1, RingGrows
  <2>6. QED BY <2>3, <2>5 DEF SideRing, c2, nx2, pv2
<1>8. ASSUME NEW s \in Sides, s # side PROVE SideRing(after, s)
  <2>1. SideRing(book, s) /\ SidePrices(after, s) = SidePrices(book, s)
    BY <1>1, <1>8, SidesGrow DEF Rings, Sides
  <2>2. ASSUME NEW i \in SidePrices(book, s)
        PROVE  /\ after.levels[i].price = book.levels[i].price
               /\ after.levels[i].next = book.levels[i].next
               /\ after.levels[i].prev = book.levels[i].prev
    <3>1. i \in Levels(book) /\ book.levels[i].side = s
      BY DEF SidePrices
    <3>2. i # p /\ i # t
      BY <1>3, <1>8, <3>1 DEF SidePrices
    <3>3. QED BY <3>1, <3>2 DEF TiedBehind, OneMoreLevel
  <2>3. QED BY <1>8, <2>1, <2>2, OtherSide DEF BelongsBehind
<1>9. LevelsPlaced(after)
  BY <1>1, PlacesGrow DEF Rings
<1>10. QED BY <1>1, <1>7, <1>8, <1>9 DEF Rings, Sides

\* A level whose place is searched for as its side wants it is found its place.
LEMMA InsertLevelSorts ==
    ASSUME NEW book \in Books, ~Dangles(book), Rings(book),
           NEW side \in Sides, NEW price \in PricesOf(side), NEW list \in Seq(Keys),
           priceToIndex(price) \notin Levels(book)
    PROVE  LET level == [side |-> side, price |-> price, orders |-> list,
                         prev |-> Null, next |-> Null]
               past  == GoesAfter(side, price, book.levels[Best(book, side)])
               after == InsertLevel(book, level, past)
           IN  after.fault \/ /\ Rings(after)
                              /\ OneMoreLevel(book, after, priceToIndex(price), side, price)
<1> DEFINE level  == [side |-> side, price |-> price, orders |-> list,
                      prev |-> Null, next |-> Null]
           new    == priceToIndex(price)
           best   == Best(book, side)
           past   == GoesAfter(side, price, book.levels[best])
           after  == InsertLevel(book, level, past)
           E      == Levels(book) \cup {new}
           S      == SidePrices(book, side)
           fresh  == [level EXCEPT !.prev = new, !.next = new]
           levels == [book.levels EXCEPT ![new] = fresh]
           placed == [book EXCEPT !.levels = levels]
           stops  == Stops(book, side, price, best)
           n      == Smallest(stops)
           hop    == Hop(book, best)
           stop   == hop[n]
           last   == stop = best /\ (n > 1 \/ GoesAfter(side, price, book.levels[best]))
           target == IF past THEN stop ELSE best
           better == GoesAfter(Opposite(side), price, book.levels[best])
           before == InsertBefore(levels, target, new)
           relink == IF better /\ before[target].next = best
                     THEN [before EXCEPT ![target].next = new] ELSE before
           cost(i) == Cost(side, book.levels[i].price)
           k      == Cost(side, price)
<1>0. /\ price \in Prices /\ price \in Nat /\ new \in LevelIndices /\ new # Null
      /\ MaxPriceLevels \in Nat
  <2>1. price \in Prices /\ price \in Nat
    BY OrdersAssumption DEF Prices, PricesOf
  <2>2. QED BY <2>1, IndexInRange, NullAssumption, LevelsAssumption
<1>1. SideRing(book, side)
  BY DEF Rings, Sides
<1>2. SameOrders(book, after) /\ (after.fault \/ Grown(book, after, new, list))
  <2>1. past \in BOOLEAN
    <3>1. CASE side = "SELL"
      BY <3>1 DEF GoesAfter
    <3>2. CASE side # "SELL"
      BY <3>2 DEF GoesAfter
    <3>3. QED BY <3>1, <3>2
  <2> HIDE DEF past
  <2>2. QED BY <1>0, <2>1, InsertLevelGrows
<1>3. after \in Books
  BY <1>2 DEF SameOrders
<1>4. /\ after.fault \/ Levels(after) = Levels(book) \cup {new}
      /\ level.side = side /\ level.price = price
  BY <1>2 DEF Grown
<1>5. /\ \A i \in Levels(book) : i \in LevelIndices /\ i # new /\ levels[i] = book.levels[i]
      /\ levels[new] = fresh /\ fresh.next = new /\ fresh.prev = new
      /\ fresh.side = side /\ fresh.price = price
      /\ LevelMap(levels, E) /\ LinksIn(levels, E)
  <2>1. /\ \A i \in Levels(book) : i \in LevelIndices /\ i # new
        /\ \A i \in LevelIndices : i \notin Levels(book) => book.levels[i] = Null
    BY BookFields DEF Levels
  <2>2. fresh.next = new /\ fresh.prev = new /\ fresh.side = side /\ fresh.price = price
    OBVIOUS
  <2>3. fresh \in LevelRecords
    BY <1>0 DEF LevelRecords
  <2> HIDE DEF fresh
  <2>4. /\ levels \in [LevelIndices -> LevelRecords \cup {Null}] /\ levels[new] = fresh
        /\ \A i \in LevelIndices : i # new => levels[i] = book.levels[i]
    BY <1>0, <2>3, BookFields
  <2> HIDE DEF levels
  <2>5. LevelMap(levels, E)
    BY <1>0, <2>1, <2>3, <2>4, BookFields DEF LevelMap
  <2>6. LinksIn(levels, E)
    BY <2>1, <2>2, <2>4, TiedMeans DEF LinksIn
  <2>7. QED BY <2>1, <2>2, <2>4, <2>5, <2>6
<1>6. after = IF best = Null THEN SetBest(placed, side, new)
              ELSE IF ~past \/ (stops # {} /\ ~last)
                   THEN SetBest([placed EXCEPT !.levels = relink], side,
                                IF better THEN new ELSE best)
              ELSE IF stops = {} THEN [book EXCEPT !.fault = TRUE]
              ELSE [placed EXCEPT !.levels = InsertLast(levels, best, new)]
  BY <1>4 DEF InsertLevel
<1> DEFINE Finished(b, L, head) ==
               /\ b.levels = L /\ Best(b, side) = head
               /\ \A s \in Sides : s # side => Best(b, s) = Best(book, s)
<1>7. ASSUME NEW L, NEW head
      PROVE  /\ Finished(SetBest([placed EXCEPT !.levels = L], side, head), L, head)
             /\ Finished([placed EXCEPT !.levels = L], L, best)
             /\ Finished(SetBest(placed, side, head), levels, head)
  <2> DEFINE a == [placed EXCEPT !.levels = L]
  <2> HIDE DEF levels
  <2>1. /\ a.levels = L /\ a.bids = book.bids /\ a.asks = book.asks
        /\ placed.levels = levels /\ placed.bids = book.bids /\ placed.asks = book.asks
        /\ {"levels", "bids", "asks"} \subseteq DOMAIN a
        /\ {"levels", "bids", "asks"} \subseteq DOMAIN placed
    BY DEF Books
  <2> HIDE DEF a, placed
  <2>2. CASE side = "BUY"
    BY <2>1, <2>2 DEF SetBest, Best, Sides, a
  <2>3. CASE side = "SELL"
    BY <2>1, <2>3 DEF SetBest, Best, Sides, a
  <2>4. QED BY <2>2, <2>3 DEF Sides
<1> HIDE DEF level, fresh, levels, after, stops, n, hop, k, cost, past, better, last, relink, before,
             placed, best, new
<1>8. CASE best = Null
  <2>1. after = SetBest(placed, side, new)
    BY <1>6, <1>8
  <2>2. Finished(after, levels, new)
    <3> HIDE DEF Finished
    <3>1. QED BY <1>7, <2>1
  <2>3. CASE after.fault
    BY <2>3 DEF after, level, past, best
  <2>4. CASE ~after.fault
    <3>1. OneMoreLevel(book, after, new, side, price)
      BY <1>4, <1>5, <2>2, <2>4 DEF OneMoreLevel
    <3>2. Rings(after)
      BY <1>0, <1>3, <1>5, <1>8, <2>2, <3>1, FirstLevelSorts DEF best, new
    <3>3. QED BY <3>1, <3>2 DEF after, level, past, best, new
  <2>5. QED BY <2>3, <2>4
<1>9. CASE best # Null
  <2>1. /\ best \in S /\ best \in Levels(book) /\ book.levels[best].price \in Nat
        /\ book.levels[best].price # price
    <3>1. best \in S /\ best \in Levels(book)
      BY <1>1, <1>9, RingMeans DEF best
    <3>2. book.levels[best].price \in Nat /\ priceToIndex(book.levels[best].price) = best
      BY <3>1, LevelFields DEF Rings, LevelsPlaced
    <3>3. QED BY <1>5, <3>1, <3>2 DEF new
  <2>2. \A i \in S : /\ i \in Levels(book) /\ cost(i) \in Int
                     /\ book.levels[i].next \in S /\ book.levels[i].prev \in S
                     /\ book.levels[book.levels[i].next].prev = i
                     /\ book.levels[book.levels[i].prev].next = i
                     /\ book.levels[i].price \in Nat
                     /\ book.levels[i].price # price
    <3>1. ASSUME NEW i \in S
          PROVE  /\ i \in Levels(book) /\ cost(i) \in Int
                 /\ book.levels[i].next \in S /\ book.levels[i].prev \in S
                 /\ book.levels[book.levels[i].next].prev = i
                 /\ book.levels[book.levels[i].prev].next = i
      BY <1>1, RingMeans DEF cost
    <3>2. ASSUME NEW i \in S PROVE book.levels[i].price \in Nat /\ book.levels[i].price # price
      <4>1. priceToIndex(book.levels[i].price) = i /\ i \in Levels(book)
        BY <3>1 DEF Rings, LevelsPlaced
      <4>2. QED BY <1>5, <4>1, LevelFields DEF new
    <3>3. QED BY <3>1, <3>2
  <2>3. \A i \in S : /\ GoesAfter(side, price, book.levels[i]) <=> cost(i) < k
                     /\ cost(i) < k \/ k < cost(i)
                     /\ k \in Int
    <3>1. ASSUME NEW i \in S
          PROVE  /\ GoesAfter(side, price, book.levels[i]) <=> cost(i) < k
                 /\ cost(i) < k \/ k < cost(i)
                 /\ k \in Int
      <4>1. book.levels[i].price \in Nat /\ book.levels[i].price # price
        BY <2>2
      <4>2. /\ k \in Int /\ cost(i) \in Int
            /\ GoesAfter(side, price, book.levels[i]) <=> cost(i) < k
            /\ cost(i) = k => price = book.levels[i].price
        BY <1>0, <4>1, CostMeans DEF cost, k
      <4>3. QED BY <4>1, <4>2
    <3>2. QED BY <3>1
  <2>4. /\ past <=> cost(best) < k
        /\ better <=> k < cost(best)
    BY <1>0, <2>1, CostMeans DEF past, better, cost, k, best
  <2>5. ASSUME NEW p \in S, NEW t, t = book.levels[p].next, ~after.fault,
               TiedIn(levels, after.levels, p, new, t, E),
               \/ /\ cost(p) < k /\ (t = best \/ k < cost(t))
                  /\ Best(after, side) = best
               \/ /\ t = best /\ k < cost(best) /\ Best(after, side) = new,
               \A s \in Sides : s # side => Best(after, s) = Best(book, s)
        PROVE  Rings(after) /\ OneMoreLevel(book, after, new, side, price)
    <3>1. \A i \in Levels(book) : i # new /\ levels[i] = book.levels[i]
      BY <1>5
    <3>2. OneMoreLevel(book, after, new, side, price)
      BY <1>4, <1>5, <2>5, <3>1 DEF TiedIn, OneMoreLevel
    <3>3. p \in Levels(book) /\ t \in Levels(book)
      BY <2>2, <2>5
    <3>4. TiedBehind(book, after, side, price, p)
      <4>1. \A i \in Levels(book) :
               /\ after.levels[i].next = IF i = p THEN new ELSE book.levels[i].next
               /\ after.levels[i].prev = IF i = t THEN new ELSE book.levels[i].prev
        BY <2>5, <3>1 DEF TiedIn
      <4>2. after.levels[new].next = t /\ after.levels[new].prev = p
        BY <2>5, <3>1, <3>3 DEF TiedIn
      <4>3. QED BY <2>5, <3>2, <4>1, <4>2 DEF TiedBehind, new
    <3>5. BelongsBehind(book, after, side, price, p)
      BY <2>5 DEF BelongsBehind, cost, k, best, new
    <3>6. Rings(after)
      BY <1>3, <3>4, <3>5, NextLevelSorts
    <3>7. QED BY <3>2, <3>6
  <2>6. ASSUME NEW at \in S
        PROVE  /\ TiedIn(levels, InsertBefore(levels, at, new), book.levels[at].prev, new, at, E)
               /\ TiedIn(levels, InsertLast(levels, at, new), book.levels[at].prev, new, at, E)
    <3>1. at \in Levels(book) /\ levels[at] = book.levels[at] /\ at # new /\ at \in E
      BY <1>5, <2>2
    <3>2. /\ book.levels[at].prev \in Levels(book) /\ book.levels[at].prev # new
          /\ levels[book.levels[at].prev].next = at
      BY <1>5, <2>2
    <3>3. new \in E
      OBVIOUS
    <3> HIDE DEF E
    <3>4. QED BY <1>5, <3>1, <3>2, <3>3, InsertTies
  <2>7. CASE k < cost(best)
    <3>1. ~past /\ better /\ target = best
      BY <2>1, <2>2, <2>3, <2>4, <2>7
    <3> DEFINE p == book.levels[best].prev
    <3>2. TiedIn(levels, before, p, new, best, E) /\ p \in S /\ book.levels[p].next = best
      BY <2>1, <2>2, <2>6, <3>1 DEF before
    <3>3. before[best].next # best
      <4>1. best \in E /\ best # new
        BY <1>5, <2>1
      <4>2. before[best].next = IF best = p THEN new ELSE levels[best].next
        BY <3>2, <4>1 DEF TiedIn
      <4>3. CASE best = p
        BY <4>1, <4>2, <4>3
      <4>4. CASE best # p
        <5>1. book.levels[best].next # best
          BY <2>1, <2>2, <4>4
        <5>2. levels[best].next # best
          BY <1>5, <2>1, <5>1
        <5>3. QED BY <4>2, <4>4, <5>2
      <4>5. QED BY <4>3, <4>4
    <3>4. relink = before
      BY <3>1, <3>3 DEF relink
    <3>5. after = SetBest([placed EXCEPT !.levels = before], side, new)
      BY <1>6, <1>9, <3>1, <3>4
    <3>6. Finished(after, before, new)
      <4> HIDE DEF Finished
      <4>1. QED BY <1>7, <3>5
    <3>7. ~after.fault => Rings(after) /\ OneMoreLevel(book, after, new, side, price)
      BY <2>5, <2>7, <3>2, <3>6
    <3>8. QED BY <3>7 DEF after, level, past, best, new
  <2>8. CASE cost(best) < k
    <3>1. past /\ ~better /\ target = stop /\ relink = before
      BY <2>1, <2>2, <2>3, <2>4, <2>8 DEF relink
    <3>2. CASE stops = {}
      <4>1. after = [book EXCEPT !.fault = TRUE]
        BY <1>6, <1>9, <3>1, <3>2
      <4>2. after.fault
        BY <4>1 DEF Books
      <4>3. QED BY <4>2 DEF after, level, past, best
    <3>3. CASE stops # {}
      <4> DEFINE p == hop[n - 1]
      <4>1. /\ n \in 1 .. MaxPriceLevels
            /\ stop = best \/ ~GoesAfter(side, price, book.levels[stop])
            /\ \A m \in 1 .. MaxPriceLevels :
                  m < n => hop[m] # best /\ GoesAfter(side, price, book.levels[hop[m]])
        BY <3>3, StopsMeans DEF stops, n, hop
      <4>2. /\ hop[0] = best
            /\ \A m \in 1 .. MaxPriceLevels : hop[m] = book.levels[hop[m - 1]].next
            /\ \A m \in 0 .. MaxPriceLevels : hop[m] \in S
        <5>1. S \in SUBSET Levels(book) /\ \A i \in S : book.levels[i].next \in S
          BY <2>2
        <5> HIDE DEF S
        <5>2. QED BY <2>1, <5>1, HopSteps, HopStaysIn DEF hop
      <4>3. /\ p \in S /\ stop = book.levels[p].next /\ stop \in S
            /\ book.levels[stop].prev = p
        <5>1. n - 1 \in 0 .. MaxPriceLevels /\ n \in 0 .. MaxPriceLevels
          BY <1>0, <4>1
        <5>2. p \in S /\ stop = book.levels[p].next /\ stop \in S
          BY <4>1, <4>2, <5>1
        <5>3. QED BY <2>2, <5>2
      <4>4. cost(p) < k
        <5>1. CASE n = 1
          BY <2>8, <4>2, <5>1
        <5>2. CASE n # 1
          <6>1. n - 1 \in 1 .. MaxPriceLevels /\ n - 1 < n
            BY <1>0, <4>1, <5>2
          <6>2. GoesAfter(side, price, book.levels[p])
            BY <4>1, <6>1
          <6>3. QED BY <2>3, <4>3, <6>2
        <5>3. QED BY <5>1, <5>2
      <4> HIDE DEF p
      <4>5. CASE stop = best
        <5>1. last
          BY <2>1, <2>3, <2>8, <4>5 DEF last
        <5>2. after = [placed EXCEPT !.levels = InsertLast(levels, best, new)]
          BY <1>6, <1>9, <3>1, <3>3, <5>1
        <5>3. Finished(after, InsertLast(levels, best, new), best)
          <6> HIDE DEF Finished
          <6>1. QED BY <1>7, <5>2
        <5>4. TiedIn(levels, after.levels, p, new, best, E)
          BY <2>1, <2>6, <4>3, <4>5, <5>3
        <5>5. ~after.fault => Rings(after) /\ OneMoreLevel(book, after, new, side, price)
          BY <2>5, <4>3, <4>4, <4>5, <5>3, <5>4
        <5>6. QED BY <5>5 DEF after, level, past, best, new
      <4>6. CASE stop # best
        <5>1. ~last
          BY <4>6 DEF last
        <5>2. after = SetBest([placed EXCEPT !.levels = before], side, best)
          BY <1>6, <1>9, <3>1, <3>3, <5>1
        <5>3. Finished(after, before, best)
          <6> HIDE DEF Finished
          <6>1. QED BY <1>7, <5>2
        <5>4. TiedIn(levels, after.levels, p, new, stop, E)
          BY <2>6, <3>1, <4>3, <5>3 DEF before
        <5>5. k < cost(stop)
          BY <2>3, <4>1, <4>3, <4>6
        <5>6. ~after.fault => Rings(after) /\ OneMoreLevel(book, after, new, side, price)
          BY <2>5, <4>3, <4>4, <5>3, <5>4, <5>5
        <5>7. QED BY <5>6 DEF after, level, past, best, new
      <4>7. QED BY <4>5, <4>6
    <3>4. QED BY <3>2, <3>3
  <2>9. QED BY <2>1, <2>3, <2>7, <2>8
<1>10. QED BY <1>8, <1>9

-----------------------------------------------------------------------------
(* Removing a level.                                                       *)

\* A level that nobody is left in is tied out of its ring.
LEMMA RemoveLevelSorts ==
    ASSUME NEW book \in Books, ~Dangles(book), Rings(book), NEW price \in Prices,
           NEW index \in Levels(book), index = priceToIndex(price),
           NEW side, side = book.levels[index].side
    PROVE  LET after == removeOrdersAtPrice(book, side, price)
           IN  /\ Rings(after)
               /\ \A i \in Levels(after) : /\ after.levels[i].side = book.levels[i].side
                                           /\ after.levels[i].price = book.levels[i].price
<1> DEFINE level    == book.levels[index]
           best     == Best(book, side)
           tied     == Link(book.levels, level.prev, level.next)
           unlinked == [tied EXCEPT ![index] = Null]
           alone    == [book.levels EXCEPT ![index] = Null]
           after    == removeOrdersAtPrice(book, side, price)
           S  == SidePrices(book, side)
           c  == Costs(book.levels, side)
           nx == Nexts(book.levels)
           pv == Prevs(book.levels)
           c2  == Costs(after.levels, side)
           nx2 == Nexts(after.levels)
           pv2 == Prevs(after.levels)
<1>1. /\ index \in LevelIndices /\ side \in Sides /\ index \in S
      /\ level.next \in Levels(book) /\ level.prev \in Levels(book)
  BY LevelFields, TiedMeans
<1>2. SideRing(book, side)
  BY <1>1 DEF Rings, Sides
<1>3. after \in Books /\ Levels(after) = Levels(book) \ {index}
  BY <1>1, RemoveLevelKeeps DEF SameOrders
<1>4. /\ level.next \in S /\ level.prev \in S /\ S \subseteq LevelIndices
      /\ \A i \in S : i \in Levels(book) /\ nx[i] = book.levels[i].next
                      /\ pv[i] = book.levels[i].prev
  <2>1. \A i \in S : i \in Levels(book) /\ i \in LevelIndices
    BY DEF SidePrices, Levels
  <2>2. QED BY <1>1, <1>2, <2>1, RingMeans DEF Nexts, Prevs
<1>5. ASSUME NEW s \in Sides, NEW L, NEW head,
             after = SetBest([book EXCEPT !.levels = L], side, head)
      PROVE  /\ after.levels = L /\ Best(after, side) = head
             /\ s # side => Best(after, s) = Best(book, s)
  <2> DEFINE a == [book EXCEPT !.levels = L]
  <2>1. /\ a.levels = L /\ a.bids = book.bids /\ a.asks = book.asks
        /\ {"levels", "bids", "asks"} \subseteq DOMAIN a
    BY DEF Books
  <2> HIDE DEF a, after
  <2>2. CASE side = "BUY"
    BY <1>5, <2>1, <2>2 DEF SetBest, Best, Sides, a
  <2>3. CASE side = "SELL"
    BY <1>5, <2>1, <2>3 DEF SetBest, Best, Sides, a
  <2>4. QED BY <1>1, <2>2, <2>3 DEF Sides
<1> DEFINE Out(head) ==
             /\ Best(after, side) = head
             /\ \A s \in Sides : s # side => Best(after, s) = Best(book, s)
             /\ \A i \in Levels(after) :
                   /\ after.levels[i].side = book.levels[i].side
                   /\ after.levels[i].price = book.levels[i].price
                   /\ after.levels[i].next = IF i = level.prev THEN level.next
                                             ELSE book.levels[i].next
                   /\ after.levels[i].prev = IF i = level.next THEN level.prev
                                             ELSE book.levels[i].prev
<1>6. ASSUME NEW head, Out(head), Ring(S \ {index}, head, c2, nx2, pv2)
      PROVE  /\ Rings(after)
             /\ \A i \in Levels(after) : /\ after.levels[i].side = book.levels[i].side
                                         /\ after.levels[i].price = book.levels[i].price
  <2>1. SidePrices(after, side) = S \ {index}
    BY <1>3, <1>6 DEF SidePrices
  <2>2. SideRing(after, side)
    BY <1>6, <2>1 DEF SideRing
  <2>3. ASSUME NEW s \in Sides, s # side PROVE SideRing(after, s)
    <3>1. SideRing(book, s)
      BY DEF Rings, Sides
    <3>2. SidePrices(after, s) = SidePrices(book, s)
      BY <1>3, <1>6, <2>3 DEF SidePrices
    <3>3. \A i \in SidePrices(book, s) :
             i \in Levels(after) /\ i # level.prev /\ i # level.next
      BY <1>3, <1>4, <2>3, <3>2 DEF SidePrices
    <3>4. QED BY <1>1, <1>3, <1>6, <2>3, <3>1, <3>2, <3>3, OtherSide
  <2>4. LevelsPlaced(after)
    BY <1>3, <1>6 DEF Rings, LevelsPlaced
  <2>5. QED BY <1>6, <2>2, <2>3, <2>4 DEF Rings, Sides
<1> HIDE DEF c, nx, pv, c2, nx2, pv2, S
<1>7. Ring(S, best, c, nx, pv)
  BY <1>2 DEF SideRing, S, c, nx, pv
<1>8. CASE level.next = index
  <2>1. S = {index} /\ best = index
    <3>1. nx[index] = index
      BY <1>1, <1>4, <1>8
    <3> HIDE DEF best
    <3>2. QED BY <1>1, <1>7, <3>1, RingOfOne
  <2>2. after = SetBest([book EXCEPT !.levels = alone], side, Null)
    BY <1>8 DEF removeOrdersAtPrice, Books
  <2>3. after.levels = alone /\ Best(after, side) = Null
        /\ \A s \in Sides : s # side => Best(after, s) = Best(book, s)
    BY <1>1, <1>5, <2>2
  <2>4. level.prev = index
    BY <1>4, <2>1
  <2>5. Out(Null)
    <3>1. \A i \in Levels(after) : i \in LevelIndices /\ i # index
      BY <1>3 DEF Levels
    <3>2. \A i \in LevelIndices : i # index => alone[i] = book.levels[i]
      BY BookFields
    <3> HIDE DEF after, alone
    <3>3. QED BY <1>8, <2>3, <2>4, <3>1, <3>2
  <2>6. Ring(S \ {index}, Null, c2, nx2, pv2)
    BY <2>1 DEF Ring
  <2>7. QED BY <1>6, <2>5, <2>6
<1>9. CASE level.next # index
  <2> DEFINE head == IF index = best THEN level.next ELSE best
  <2>1. after = SetBest([book EXCEPT !.levels = unlinked], side, head)
    BY <1>9 DEF removeOrdersAtPrice
  <2>2. after.levels = unlinked /\ Best(after, side) = head
        /\ \A s \in Sides : s # side => Best(after, s) = Best(book, s)
    BY <1>1, <1>5, <2>1
  <2>3. \A i \in Levels(book) :
           /\ tied[i].side = book.levels[i].side /\ tied[i].price = book.levels[i].price
           /\ tied[i].next = IF i = level.prev THEN level.next ELSE book.levels[i].next
           /\ tied[i].prev = IF i = level.next THEN level.prev ELSE book.levels[i].prev
    <3>1. LevelMap(book.levels, Levels(book))
      BY BookFields DEF LevelMap, Levels
    <3> HIDE DEF level
    <3>2. QED BY <1>1, <3>1, LinkMeans
  <2>4. \A i \in LevelIndices : i # index => unlinked[i] = tied[i]
    <3>1. DOMAIN tied = LevelIndices
      BY BookFields DEF Link
    <3> HIDE DEF tied
    <3>2. QED BY <3>1
  <2>5. Out(head)
    <3>1. \A i \in Levels(after) : i \in LevelIndices /\ i # index /\ i \in Levels(book)
      BY <1>3 DEF Levels
    <3> HIDE DEF after, unlinked, tied, head, level
    <3>2. QED BY <2>2, <2>3, <2>4, <3>1
  <2>6. ASSUME NEW i \in S \ {index}
        PROVE  /\ c2[i] = c[i]
               /\ nx2[i] = IF i = pv[index] THEN nx[index] ELSE nx[i]
               /\ pv2[i] = IF i = nx[index] THEN pv[index] ELSE pv[i]
    <3>1. i \in Levels(after) /\ i \in LevelIndices
      BY <1>3, <1>4
    <3>2. nx[index] = level.next /\ pv[index] = level.prev
          /\ nx[i] = book.levels[i].next /\ pv[i] = book.levels[i].prev
      BY <1>1, <1>4
    <3> HIDE DEF after, level
    <3>3. QED BY <2>5, <3>1, <3>2 DEF c, c2, nx2, pv2, Costs, Nexts, Prevs
  <2>7. nx[index] # index /\ nx[index] = level.next
    BY <1>1, <1>4, <1>9
  <2> HIDE DEF best, level
  <2>8. Ring(S \ {index}, head, c2, nx2, pv2)
    <3>1. /\ \A i \in S \ {index} : c2[i] = c[i]
          /\ \A i \in S \ {index} : nx2[i] = IF i = pv[index] THEN nx[index] ELSE nx[i]
          /\ \A i \in S \ {index} : pv2[i] = IF i = nx[index] THEN pv[index] ELSE pv[i]
      BY <2>6
    <3>2. index \in S /\ nx[index] # index
      BY <1>1, <2>7
    <3> HIDE <2>6
    <3>3. head = IF index = best THEN nx[index] ELSE best
      BY <2>7
    <3> HIDE DEF head
    <3>4. QED BY <1>7, <3>1, <3>2, <3>3, RingShrinks
  <2> HIDE DEF head
  <2>9. QED BY <1>6, <2>5, <2>8
<1>10. QED BY <1>8, <1>9

-----------------------------------------------------------------------------
(* Books in line.                                                          *)

\* Every order is in the list of a level of its own price and side.
OrdersPlaced(book) ==
    \A i \in Levels(book) : \A n \in DOMAIN book.levels[i].orders :
        /\ book.orders[book.levels[i].orders[n]].price = book.levels[i].price
        /\ book.orders[book.levels[i].orders[n]].side = book.levels[i].side

\* No bid level could trade with an ask level.
Uncrossed(book) ==
    \A i, j \in Levels(book) :
        book.levels[i].side = "BUY" /\ book.levels[j].side = "SELL"
            => book.levels[i].price < book.levels[j].price

\* A book whose levels are what the engine takes them to be.
InLine(book) == Rings(book) /\ OrdersPlaced(book) /\ Uncrossed(book)

\* The level of an order.
LEMMA LevelOfOrder ==
    ASSUME NEW book \in Books, InOrder(book), InLine(book), NEW key \in Live(book)
    PROVE  LET order == book.orders[key]
               index == priceToIndex(order.price)
           IN  /\ order \in OrderRecords /\ order.side \in Sides
               /\ order.price \in PricesOf(order.side) /\ order.price \in Prices
               /\ index \in Levels(book)
               /\ book.levels[index].price = order.price
               /\ book.levels[index].side = order.side
               /\ \E n \in DOMAIN book.levels[index].orders : book.levels[index].orders[n] = key
<1> DEFINE order == book.orders[key]
           index == priceToIndex(order.price)
<1>1. order \in OrderRecords /\ order.side \in Sides /\ order.price \in Prices
  BY BookFields DEF OrderRecords
<1>2. index \in Levels(book)
      /\ \E n \in DOMAIN book.levels[index].orders : book.levels[index].orders[n] = key
  BY DEF InOrder, Filed
<1>3. book.levels[index].price = order.price /\ book.levels[index].side = order.side
  BY <1>2 DEF InLine, OrdersPlaced
<1>4. order.price \in PricesOf(order.side)
  BY <1>2, <1>3 DEF InLine, Rings, LevelsPlaced
<1>5. QED BY <1>1, <1>2, <1>3, <1>4

\* The lists of the orders do not matter to the rings.
LEMMA SameRings ==
    ASSUME NEW book \in Books, Rings(book), NEW after \in Books, SameFrame(book, after)
    PROVE  Rings(after)
<1>1. ASSUME NEW s \in Sides PROVE SideRing(after, s)
  <2>1. SideRing(book, s) /\ SidePrices(after, s) = SidePrices(book, s)
    BY DEF Rings, Sides, SidePrices, SameFrame
  <2>2. \A i \in SidePrices(book, s) : i \in Levels(book)
    BY DEF SidePrices
  <2>3. Best(after, s) = Best(book, s)
    BY DEF Best, SameFrame
  <2>4. QED BY <2>1, <2>2, <2>3, RingElsewhere DEF SameFrame
<1>2. LevelsPlaced(after)
  BY DEF Rings, LevelsPlaced, SameFrame
<1>3. QED BY <1>1, <1>2 DEF Rings, Sides

\* A book stays in line when an order leaves it.
LEMMA RemoveOrderInLine ==
    ASSUME NEW book \in Books, InOrder(book), InLine(book), NEW key \in Live(book)
    PROVE  InLine(removeOrder(book, key))
<1> DEFINE order  == book.orders[key]
           others == Unlinked(book.levels[priceToIndex(order.price)].orders, key)
           short  == Shortened(book, key)
           after  == removeOrder(book, key)
<1>0. ~Dangles(book) /\ Rings(book)
  BY DEF InOrder, InLine
<1> HIDE DEF order
<1>1. /\ short \in Books /\ short.orders = book.orders /\ ListsWithout(short, book, key)
  BY ShortenedLists DEF SameOrders
<1>2. after \in Books /\ after.orders = [book.orders EXCEPT ![key] = Null]
  BY RemoveOrderRemoves DEF Removed
<1>3. /\ after.levels = short.levels /\ after.bids = short.bids /\ after.asks = short.asks
      /\ Levels(after) = Levels(short)
  <2> DEFINE result == [short EXCEPT !.orders[key] = Null]
  <2>1. after = [result EXCEPT !.fault = @ \/ Dangles(result)]
    BY DEF removeOrder, Shortened
  <2>2. after.levels = short.levels /\ after.bids = short.bids /\ after.asks = short.asks
    <3> HIDE DEF after
    <3>1. QED BY <1>1, <2>1 DEF Books
  <2>3. QED BY <2>2 DEF Levels
<1>4. PICK index \in Levels(book) :
         /\ index = priceToIndex(order.price) /\ book.levels[index].side = order.side
         /\ order.price \in Prices /\ order.side \in Sides
  BY LevelOfOrder DEF order
<1> HIDE DEF after
<1>5. \A i \in Levels(short) : i \in Levels(book)
  BY <1>1 DEF ListsWithout
<1>6. /\ Rings(short)
      /\ \A i \in Levels(short) : /\ short.levels[i].side = book.levels[i].side
                                  /\ short.levels[i].price = book.levels[i].price
  <2>1. CASE short = removeOrdersAtPrice(book, order.side, order.price)
    <3> HIDE DEF short
    <3>1. QED BY <1>0, <1>4, <2>1, RemoveLevelSorts
  <2>2. CASE SameFrame(book, short)
    <3> HIDE DEF short
    <3>1. Rings(short)
      BY <1>0, <1>1, <2>2, SameRings
    <3>2. QED BY <2>2, <3>1 DEF SameFrame
  <2>3. QED BY <2>1, <2>2, ShortenedLists DEF order
<1> HIDE DEF short
<1>7. SameFrame(short, after)
  BY <1>3 DEF SameFrame
<1>8. OrdersPlaced(after)
  <2>1. ASSUME NEW i \in Levels(after), NEW n \in DOMAIN after.levels[i].orders
        PROVE  /\ after.orders[after.levels[i].orders[n]].price = after.levels[i].price
               /\ after.orders[after.levels[i].orders[n]].side = after.levels[i].side
    <3>1. i \in Levels(short) /\ i \in Levels(book) /\ after.levels[i] = short.levels[i]
      BY <1>3, <1>5
    <3>2. PICK o \in DOMAIN book.levels[i].orders :
             /\ after.levels[i].orders[n] = book.levels[i].orders[o]
             /\ after.levels[i].orders[n] # key
      BY <1>1, <3>1 DEF ListsWithout
    <3>3. /\ book.orders[book.levels[i].orders[o]].price = book.levels[i].price
          /\ book.orders[book.levels[i].orders[o]].side = book.levels[i].side
          /\ book.levels[i].orders[o] \in Keys
      BY <3>1, BookFields DEF InLine, OrdersPlaced, InOrder, Filed
    <3>4. after.orders[after.levels[i].orders[n]] = book.orders[book.levels[i].orders[o]]
      BY <1>2, <3>2, <3>3, BookFields
    <3>5. QED BY <1>6, <3>1, <3>3, <3>4
  <2>2. QED BY <2>1 DEF OrdersPlaced
<1>9. Rings(after)
  BY <1>1, <1>2, <1>6, <1>7, SameRings
<1>10. Uncrossed(after)
  BY <1>3, <1>5, <1>6 DEF InLine, Uncrossed
<1>11. QED BY <1>8, <1>9, <1>10 DEF InLine, after

\* The first comparison of addOrdersAtPrice() finds a level its place as one
\* that tests the side throughout, when it does not send the search the wrong way
\* or has one level only to be put in front of.
LEMMA SearchedAsMeant ==
    ASSUME NEW book \in Books, ~Dangles(book), Rings(book),
           NEW side \in Sides, NEW price \in PricesOf(side), NEW list,
           priceToIndex(price) \notin Levels(book), ~Misties(book, side, price)
    PROVE  LET level == [side |-> side, price |-> price, orders |-> list,
                         prev |-> Null, next |-> Null]
           IN  addOrdersAtPrice(book, level)
                  = InsertLevel(book, level, GoesAfter(side, price, book.levels[Best(book, side)]))
<1> DEFINE level == [side |-> side, price |-> price, orders |-> list,
                     prev |-> Null, next |-> Null]
           best  == Best(book, side)
           past  == GoesAfterBest(side, price, book.levels[best])
           meant == GoesAfter(side, price, book.levels[best])
<1>1. /\ addOrdersAtPrice(book, level) = InsertLevel(book, level, past)
      /\ level.side = side /\ level.price = price
  BY DEF addOrdersAtPrice
<1>2. price \in Prices /\ price \in Nat
  BY OrdersAssumption DEF Prices, PricesOf
<1>3. SideRing(book, side)
  BY DEF Rings, Sides
<1> HIDE DEF level, past, meant
<1>4. CASE best = Null
  <2>1. InsertLevel(book, level, past) = InsertLevel(book, level, meant)
    BY <1>1, <1>4 DEF InsertLevel, best
  <2>2. QED BY <1>1, <2>1 DEF level, meant
<1>5. CASE best # Null
  <2>1. ASSUME NEW i \in SidePrices(book, side)
        PROVE  /\ book.levels[i].price \in PricesOf(side) /\ book.levels[i].price \in Nat
               /\ book.levels[i].price # price /\ i \in Levels(book)
    <3>1. i \in Levels(book) /\ book.levels[i].side = side
      BY DEF SidePrices
    <3>2. QED BY <3>1, LevelFields DEF Rings, LevelsPlaced
  <2>2. best \in SidePrices(book, side)
    BY <1>3, <1>5, RingMeans
  <2>3. past \in BOOLEAN /\ meant \in BOOLEAN /\ (meant => past)
    <3>1. meant => past
      BY <1>2, <2>1, <2>2, FirstComparison DEF past, meant
    <3>2. past \in BOOLEAN
      BY DEF past, GoesAfterBest
    <3>3. meant \in BOOLEAN
      <4>1. CASE side = "SELL"
        BY <4>1 DEF meant, GoesAfter
      <4>2. CASE side # "SELL"
        BY <4>2 DEF meant, GoesAfter
      <4>3. QED BY <4>1, <4>2
    <3>4. QED BY <3>1, <3>2, <3>3
  <2>4. CASE past = meant
    BY <1>1, <2>4 DEF level, meant
  <2>5. CASE past = TRUE /\ meant = FALSE
    <3>1. book.levels[best].next = best
      <4>1. getOrdersAtPrice(book, price) = Null
        BY <1>2, IndexInRange DEF getOrdersAtPrice, Levels
      <4>2. QED BY <1>5, <2>5, <4>1 DEF Misties, past, meant, best
    <3>2. ASSUME NEW i \in SidePrices(book, side) PROVE i = best
      <4>1. /\ Cost(side, book.levels[i].price) \in Int
            /\ Cost(side, book.levels[best].price) \in Int
            /\ Cost(side, book.levels[best].price) <= Cost(side, book.levels[i].price)
            /\ Cost(side, book.levels[i].price) <= Cost(side, book.levels[best].price)
        BY <1>3, <2>2, <3>1, RingMeans
      <4>2. QED BY <1>3, <2>2, <4>1, RingMeans
    <3>3. SidePrices(book, side) = {best}
      BY <2>2, <3>2
    <3>4. InsertLevel(book, level, TRUE) = InsertLevel(book, level, FALSE)
      BY <1>2, <1>3, <2>5, <3>3, EitherWay DEF level, meant
    <3>5. QED BY <1>1, <2>5, <3>4 DEF level, meant
  <2>6. QED BY <2>3, <2>4, <2>5
<1>6. QED BY <1>4, <1>5 DEF level, meant

\* A price at which an order of side would not trade with any level.
Apart(book, side, price) ==
    \A i \in Levels(book) :
        book.levels[i].side # side =>
            IF side = "BUY" THEN price < book.levels[i].price ELSE book.levels[i].price < price

\* A book stays in line when an order that could not trade comes to it.
LEMMA AddOrderInLine ==
    ASSUME NEW book \in Books, ~book.fault, InOrder(book), InLine(book),
           NEW key \in Keys, key \notin Live(book),
           NEW order \in OrderRecords, order.price \in PricesOf(order.side),
           Apart(book, order.side, order.price), ~Spoils(book, order.side, order.price)
    PROVE  addOrder(book, key, order).fault \/ InLine(addOrder(book, key, order))
<1> DEFINE side  == order.side
           price == order.price
           filed == [book EXCEPT !.orders[key] = order]
           level == [side |-> side, price |-> price, orders |-> <<key>>,
                     prev |-> Null, next |-> Null]
           grown == addOrdersAtPrice(filed, level)
           full  == [grown EXCEPT !.fault = @ \/ Levels(grown) = LevelIndices]
           meant == GoesAfter(side, price, filed.levels[Best(filed, side)])
<1>0. ~Dangles(book) /\ Filed(book) /\ Rings(book) /\ OrdersPlaced(book) /\ Uncrossed(book)
  BY DEF InOrder, InLine
<1>1. PICK index \in LevelIndices : index = priceToIndex(price)
  BY IndexInRange DEF OrderRecords
<1>2. side \in Sides /\ price \in PricesOf(side) /\ price \in Prices /\ <<key>> \in Seq(Keys)
  BY DEF OrderRecords
<1>3. /\ filed \in Books /\ filed.orders = [book.orders EXCEPT ![key] = order]
      /\ filed.levels = book.levels /\ filed.fault = book.fault
      /\ filed.bids = book.bids /\ filed.asks = book.asks
      /\ \A s : Best(filed, s) = Best(book, s)
  BY BookFields DEF Books, Best
<1>4. /\ \A k \in Keys : k # key => filed.orders[k] = book.orders[k]
      /\ filed.orders[key] = order
  BY <1>3, BookFields
<1> HIDE DEF filed
<1>5. /\ ~Dangles(filed) /\ Levels(filed) = Levels(book) /\ SameFrame(book, filed)
      /\ Rings(filed)
  <2>1. SameFrame(book, filed) /\ Dangles(filed) = Dangles(book)
    BY <1>3 DEF Dangles, Levels, SameFrame
  <2>2. QED BY <1>0, <1>3, <2>1, SameRings DEF SameFrame
<1>6. \A i \in Levels(book) : \A n \in DOMAIN book.levels[i].orders :
         LET k == book.levels[i].orders[n]
         IN  /\ k \in Keys /\ k # key
             /\ filed.orders[k].price = book.levels[i].price
             /\ filed.orders[k].side = book.levels[i].side
  BY <1>0, <1>4, BookFields DEF Filed, OrdersPlaced
<1>7. CASE index \in Levels(book)
  <2> DEFINE list  == book.levels[index].orders
             after == [filed EXCEPT !.levels[index].orders = Append(@, key)]
             lvl   == [book.levels[index] EXCEPT !.orders = Append(list, key)]
             map   == [book.levels EXCEPT ![index] = lvl]
  <2>1. book.levels[index] \in LevelRecords /\ list \in Seq(Keys)
    BY <1>7, LevelFields
  <2>2. addOrder(book, key, order) = after
    BY <1>1, <1>7 DEF addOrder, filed, Levels
  <2>3. after = [filed EXCEPT !.levels = map]
    BY <1>3 DEF Books
  <2>4. /\ lvl \in LevelRecords /\ lvl.orders = Append(list, key)
        /\ lvl.side = book.levels[index].side /\ lvl.price = book.levels[index].price
        /\ lvl.next = book.levels[index].next /\ lvl.prev = book.levels[index].prev
    <3>1. Append(list, key) \in Seq(Keys)
      BY <2>1
    <3> HIDE DEF list
    <3>2. QED BY <2>1, <3>1 DEF LevelRecords
  <2> HIDE DEF lvl, after
  <2>5. /\ map \in [LevelIndices -> LevelRecords \cup {Null}]
        /\ \A i \in LevelIndices : map[i] = IF i = index THEN lvl ELSE book.levels[i]
    BY <2>4, BookFields
  <2> HIDE DEF map
  <2>6. /\ after \in Books /\ after.orders = filed.orders /\ after.levels = map
        /\ after.bids = book.bids /\ after.asks = book.asks
    BY <1>3, <2>3, <2>5 DEF Books
  <2>7. Levels(after) = Levels(book)
    BY <1>7, <2>4, <2>5, <2>6, NullAssumption DEF Levels
  <2>8. SameFrame(book, after)
    BY <1>7, <2>4, <2>5, <2>6, <2>7 DEF SameFrame, Levels
  <2>9. book.levels[index].price = price /\ book.levels[index].side = side
    <3>1. getOrdersAtPrice(book, price) = book.levels[index] /\ book.levels[index] # Null
      BY <1>1, <1>7 DEF getOrdersAtPrice, Levels
    <3>2. book.levels[index].price = price
      BY <3>1 DEF Spoils, Collides
    <3>3. book.levels[index].side = side
      BY <1>7, <3>2, LevelFields DEF Apart
    <3>4. QED BY <3>2, <3>3
  <2>10. OrdersPlaced(after)
    <3>1. ASSUME NEW i \in Levels(after), NEW n \in DOMAIN after.levels[i].orders
          PROVE  /\ after.orders[after.levels[i].orders[n]].price = after.levels[i].price
                 /\ after.orders[after.levels[i].orders[n]].side = after.levels[i].side
      <4>1. i \in Levels(book) /\ i \in LevelIndices
        BY <2>7 DEF Levels
      <4>2. CASE i = index
        <5>1. after.levels[i].orders = Append(list, key)
          BY <2>4, <2>5, <2>6, <4>2
        <5>2. /\ after.levels[i].price = price /\ after.levels[i].side = side
          BY <2>4, <2>5, <2>6, <2>9, <4>2
        <5>3. n \in 1 .. Len(list) + 1 /\ Len(list) \in Nat
          BY <2>1, <5>1
        <5>4. CASE n = Len(list) + 1
          <6>1. after.levels[i].orders[n] = key
            BY <2>1, <5>1, <5>4
          <6>2. QED BY <1>4, <2>6, <5>2, <6>1
        <5>5. CASE n # Len(list) + 1
          <6>1. n \in DOMAIN list /\ after.levels[i].orders[n] = list[n]
            BY <2>1, <5>1, <5>3, <5>5
          <6>2. QED BY <1>6, <2>6, <2>9, <4>1, <4>2, <5>2, <6>1
        <5>6. QED BY <5>4, <5>5
      <4>3. CASE i # index
        BY <1>6, <2>5, <2>6, <4>1, <4>3
      <4>4. QED BY <4>2, <4>3
    <3>2. QED BY <3>1 DEF OrdersPlaced
  <2>11. Rings(after)
    BY <1>0, <2>6, <2>8, SameRings
  <2>12. Uncrossed(after)
    BY <1>0, <2>8 DEF Uncrossed, SameFrame
  <2>13. QED BY <2>2, <2>10, <2>11, <2>12 DEF InLine
<1>8. CASE index \notin Levels(book)
  <2>1. addOrder(book, key, order) = full
    BY <1>1, <1>8 DEF addOrder, filed, Levels
  <2>2. grown = InsertLevel(filed, level, meant)
    <3>1. ~Misties(filed, side, price)
      BY <1>3 DEF Spoils, Misties, getOrdersAtPrice
    <3>2. QED BY <1>1, <1>2, <1>3, <1>5, <1>8, <3>1, SearchedAsMeant
  <2>3. /\ SameOrders(filed, grown)
        /\ grown.fault \/ Grown(filed, grown, index, <<key>>)
    <3>1. meant \in BOOLEAN
      <4>1. CASE side = "SELL"
        BY <4>1 DEF GoesAfter
      <4>2. CASE side # "SELL"
        BY <4>2 DEF GoesAfter
      <4>3. QED BY <4>1, <4>2
    <3> HIDE DEF meant, grown
    <3>2. QED BY <1>1, <1>2, <1>3, <1>5, <1>8, <2>2, <3>1, InsertLevelGrows
  <2>4. grown.fault \/ (Rings(grown) /\ OneMoreLevel(filed, grown, index, side, price))
    <3> DEFINE found == InsertLevel(filed, level, meant)
    <3> HIDE DEF side, price
    <3>1. \/ found.fault
          \/ Rings(found) /\ OneMoreLevel(filed, found, priceToIndex(price), side, price)
      BY <1>1, <1>2, <1>3, <1>5, <1>8, InsertLevelSorts
    <3> HIDE DEF grown, found
    <3>2. grown = found
      BY <2>2 DEF found
    <3>3. QED BY <1>1, <3>1, <3>2
  <2> HIDE DEF grown
  <2>5. /\ full \in Books /\ full.orders = filed.orders /\ full.levels = grown.levels
        /\ full.bids = grown.bids /\ full.asks = grown.asks
        /\ grown.fault => full.fault
    <3>1. grown \in Books /\ (grown.fault \/ Levels(grown) = LevelIndices) \in BOOLEAN
          /\ grown.orders = filed.orders
      BY <2>3 DEF SameOrders
    <3>2. QED BY <3>1 DEF Books
  <2>6. SameFrame(grown, full)
    BY <2>5 DEF SameFrame, Levels
  <2> HIDE DEF full, level
  <2>7. ASSUME ~grown.fault PROVE InLine(full)
    <3>1. /\ Rings(grown) /\ OneMoreLevel(filed, grown, index, side, price)
          /\ Grown(filed, grown, index, <<key>>) /\ grown \in Books
      BY <2>3, <2>4, <2>7 DEF SameOrders
    <3>2. Rings(full)
      BY <2>5, <2>6, <3>1, SameRings
    <3>3. /\ Levels(full) = Levels(book) \cup {index}
          /\ \A i \in Levels(book) : /\ full.levels[i].side = book.levels[i].side
                                     /\ full.levels[i].price = book.levels[i].price
                                     /\ full.levels[i].orders = book.levels[i].orders
          /\ full.levels[index].side = side /\ full.levels[index].price = price
          /\ full.levels[index].orders = <<key>>
      BY <1>3, <1>5, <2>5, <2>6, <3>1 DEF OneMoreLevel, Grown, SameLists, SameFrame
    <3>4. OrdersPlaced(full)
      <4>1. ASSUME NEW i \in Levels(full), NEW n \in DOMAIN full.levels[i].orders
            PROVE  /\ full.orders[full.levels[i].orders[n]].price = full.levels[i].price
                   /\ full.orders[full.levels[i].orders[n]].side = full.levels[i].side
        <5>1. CASE i = index
          <6>1. full.levels[i].orders[n] = key
            BY <3>3, <5>1
          <6>2. QED BY <1>4, <2>5, <3>3, <5>1, <6>1
        <5>2. CASE i \in Levels(book)
          BY <1>6, <2>5, <3>3, <5>2
        <5>3. QED BY <3>3, <5>1, <5>2
      <4>2. QED BY <4>1 DEF OrdersPlaced
    <3>5. Uncrossed(full)
      <4>1. ASSUME NEW i \in Levels(full), NEW j \in Levels(full),
                   full.levels[i].side = "BUY", full.levels[j].side = "SELL"
            PROVE  full.levels[i].price < full.levels[j].price
        <5>1. CASE i \in Levels(book) /\ j \in Levels(book)
          BY <1>0, <3>3, <4>1, <5>1 DEF Uncrossed
        <5>2. CASE i = index /\ j \in Levels(book)
          BY <3>3, <4>1, <5>2 DEF Apart
        <5>3. CASE i \in Levels(book) /\ j = index
          BY <3>3, <4>1, <5>3 DEF Apart
        <5>4. QED BY <3>3, <4>1, <5>1, <5>2, <5>3
      <4>2. QED BY <4>1 DEF Uncrossed
    <3>6. QED BY <3>2, <3>4, <3>5 DEF InLine
  <2>8. QED BY <2>1, <2>5, <2>7
<1>9. QED BY <1>7, <1>8

\* The id of a new order does not touch the levels.
LEMMA IdTakenInLine ==
    ASSUME NEW book \in Books, InOrder(book), InLine(book)
    PROVE  InLine(IdTaken(book))
<1> DEFINE after == IdTaken(book)
<1>1. /\ after.levels = book.levels /\ after.bids = book.bids /\ after.asks = book.asks
  <2>1. CASE DistinctIds
    BY <2>1 DEF IdTaken, Books
  <2>2. CASE ~DistinctIds
    BY <2>2 DEF IdTaken
  <2>3. QED BY <2>1, <2>2
<1>2. after \in Books /\ after.orders = book.orders
  BY IdTakenKeeps
<1> HIDE DEF after
<1>3. SameFrame(book, after)
  BY <1>1 DEF SameFrame, Levels
<1>4. OrdersPlaced(after)
  BY <1>1, <1>2 DEF InLine, OrdersPlaced, Levels
<1>5. Uncrossed(after)
  BY <1>1 DEF InLine, Uncrossed, Levels
<1>6. Rings(after)
  BY <1>2, <1>3, SameRings DEF InLine
<1>7. QED BY <1>4, <1>5, <1>6 DEF InLine, after

\* A book stays in line when an order changes its quantity.
LEMMA QtyInLine ==
    ASSUME NEW book \in Books, InOrder(book), InLine(book), NEW key \in Live(book),
           NEW left \in Nat
    PROVE  InLine([book EXCEPT !.orders[key].qty = left])
<1> DEFINE book1 == [book EXCEPT !.orders[key].qty = left]
           order == [book.orders[key] EXCEPT !.qty = left]
<1>1. key \in Keys
  BY BookFields
<1>2. /\ book1 \in Books /\ Live(book1) = Live(book)
      /\ book1.levels = book.levels /\ book1.bids = book.bids /\ book1.asks = book.asks
      /\ \A k \in Keys : /\ book1.orders[k].price = book.orders[k].price
                         /\ book1.orders[k].side = book.orders[k].side
  <2>1. /\ book1 \in Books /\ Live(book1) = Live(book)
        /\ book1.levels = book.levels /\ book1.bids = book.bids /\ book1.asks = book.asks
        /\ book1.orders[key] = order
        /\ order.price = book.orders[key].price /\ order.side = book.orders[key].side
        /\ \A k \in Keys : k # key => book1.orders[k] = book.orders[k]
    BY QtyChanges
  <2> HIDE DEF order, book1
  <2>2. QED BY <2>1
<1> HIDE DEF book1
<1>3. SameFrame(book, book1) /\ Levels(book1) = Levels(book)
  BY <1>2 DEF SameFrame, Levels
<1>4. \A i \in Levels(book) : \A n \in DOMAIN book.levels[i].orders :
         book.levels[i].orders[n] \in Keys
  BY BookFields DEF InOrder, Filed
<1>5. OrdersPlaced(book1)
  BY <1>2, <1>3, <1>4 DEF InLine, OrdersPlaced
<1>6. Uncrossed(book1)
  BY <1>2, <1>3 DEF InLine, Uncrossed
<1>7. Rings(book1)
  BY <1>2, <1>3, SameRings DEF InLine
<1>8. QED BY <1>5, <1>6, <1>7 DEF InLine, book1

\* A book stays in line when an order is filled.
LEMMA FillInLine ==
    ASSUME NEW book \in Books, InOrder(book), InLine(book), NEW key \in Live(book),
           NEW fill \in Nat, fill <= book.orders[key].qty
    PROVE  InLine(Fill(book, key, fill))
<1> DEFINE left  == book.orders[key].qty - fill
           book1 == [book EXCEPT !.orders[key].qty = left]
<1>1. left \in Nat
  BY BookFields DEF OrderRecords
<1>2. Fill(book, key, fill) = IF left = 0 THEN removeOrder(book1, key) ELSE book1
  BY DEF Fill
<1> HIDE DEF left
<1>3. book1 \in Books /\ InOrder(book1) /\ key \in Live(book1) /\ InLine(book1)
  BY <1>1, QtyChanges, QtyInLine
<1> HIDE DEF book1
<1>4. QED BY <1>2, <1>3, RemoveOrderInLine

\* The order the next fill is made against is one of the best level.
LEMMA MakerIsBest ==
    ASSUME NEW book \in Books, InOrder(book), InLine(book), NEW side \in Sides,
           NEW i \in Levels(book), book.levels[i].side # side
    PROVE  LET best == Best(book, Opposite(side))
           IN  /\ best \in Levels(book) /\ best # Null
               /\ book.levels[best].side = Opposite(side)
               /\ Maker(book, side) = book.levels[best].orders[1]
               /\ Maker(book, side) \in Live(book) /\ Maker(book, side) # Null
               /\ 1 \in DOMAIN book.levels[best].orders
               /\ book.orders[Maker(book, side)].price = book.levels[best].price
               /\ book.levels[best].price \in Nat /\ book.levels[i].price \in Nat
               /\ IF side = "BUY" THEN book.levels[best].price <= book.levels[i].price
                  ELSE book.levels[i].price <= book.levels[best].price
               /\ book.levels[best].price = book.levels[i].price => i = best
<1> DEFINE o    == Opposite(side)
           best == Best(book, o)
<1>1. /\ o \in Sides /\ book.levels[i].side = o /\ i \in SidePrices(book, o)
      /\ o = IF side = "BUY" THEN "SELL" ELSE "BUY"
  BY LevelFields DEF Opposite, Sides
<1>2. SideRing(book, o)
  BY <1>1 DEF InLine, Rings, Sides
<1> HIDE DEF o
<1>3. /\ best \in Levels(book) /\ best \in SidePrices(book, o) /\ book.levels[best].side = o
      /\ Cost(o, book.levels[best].price) <= Cost(o, book.levels[i].price)
      /\ Cost(o, book.levels[best].price) = Cost(o, book.levels[i].price) => i = best
  <2>1. best \in SidePrices(book, o)
    BY <1>1, <1>2, RingMeans
  <2>2. QED BY <1>1, <1>2, <2>1, RingMeans DEF SidePrices
<1>4. best # Null /\ book.levels[best].price \in Nat /\ book.levels[i].price \in Nat
      /\ book.levels[best].orders \in Seq(Keys)
  BY <1>3, LevelFields
<1>5. /\ book.levels[best].orders # << >>
      /\ \A n \in DOMAIN book.levels[best].orders :
            /\ book.levels[best].orders[n] \in Live(book)
            /\ book.orders[book.levels[best].orders[n]].price = book.levels[best].price
  BY <1>3 DEF InOrder, Filed, InLine, OrdersPlaced
<1>6. 1 \in DOMAIN book.levels[best].orders
  BY <1>4, <1>5
<1>7. Maker(book, side) = book.levels[best].orders[1]
  BY <1>4 DEF Maker, o
<1> HIDE DEF best
<1>8. Maker(book, side) # Null
  BY <1>5, <1>6, <1>7, BookFields, NullAssumption
<1>9. /\ IF side = "BUY" THEN book.levels[best].price <= book.levels[i].price
         ELSE book.levels[i].price <= book.levels[best].price
      /\ book.levels[best].price = book.levels[i].price => i = best
  BY <1>1, <1>3, <1>4 DEF Cost
<1>10. QED BY <1>3, <1>4, <1>5, <1>6, <1>7, <1>8, <1>9 DEF best, o

\* What does not trade with the best level trades with none.
LEMMA RestsApart ==
    ASSUME NEW book \in Books, InOrder(book), InLine(book), NEW side \in Sides, NEW price \in Nat,
           LET maker == Maker(book, side)
           IN  maker = Null \/ ~Crosses(side, price, book.orders[maker])
    PROVE  Apart(book, side, price)
<1> SUFFICES ASSUME NEW i \in Levels(book), book.levels[i].side # side
             PROVE  IF side = "BUY" THEN price < book.levels[i].price
                    ELSE book.levels[i].price < price
  BY DEF Apart
<1> DEFINE best == Best(book, Opposite(side))
<1>1. /\ ~Crosses(side, price, book.orders[Maker(book, side)])
      /\ book.orders[Maker(book, side)].price = book.levels[best].price
      /\ book.levels[best].price \in Nat /\ book.levels[i].price \in Nat
      /\ IF side = "BUY" THEN book.levels[best].price <= book.levels[i].price
         ELSE book.levels[i].price <= book.levels[best].price
  BY MakerIsBest
<1> HIDE DEF best
<1>2. CASE side = "BUY"
  BY <1>1, <1>2 DEF Crosses
<1>3. CASE side # "BUY"
  BY <1>1, <1>3 DEF Crosses
<1>4. QED BY <1>2, <1>3

-----------------------------------------------------------------------------
(* The engine keeps its books in line.                                     *)

\* The books of a process that lives are in line, but for those whose levels were
\* once misplaced.
BooksInLine ==
    \A t \in Tickers :
        ticker_order_book_[t].fault \/ spoiled[t] \/ InLine(ticker_order_book_[t])

\* A book that was spoiled remains so.
SpoiledStays == \A t \in Tickers : spoiled[t] => spoiled'[t]

\* The order being matched has a price of its side.
TakerPriced == taker # Null => taker.price \in PricesOf(taker.side)

\* The inductive invariant.
SortedInv == EngineInv /\ BooksInLine /\ TakerPriced

\* A new engine.
LEMMA SortedInit == Init => SortedInv
<1> SUFFICES ASSUME Init PROVE SortedInv
  OBVIOUS
<1> DEFINE empty == EmptyBook(Keys)
<1>1. ticker_order_book_ = [t \in Tickers |-> empty] /\ taker = Null
  BY DEF Init
<1>2. /\ Levels(empty) = {} /\ empty.bids = Null /\ empty.asks = Null
  BY DEF EmptyBook, Levels
<1> HIDE DEF empty
<1>3. ASSUME NEW s \in Sides PROVE SideRing(empty, s)
  <2>1. SidePrices(empty, s) = {} /\ Best(empty, s) = Null
    BY <1>2 DEF SidePrices, Best
  <2>2. QED BY <2>1 DEF SideRing, Ring
<1>4. InLine(empty)
  BY <1>2, <1>3 DEF InLine, Rings, Sides, LevelsPlaced, OrdersPlaced, Uncrossed
<1>5. QED BY <1>1, <1>4, EngineInit DEF SortedInv, BooksInLine, TakerPriced

\* One book changes, and is in line.
LEMMA OneBookInLine ==
    ASSUME TypeOK, BooksInLine, SpoiledStays, NEW t \in Tickers, NEW book \in Books,
           SetBook(t, book), book.fault \/ spoiled'[t] \/ InLine(book)
    PROVE  BooksInLine'
BY OneBook DEF BooksInLine, SpoiledStays

\* What the invariant says of the book of a client between two steps.
LEMMA LineFacts ==
    ASSUME SortedInv, NEW t \in Tickers, Sound(t)
    PROVE  LET book == ticker_order_book_[t]
           IN  /\ book \in Books /\ ~book.fault /\ InOrder(book)
               /\ ~spoiled[t] => InLine(book)
               /\ \A k \in Live(book) : k \in Keys /\ k[1] = t
               /\ \A k \in Keys : k \in Live(book) <=> book.orders[k] # Null
BY BookFacts DEF SortedInv, BooksInLine, Sound

\* Only an order that comes to rest spoils its book.
LEMMA SpoiledStep ==
    ASSUME TypeOK, Next
    PROVE  /\ SpoiledStays
           /\ rest \/ spoiled' = spoiled
<1>1. CASE processClientRequest
  BY <1>1 DEF processClientRequest, add, cancel, SpoiledStays
<1>2. CASE match
  BY <1>2 DEF match, SpoiledStays
<1>3. CASE rest
  <2>1. taker # Null /\ taker.book \in Tickers
    BY <1>3 DEF rest, TypeOK, Takers
  <2>2. CASE taker.qty = 0
    BY <1>3, <2>2 DEF rest, SpoiledStays
  <2>3. CASE taker.qty # 0
    <3>1. PICK b : spoiled' = [spoiled EXCEPT ![taker.book] = @ \/ b]
      BY <1>3, <2>3 DEF rest
    <3>2. QED BY <1>3, <2>1, <3>1 DEF TypeOK, SpoiledStays
  <2>4. QED BY <2>2, <2>3
<1>4. QED BY <1>1, <1>2, <1>3 DEF Next

\* NEW keeps the books in line.
LEMMA AddInLine ==
    ASSUME SortedInv, NEW client \in Clients, NEW ticker \in Tickers, NEW side \in Sides,
           NEW price \in PricesOf(side), NEW qty \in Qtys, add(client, ticker, side, price, qty)
    PROVE  BooksInLine' /\ TakerPriced'
<1> DEFINE old == ticker_order_book_[client]
           new == [key |-> <<client, next_order_id[client]>>, book |-> client, ticker |-> ticker,
                   side |-> side, price |-> price, qty |-> qty,
                   market_order_id |-> generateNewMarketOrderId(old)]
<1>1. /\ client \in Tickers /\ Sound(client) /\ SetBook(client, IdTaken(old))
      /\ taker' = new /\ spoiled' = spoiled
  BY ClientsAssumption DEF add, BookOf
<1>2. IdTaken(old) \in Books /\ (spoiled[client] \/ InLine(IdTaken(old)))
  BY <1>1, LineFacts, IdTakenKeeps, IdTakenInLine
<1>3. BooksInLine'
  BY <1>1, <1>2, OneBookInLine DEF SortedInv, EngineInv, SpoiledStays
<1>4. TakerPriced'
  BY <1>1 DEF TakerPriced
<1>5. QED BY <1>3, <1>4

\* A fill keeps the books in line.
LEMMA MatchInLine ==
    ASSUME SortedInv, match
    PROVE  BooksInLine' /\ TakerPriced'
<1> DEFINE t    == taker.book
           old  == ticker_order_book_[t]
           key  == Maker(old, taker.side)
           fill == FillQty(taker.qty, old.orders[key])
           book == Fill(old, key, fill)
<1>1. /\ taker # Null /\ Sound(t) /\ key # Null /\ SetBook(t, book)
      /\ spoiled' = spoiled /\ \E leaves : taker' = [taker EXCEPT !.qty = leaves]
  BY DEF match, CanMatch
<1>2. taker \in Takers /\ t \in Tickers /\ taker.qty \in Nat
  BY <1>1 DEF SortedInv, EngineInv, TypeOK, Takers
<1>3. /\ old \in Books /\ InOrder(old) /\ (~spoiled[t] => InLine(old)) /\ key \in Live(old)
      /\ old.orders[key] \in OrderRecords
  BY <1>1, <1>2, LineFacts, MakerLives, BookFields
<1>4. fill \in Nat /\ fill <= old.orders[key].qty
  BY <1>2, <1>3 DEF FillQty, OrderRecords
<1>5. (spoiled[t] \/ InLine(book)) /\ book \in Books
  <2> HIDE DEF fill, old, key
  <2>1. QED BY <1>3, <1>4, FillInLine, FillFills DEF Filled
<1>6. BooksInLine'
  <2> HIDE DEF book
  <2>1. QED BY <1>1, <1>2, <1>5, OneBookInLine DEF SortedInv, EngineInv, SpoiledStays
<1>7. TakerPriced'
  BY <1>1, <1>2 DEF SortedInv, TakerPriced, Takers
<1>8. QED BY <1>6, <1>7

\* What is left of an order can trade with no level when it comes to rest.
LEMMA RestInLine ==
    ASSUME SortedInv, rest
    PROVE  BooksInLine' /\ TakerPriced'
<1> DEFINE t     == taker.book
           old   == ticker_order_book_[t]
           mine  == taker.key
           prio  == getNextPriority(old, taker.price)
           order == [ticker |-> taker.ticker, side |-> taker.side, price |-> taker.price,
                     qty |-> taker.qty, priority |-> prio,
                     market_order_id |-> taker.market_order_id]
           book  == addOrder(old, mine, order)
<1>1. /\ taker # Null /\ Sound(t) /\ taker' = Null /\ ~CanMatch
      /\ IF taker.qty = 0 THEN ticker_order_book_' = ticker_order_book_ ELSE SetBook(t, book)
  BY DEF rest
<1>2. /\ taker \in Takers /\ t \in Tickers /\ mine \in Keys /\ taker.qty \in Nat
      /\ taker.side \in Sides /\ taker.price \in PricesOf(taker.side)
      /\ taker.price \in Prices /\ taker.price \in Nat
      /\ old.orders[mine] = Null
  BY <1>1, OrdersAssumption
     DEF SortedInv, EngineInv, TypeOK, Takers, TakerIsLast, TakerPriced, PricesOf
<1>3. /\ old \in Books /\ ~old.fault /\ InOrder(old) /\ (~spoiled[t] => InLine(old))
      /\ mine \notin Live(old)
  BY <1>1, <1>2, LineFacts
<1>0. SpoiledStays
  BY SpoiledStep DEF Next, SortedInv, EngineInv
<1>4. CASE taker.qty = 0
  BY <1>0, <1>1, <1>4 DEF SortedInv, BooksInLine, TakerPriced, SpoiledStays
<1>5. CASE taker.qty # 0
  <2>1. prio \in Nat \ {0}
    BY <1>2, <1>3, NextPriorityIsNext DEF InOrder
  <2>2. order \in OrderRecords /\ order.side = taker.side /\ order.price = taker.price
    BY <1>2, <2>1 DEF OrderRecords, Takers
  <2>3. spoiled'[t] = (spoiled[t] \/ Spoils(old, taker.side, taker.price))
    BY <1>2, <1>5 DEF rest, SortedInv, EngineInv, TypeOK
  <2>4. ASSUME ~spoiled'[t] PROVE book.fault \/ InLine(book)
    <3>1. ~Spoils(old, taker.side, taker.price) /\ InLine(old)
      BY <1>3, <2>3, <2>4
    <3>2. Apart(old, taker.side, taker.price)
      BY <1>1, <1>2, <1>3, <1>5, <3>1, RestsApart DEF CanMatch
    <3> HIDE DEF order, old, mine, t
    <3>3. QED BY <1>2, <1>3, <2>2, <3>1, <3>2, AddOrderInLine
  <2> HIDE DEF book, old, t
  <2>5. /\ ticker_order_book_'[t] = book
        /\ \A u \in Tickers : u # t => ticker_order_book_'[u] = ticker_order_book_[u]
    BY <1>1, <1>2, <1>5 DEF SetBook, SortedInv, EngineInv, TypeOK
  <2>6. QED BY <1>0, <1>1, <2>4, <2>5 DEF SortedInv, BooksInLine, TakerPriced, SpoiledStays
<1>6. QED BY <1>4, <1>5

\* CANCEL keeps the books in line.
LEMMA CancelInLine ==
    ASSUME SortedInv, NEW client \in Clients, NEW order_id \in OrderIds, cancel(client, order_id)
    PROVE  BooksInLine' /\ TakerPriced'
<1> DEFINE key  == <<client, order_id>>
           old  == ticker_order_book_[client]
           book == removeOrder(old, key)
<1>1. /\ client \in Tickers /\ key \in Keys /\ Sound(client) /\ taker' = taker
      /\ spoiled' = spoiled
      /\ IF old.orders[key] = Null THEN ticker_order_book_' = ticker_order_book_
         ELSE SetBook(client, book)
  BY ClientsAssumption DEF cancel, BookOf, Keys
<1>2. TakerPriced'
  BY <1>1 DEF SortedInv, TakerPriced
<1>3. CASE old.orders[key] = Null
  BY <1>1, <1>2, <1>3 DEF SortedInv, BooksInLine
<1>4. CASE old.orders[key] # Null
  <2>1. old \in Books /\ InOrder(old) /\ (~spoiled[client] => InLine(old)) /\ key \in Live(old)
    BY <1>1, <1>4, LineFacts
  <2> HIDE DEF key, old
  <2>2. book \in Books /\ (spoiled[client] \/ InLine(book))
    BY <2>1, RemoveOrderInLine, RemoveOrderRemoves DEF Removed
  <2>3. QED BY <1>1, <1>2, <1>4, <2>2, OneBookInLine DEF SortedInv, EngineInv, SpoiledStays
<1>5. QED BY <1>3, <1>4

\* Every step keeps the books in line.
LEMMA SortedStep ==
    ASSUME SortedInv, Next
    PROVE  SortedInv'
<1>1. EngineInv'
  BY EngineStep DEF SortedInv
<1>2. CASE processClientRequest
  BY <1>1, <1>2, AddInLine, CancelInLine DEF processClientRequest, SortedInv
<1>3. CASE match
  BY <1>1, <1>3, MatchInLine DEF SortedInv
<1>4. CASE rest
  BY <1>1, <1>4, RestInLine DEF SortedInv
<1>5. QED BY <1>2, <1>3, <1>4 DEF Next

\* The books stay in line, whatever comes, until addOrdersAtPrice() or an index that
\* two prices share misplaces a level.
THEOREM BooksStayInLine == Spec => []SortedInv
<1>1. ASSUME SortedInv, [Next]_vars PROVE SortedInv'
  <2>1. CASE Next
    BY <1>1, <2>1, SortedStep
  <2>2. CASE UNCHANGED vars
    BY <1>1, <2>2 DEF vars, SortedInv, EngineInv, TypeOK, BooksInOrder, OwnOrders, IdsInTurn,
                      TakerIsLast, QuantityConserved, Resting, BookOf, BooksInLine, TakerPriced
  <2>3. QED BY <1>1, <2>1, <2>2
<1>2. QED BY SortedInit, <1>1, PTL DEF Spec

\* No bid that rests could trade with an ask that rests in a book whose levels were
\* never misplaced: checkForMatch() leaves nothing behind.
THEOREM NobodyLeftToTrade == Spec => []NotCrossed
<1>1. ASSUME SortedInv PROVE NotCrossed
  <2>1. SUFFICES ASSUME NEW t \in Tickers, Sound(t), ~spoiled[t],
                        NEW k \in Live(ticker_order_book_[t]), NEW l \in Live(ticker_order_book_[t]),
                        ticker_order_book_[t].orders[k].side = "BUY",
                        ticker_order_book_[t].orders[l].side = "SELL"
                 PROVE  ticker_order_book_[t].orders[k].price < ticker_order_book_[t].orders[l].price
    BY DEF NotCrossed, OrderlyBooks
  <2> DEFINE book == ticker_order_book_[t]
  <2>2. book \in Books /\ InOrder(book) /\ InLine(book)
    BY <1>1, <2>1, LineFacts
  <2> HIDE DEF book
  <2>3. QED BY <2>1, <2>2, LevelOfOrder DEF InLine, Uncrossed, book
<1>2. QED BY BooksStayInLine, <1>1, PTL

-----------------------------------------------------------------------------
(* Walks.                                                                  *)

\* A walk along a ring meets all of its elements, cheapest first, and is back.
LEMMA RingWalk ==
    ASSUME NEW S, NEW h, NEW c, NEW nx, NEW pv, Ring(S, h, c, nx, pv), S # {}, IsFiniteSet(S),
           NEW N \in Nat, Cardinality(S) <= N, NEW hop, hop[0] = h,
           \A m \in 1 .. N : hop[m] = nx[hop[m - 1]]
    PROVE  LET n == Cardinality(S)
           IN  /\ n \in Nat \ {0}
               /\ \A m \in 0 .. n - 1 : hop[m] \in S
               /\ S = {hop[m] : m \in 0 .. n - 1}
               /\ \A m \in 0 .. n - 2 : nx[hop[m]] = hop[m + 1] /\ c[hop[m]] < c[hop[m + 1]]
               /\ nx[hop[n - 1]] = h
<1> DEFINE n      == Cardinality(S)
           Low(x) == {j \in S : c[j] <= c[x]}
           Met(m) == {hop[k] : k \in 0 .. m}
           P(m)   == hop[m] \in S /\ Met(m) = Low(hop[m]) /\ Cardinality(Low(hop[m])) = m + 1
<1>1. n \in Nat /\ n # 0 /\ n - 1 \in Nat /\ n <= N
  BY FS_CardinalityType, FS_EmptySet
<1>2. /\ h \in S /\ \A i \in S : c[i] \in Int /\ c[h] <= c[i] /\ nx[i] \in S
      /\ \A i, j \in S : c[i] = c[j] => i = j
      /\ \A i, j \in S : IF nx[i] = h THEN c[j] <= c[i]
                         ELSE c[i] < c[nx[i]] /\ (c[j] <= c[i] \/ c[nx[i]] <= c[j])
  BY DEF Ring
<1>3. ASSUME NEW x \in S
      PROVE  /\ Low(x) \in SUBSET S /\ IsFiniteSet(Low(x))
             /\ Cardinality(Low(x)) = n => nx[x] = h
             /\ Cardinality(Low(x)) # n =>
                   /\ nx[x] # h /\ c[x] < c[nx[x]]
                   /\ Low(nx[x]) = Low(x) \cup {nx[x]}
                   /\ Cardinality(Low(nx[x])) = Cardinality(Low(x)) + 1
  <2>1. Low(x) \in SUBSET S
    OBVIOUS
  <2>2. IsFiniteSet(Low(x)) /\ (Cardinality(Low(x)) = n => Low(x) = S)
    <3> HIDE DEF Low
    <3>1. QED BY <2>1, FS_Subset
  <2>3. Low(x) = S => nx[x] = h
    BY <1>2
  <2>4. ASSUME Cardinality(Low(x)) # n
        PROVE  /\ nx[x] # h /\ c[x] < c[nx[x]]
               /\ Low(nx[x]) = Low(x) \cup {nx[x]}
               /\ Cardinality(Low(nx[x])) = Cardinality(Low(x)) + 1
    <3>1. PICK j \in S : ~(c[j] <= c[x])
      BY <2>4
    <3>2. nx[x] # h
      BY <1>2, <3>1
    <3>3. c[x] < c[nx[x]] /\ nx[x] \in S /\ \A k \in S : c[k] <= c[x] \/ c[nx[x]] <= c[k]
      BY <1>2, <3>2
    <3>4. nx[x] \notin Low(x)
      BY <1>2, <3>3
    <3>5. ASSUME NEW k \in S PROVE k \in Low(nx[x]) <=> k \in Low(x) \/ k = nx[x]
      BY <1>2, <3>3
    <3>6. Low(nx[x]) = Low(x) \cup {nx[x]}
      BY <3>3, <3>5
    <3> HIDE DEF Low
    <3>7. Cardinality(Low(nx[x])) = Cardinality(Low(x)) + 1
      BY <2>2, <3>4, <3>6, FS_AddElement
    <3>8. QED BY <3>2, <3>3, <3>6, <3>7
  <2>5. QED BY <2>1, <2>2, <2>3, <2>4
<1>4. P(0)
  <2>1. Low(h) = {h}
    BY <1>2
  <2>2. Met(0) = {h}
    <3>1. 0 .. 0 = {0}
      OBVIOUS
    <3>2. QED BY <3>1
  <2>3. Cardinality({h}) = 1
    BY FS_Singleton
  <2> HIDE DEF Met, Low
  <2>4. QED BY <1>2, <2>1, <2>2, <2>3
<1>5. ASSUME NEW m \in Nat, m + 1 <= n - 1, P(m)
      PROVE  P(m + 1) /\ nx[hop[m]] = hop[m + 1] /\ c[hop[m]] < c[hop[m + 1]]
  <2>1. hop[m + 1] = nx[hop[m]]
    BY <1>1, <1>5
  <2>2. Cardinality(Low(hop[m])) # n
    BY <1>1, <1>5
  <2>3. Met(m + 1) = Met(m) \cup {hop[m + 1]}
    <3>1. \A k : k \in 0 .. m + 1 <=> k \in 0 .. m \/ k = m + 1
      BY <1>5
    <3>2. QED BY <3>1
  <2> HIDE DEF Met, Low
  <2>4. QED BY <1>2, <1>3, <1>5, <2>1, <2>2, <2>3
<1> HIDE DEF P
<1>6. \A m \in 0 .. n - 1 : P(m)
  <2> SUFFICES ASSUME NEW o \in 0 .. n - 1, ~P(o) PROVE FALSE
    OBVIOUS
  <2> DEFINE Bad == {m \in Nat : m \in 0 .. n - 1 /\ ~P(m)}
  <2>1. PICK x \in Bad : \A y \in Bad : x <= y
    <3>1. o \in Bad /\ Bad \in SUBSET Nat
      BY <1>1
    <3> HIDE DEF Bad
    <3>2. QED BY <3>1, Least
  <2>2. x # 0 /\ x - 1 \in Nat /\ x - 1 + 1 = x /\ x <= n - 1
    BY <1>1, <1>4, <2>1
  <2>3. P(x - 1)
    BY <1>1, <2>1, <2>2
  <2>4. P(x - 1 + 1)
    BY <1>5, <2>2, <2>3
  <2>5. QED BY <2>1, <2>2, <2>4
<1>7. \A m \in 0 .. n - 2 : nx[hop[m]] = hop[m + 1] /\ c[hop[m]] < c[hop[m + 1]]
  BY <1>1, <1>5, <1>6
<1>8. P(n - 1)
  BY <1>1, <1>6
<1>9. Low(hop[n - 1]) = S /\ nx[hop[n - 1]] = h /\ S = Met(n - 1)
  <2>1. /\ hop[n - 1] \in S /\ Met(n - 1) = Low(hop[n - 1])
        /\ Cardinality(Low(hop[n - 1])) = n
    BY <1>1, <1>8 DEF P
  <2> HIDE DEF Low, Met
  <2>2. QED BY <1>3, <2>1, FS_Subset
<1>10. \A m \in 0 .. n - 1 : hop[m] \in S
  BY <1>6 DEF P
<1> HIDE DEF n
<1>11. QED BY <1>1, <1>7, <1>9, <1>10 DEF n

\* A side whose levels form a ring is sorted.
LEMMA RingSorted ==
    ASSUME NEW book \in Books, ~Dangles(book), NEW side \in Sides, SideRing(book, side)
    PROVE  SideSorted(book, side)
<1> DEFINE S    == SidePrices(book, side)
           best == Best(book, side)
           n    == Cardinality(S)
           hop  == Hop(book, best)
           walk == Walk(book, side)
<1>1. CASE best = Null
  <2>1. S = {}
    <3>1. \A i \in S : i # Null
      BY LevelFields DEF SidePrices
    <3>2. QED BY <1>1, <3>1, RingMeans
  <2>2. walk = << >>
    BY <1>1 DEF Walk
  <2>3. QED BY <2>1, <2>2 DEF SideSorted
<1>2. CASE best # Null
  <2>1. best \in S /\ best \in Levels(book)
    BY <1>2, RingMeans
  <2>2. IsFiniteSet(S) /\ n \in Nat /\ n <= MaxPriceLevels /\ MaxPriceLevels \in Nat
    <3>1. IsFiniteSet(LevelIndices) /\ Cardinality(LevelIndices) = MaxPriceLevels
      BY LevelsAssumption, FS_Interval DEF LevelIndices
    <3>2. S \in SUBSET LevelIndices
      BY DEF SidePrices, Levels
    <3> HIDE DEF S
    <3>3. QED BY <3>1, <3>2, FS_Subset, FS_CardinalityType, LevelsAssumption
  <2> DEFINE c  == Costs(book.levels, side)
             nx == Nexts(book.levels)
             pv == Prevs(book.levels)
  <2>3. hop[0] = best /\ \A m \in 1 .. MaxPriceLevels : hop[m] = book.levels[hop[m - 1]].next
    BY <2>1, HopSteps
  <2>4. \A m \in 0 .. MaxPriceLevels : hop[m] \in S
    <3>1. S \in SUBSET Levels(book) /\ \A i \in S : book.levels[i].next \in S
      BY RingMeans DEF SidePrices
    <3> HIDE DEF S
    <3>2. QED BY <2>1, <2>3, <3>1, HopStaysIn
  <2>5. \A i \in S : i \in Levels(book) /\ i \in LevelIndices
                     /\ nx[i] = book.levels[i].next /\ c[i] = Cost(side, book.levels[i].price)
    BY DEF SidePrices, Levels, Nexts, Costs
  <2>6. \A m \in 1 .. MaxPriceLevels : hop[m] = nx[hop[m - 1]]
    <3>1. ASSUME NEW m \in 1 .. MaxPriceLevels PROVE hop[m] = nx[hop[m - 1]]
      <4>1. m - 1 \in 0 .. MaxPriceLevels
        BY <2>2
      <4> HIDE DEF hop, S, nx
      <4>2. QED BY <2>3, <2>4, <2>5, <4>1
    <3>2. QED BY <3>1
  <2>7. Ring(S, best, c, nx, pv)
    BY DEF SideRing
  <2> HIDE DEF hop, S, nx, c, pv
  <2>8. /\ n \in Nat \ {0}
        /\ \A m \in 0 .. n - 1 : hop[m] \in S
        /\ S = {hop[m] : m \in 0 .. n - 1}
        /\ \A m \in 0 .. n - 2 : nx[hop[m]] = hop[m + 1] /\ c[hop[m]] < c[hop[m + 1]]
        /\ nx[hop[n - 1]] = best
    BY <2>1, <2>2, <2>3, <2>6, <2>7, RingWalk
  <2>9. walk = [i \in 1 .. n |-> hop[i - 1]]
    BY <1>2 DEF Walk, hop, S
  <2> HIDE DEF walk, n
  <2>10. Len(walk) = n /\ DOMAIN walk = 1 .. n /\ \A i \in 1 .. n : walk[i] = hop[i - 1]
    BY <2>8, <2>9
  <2>11. {walk[i] : i \in DOMAIN walk} = S
    <3>1. ASSUME NEW x \in S PROVE \E i \in DOMAIN walk : walk[i] = x
      <4>1. PICK m \in 0 .. n - 1 : x = hop[m]
        BY <2>8
      <4>2. m + 1 \in 1 .. n /\ m + 1 - 1 = m
        BY <2>8
      <4>3. walk[m + 1] = x
        BY <2>10, <4>1, <4>2
      <4>4. QED BY <2>10, <4>2, <4>3
    <3>2. ASSUME NEW i \in DOMAIN walk PROVE walk[i] \in S
      <4>1. i - 1 \in 0 .. n - 1
        BY <2>8, <2>10
      <4>2. QED BY <2>8, <2>10, <4>1
    <3>3. QED BY <3>1, <3>2
  <2>12. ASSUME NEW i \in 1 .. n
         PROVE  LET follower == walk[(i % n) + 1]
                IN  /\ book.levels[walk[i]].next = follower
                    /\ book.levels[follower].prev = walk[i]
                    /\ i < n => GoesAfter(side, book.levels[follower].price,
                                          book.levels[walk[i]])
    <3> DEFINE x == walk[i]
               y == walk[(i % n) + 1]
    <3>1. i - 1 \in 0 .. n - 1 /\ x = hop[i - 1] /\ x \in S
      BY <2>8, <2>10
    <3>2. book.levels[x].next = y
      <4>1. CASE i = n
        <5>1. i % n = 0
          BY <2>8, <4>1
        <5>2. y = hop[0]
          BY <2>8, <2>10, <5>1
        <5>3. QED BY <2>3, <2>5, <2>8, <3>1, <4>1, <5>2
      <4>2. CASE i # n
        <5>1. i % n = i /\ i + 1 \in 1 .. n /\ i - 1 \in 0 .. n - 2
          BY <2>8, <4>2
        <5>2. y = hop[i]
          BY <2>10, <5>1
        <5>3. QED BY <2>5, <2>8, <3>1, <5>1, <5>2
      <4>3. QED BY <4>1, <4>2
    <3>3. ASSUME i < n PROVE c[x] < c[y]
      <4>1. i % n = i /\ i + 1 \in 1 .. n /\ i - 1 \in 0 .. n - 2
        BY <2>8, <3>3
      <4>2. y = hop[i]
        BY <2>10, <4>1
      <4>3. QED BY <2>8, <3>1, <4>1, <4>2
    <3> HIDE DEF x, y
    <3>4. book.levels[y].prev = x /\ y \in S
      BY <3>1, <3>2, RingMeans DEF S
    <3>5. ASSUME i < n PROVE GoesAfter(side, book.levels[y].price, book.levels[x])
      <4>1. book.levels[x].price \in Nat /\ book.levels[y].price \in Nat
        BY <2>5, <3>1, <3>4, LevelFields
      <4>2. Cost(side, book.levels[x].price) < Cost(side, book.levels[y].price)
        BY <2>5, <3>1, <3>3, <3>4, <3>5
      <4>3. QED BY <4>1, <4>2, CostMeans
    <3>6. QED BY <3>2, <3>4, <3>5 DEF x, y
  <2>13. QED BY <2>10, <2>11, <2>12 DEF SideSorted, walk, S
<1>3. QED BY <1>1, <1>2

\* The invariant makes books that are sound well formed.
LEMMA LineIsWellFormed == SortedInv /\ NothingDangles => BookWellFormed
<1> SUFFICES ASSUME SortedInv, NothingDangles PROVE BookWellFormed
  OBVIOUS
<1>1. ASSUME NEW book \in OrderlyBooks
      PROVE  /\ \A side \in Sides : SideSorted(book, side)
             /\ book \in Books /\ InOrder(book) /\ InLine(book)
  <2>1. PICK t \in Tickers : Sound(t) /\ ~spoiled[t] /\ book = ticker_order_book_[t]
    BY DEF OrderlyBooks
  <2>2. book \in Books /\ InOrder(book) /\ InLine(book)
    BY <2>1, LineFacts
  <2>3. QED BY <2>2, RingSorted DEF InOrder, InLine, Rings, Sides
<1>2. LevelsSorted
  BY <1>1 DEF LevelsSorted
<1>3. LevelsFileOrders
  BY <1>1 DEF LevelsFileOrders, InOrder, Filed, InLine, OrdersPlaced
<1>4. TimePriority
  <2>1. ASSUME NEW book \in SoundBooks PROVE InOrder(book)
    <3>1. PICK t \in Tickers : Sound(t) /\ book = ticker_order_book_[t]
      BY DEF SoundBooks
    <3>2. QED BY <3>1, LineFacts
  <2>2. QED BY <2>1 DEF TimePriority, InOrder
<1>5. QED BY <1>2, <1>3, <1>4 DEF BookWellFormed, SortedInv, EngineInv

-----------------------------------------------------------------------------
(* Nothing dangles.                                                        *)

\* The pointers of a book whose levels form rings lead to levels that exist.
LEMMA RingsTied == ASSUME NEW book \in Books, Rings(book) PROVE ~Dangles(book)
<1>1. ASSUME NEW s \in Sides
      PROVE  /\ Best(book, s) # Null => Best(book, s) \in Levels(book)
             /\ \A i \in SidePrices(book, s) : /\ book.levels[i].next \in Levels(book)
                                               /\ book.levels[i].prev \in Levels(book)
  <2>1. SideRing(book, s)
    BY DEF Rings, Sides
  <2>2. QED BY <2>1, RingMeans
<1>2. \A i \in Levels(book) : \E s \in Sides : i \in SidePrices(book, s)
  BY LevelFields
<1>3. /\ book.bids # Null => book.bids \in Levels(book)
      /\ book.asks # Null => book.asks \in Levels(book)
  BY <1>1 DEF Best, Sides
<1>4. QED BY <1>1, <1>2, <1>3, TiedMeans

\* A walk along a side comes back to its head.
LEMMA SearchEnds ==
    ASSUME NEW book \in Books, ~Dangles(book), NEW side \in Sides, SideRing(book, side),
           NEW price, Best(book, side) # Null
    PROVE  Stops(book, side, price, Best(book, side)) # {}
<1> DEFINE S    == SidePrices(book, side)
           best == Best(book, side)
           n    == Cardinality(S)
           hop  == Hop(book, best)
           walk == Walk(book, side)
<1>1. best \in S /\ best \in Levels(book)
  BY RingMeans
<1>2. n \in Nat /\ n # 0 /\ n <= MaxPriceLevels /\ MaxPriceLevels \in Nat
  <2>1. IsFiniteSet(LevelIndices) /\ Cardinality(LevelIndices) = MaxPriceLevels
    BY LevelsAssumption, FS_Interval DEF LevelIndices
  <2>2. S \in SUBSET LevelIndices
    BY DEF SidePrices, Levels
  <2> HIDE DEF S
  <2>3. IsFiniteSet(S) /\ n <= MaxPriceLevels
    BY <2>1, <2>2, FS_Subset
  <2>4. QED BY <1>1, <2>3, FS_CardinalityType, FS_EmptySet, LevelsAssumption
<1>3. hop[0] = best /\ \A m \in 1 .. MaxPriceLevels : hop[m] = book.levels[hop[m - 1]].next
  BY <1>1, HopSteps
<1>4. walk = [i \in 1 .. n |-> hop[i - 1]]
  BY DEF Walk
<1>5. SideSorted(book, side)
  BY RingSorted
<1> HIDE DEF hop, n
<1>6. Len(walk) = n /\ walk[n] = hop[n - 1] /\ walk[1] = best
  BY <1>2, <1>3, <1>4
<1>7. book.levels[walk[n]].next = walk[(n % n) + 1]
  BY <1>2, <1>5, <1>6 DEF SideSorted
<1>8. n % n = 0
  BY <1>2
<1>9. n \in 1 .. MaxPriceLevels /\ hop[n] = best
  BY <1>2, <1>3, <1>6, <1>7, <1>8
<1>10. n \in Stops(book, side, price, best)
  BY <1>9 DEF Stops, hop
<1>11. QED BY <1>10

\* A level finds its place.
LEMMA InsertLevelEnds ==
    ASSUME NEW book \in Books, ~book.fault, Rings(book), NEW level, level.side \in Sides,
           NEW past
    PROVE  ~InsertLevel(book, level, past).fault
<1> DEFINE side == level.side
           best == Best(book, side)
<1>1. ~Dangles(book) /\ SideRing(book, side)
  BY RingsTied DEF Rings, Sides
<1>2. best # Null => Stops(book, side, level.price, best) # {}
  BY <1>1, SearchEnds
<1>3. ASSUME NEW L, NEW head
      PROVE  /\ ~[book EXCEPT !.levels = L].fault
             /\ ~SetBest([book EXCEPT !.levels = L], side, head).fault
             /\ ~[[book EXCEPT !.levels = L] EXCEPT !.levels = head].fault
             /\ \A K : ~SetBest([[book EXCEPT !.levels = L] EXCEPT !.levels = K], side, head).fault
  BY DEF SetBest, Books
<1>4. QED BY <1>2, <1>3 DEF InsertLevel

\* An order that comes to a book finds its place, unless the pool of levels has no
\* block left.
LEMMA AddOrderEnds ==
    ASSUME NEW book \in Books, ~book.fault, InOrder(book), Rings(book),
           NEW key \in Keys, NEW order \in OrderRecords,
           addOrder(book, key, order).fault
    PROVE  Levels(addOrder(book, key, order)) = LevelIndices
<1> DEFINE index == priceToIndex(order.price)
           filed == [book EXCEPT !.orders[key] = order]
           level == [side |-> order.side, price |-> order.price, orders |-> <<key>>,
                     prev |-> Null, next |-> Null]
           past  == GoesAfterBest(order.side, order.price, filed.levels[Best(filed, order.side)])
           grown == addOrdersAtPrice(filed, level)
           full  == [grown EXCEPT !.fault = @ \/ Levels(grown) = LevelIndices]
<1>1. order.price \in Prices /\ order.side \in Sides /\ <<key>> \in Seq(Keys)
      /\ index \in LevelIndices
  BY IndexInRange DEF OrderRecords
<1>2. /\ filed \in Books /\ filed.levels = book.levels /\ ~filed.fault
      /\ filed.bids = book.bids /\ filed.asks = book.asks
  BY BookFields DEF Books
<1> HIDE DEF filed
<1>3. /\ Levels(filed) = Levels(book) /\ Rings(filed) /\ ~Dangles(filed)
  <2>1. SameFrame(book, filed)
    BY <1>2 DEF Levels, SameFrame
  <2>2. QED BY <1>2, <2>1, SameRings, RingsTied DEF SameFrame
<1>4. CASE index \in Levels(book)
  <2>1. addOrder(book, key, order) = [filed EXCEPT !.levels[index].orders = Append(@, key)]
    BY <1>4 DEF addOrder, filed, Levels
  <2>2. QED BY <1>2, <2>1 DEF Books
<1>5. CASE index \notin Levels(book)
  <2>1. addOrder(book, key, order) = full
    BY <1>1, <1>5 DEF addOrder, filed, Levels
  <2>2. /\ level.side = order.side /\ level.price = order.price
        /\ grown = InsertLevel(filed, level, past)
    BY DEF addOrdersAtPrice
  <2>3. past \in BOOLEAN
    BY DEF GoesAfterBest
  <2> HIDE DEF past
  <2>4. /\ SameOrders(filed, grown)
        /\ grown.fault \/ Grown(filed, grown, index, <<key>>)
    <3> HIDE DEF grown
    <3>1. QED BY <1>1, <1>2, <1>3, <1>5, <2>2, <2>3, InsertLevelGrows
  <2>5. ~grown.fault
    <3> HIDE DEF level, grown
    <3>1. QED BY <1>1, <1>2, <1>3, <2>2, InsertLevelEnds
  <2> HIDE DEF grown
  <2>6. grown \in Books
    BY <2>4 DEF SameOrders
  <2>7. full.levels = grown.levels /\ (full.fault => Levels(grown) = LevelIndices)
    BY <2>5, <2>6 DEF Books
  <2>8. QED BY <2>1, <2>7 DEF Levels
<1>6. QED BY <1>4, <1>5

\* An order that leaves a book leaves no pointer to its level.
LEMMA RemoveOrderEnds ==
    ASSUME NEW book \in Books, ~book.fault, InOrder(book), InLine(book), NEW key \in Live(book)
    PROVE  ~removeOrder(book, key).fault
<1> DEFINE order   == book.orders[key]
           index   == priceToIndex(order.price)
           others  == Unlinked(book.levels[index].orders, key)
           gone    == removeOrdersAtPrice(book, order.side, order.price)
           left    == [book EXCEPT !.levels[index].orders = others]
           removed == IF others = << >> THEN gone ELSE left
           result  == [removed EXCEPT !.orders[key] = Null]
           after   == removeOrder(book, key)
<1>1. after = [result EXCEPT !.fault = @ \/ Dangles(result)]
  BY DEF removeOrder
<1>2. /\ DOMAIN removed = DOMAIN book /\ ~removed.fault
      /\ "fault" \in DOMAIN removed
  <2>1. /\ DOMAIN gone = DOMAIN book /\ ~gone.fault
    BY DEF removeOrdersAtPrice, SetBest, Books
  <2>2. /\ DOMAIN left = DOMAIN book /\ ~left.fault
    BY DEF Books
  <2>3. "fault" \in DOMAIN book
    BY DEF Books
  <2> HIDE DEF gone, left
  <2>4. QED BY <2>1, <2>2, <2>3
<1> HIDE DEF removed
<1>3. ~result.fault /\ "fault" \in DOMAIN result
  BY <1>2
<1> HIDE DEF result
<1>4. /\ after.bids = result.bids /\ after.asks = result.asks /\ after.levels = result.levels
      /\ after.fault = Dangles(result)
  <2> HIDE DEF after
  <2>1. Dangles(result) \in BOOLEAN
    BY DEF Dangles
  <2>2. QED BY <1>1, <1>3, <2>1
<1>5. Dangles(after) <=> Dangles(result)
  <2> HIDE DEF after
  <2>1. QED BY <1>4 DEF Dangles, Levels
<1>6. after \in Books /\ Rings(after)
  BY RemoveOrderInLine, RemoveOrderRemoves DEF Removed, InLine
<1>7. QED BY <1>4, <1>5, <1>6, RingsTied

\* A fill leaves no pointer to the level of an order that is used up.
LEMMA FillEnds ==
    ASSUME NEW book \in Books, ~book.fault, InOrder(book), InLine(book), NEW key \in Live(book),
           NEW fill \in Nat, fill <= book.orders[key].qty
    PROVE  ~Fill(book, key, fill).fault
<1> DEFINE left  == book.orders[key].qty - fill
           book1 == [book EXCEPT !.orders[key].qty = left]
<1>1. key \in Keys /\ left \in Nat
  BY BookFields DEF OrderRecords
<1>2. Fill(book, key, fill) = IF left = 0 THEN removeOrder(book1, key) ELSE book1
  BY DEF Fill
<1> HIDE DEF left
<1>3. ~book1.fault /\ book1 \in Books /\ InOrder(book1) /\ key \in Live(book1)
  <2>1. ~book1.fault
    BY DEF Books
  <2>2. QED BY <1>1, <2>1, QtyChanges
<1>4. InLine(book1)
  BY <1>1, QtyInLine
<1> HIDE DEF book1
<1>5. QED BY <1>2, <1>3, <1>4, RemoveOrderEnds

\* One book changes, and is sound, or ended as it may.
LEMMA OneBookSound ==
    ASSUME TypeOK, NothingDangles, SpoiledStays, NEW t \in Tickers, NEW book, SetBook(t, book),
           book.fault => spoiled'[t] \/ Levels(book) = LevelIndices
    PROVE  NothingDangles'
<1>1. /\ ticker_order_book_'[t] = book
      /\ \A u \in Tickers : u # t => ticker_order_book_'[u] = ticker_order_book_[u]
  BY DEF TypeOK, SetBook
<1>2. ASSUME NEW u \in Tickers, ticker_order_book_'[u].fault
      PROVE  spoiled'[u] \/ Levels(ticker_order_book_'[u]) = LevelIndices
  BY <1>1, <1>2 DEF NothingDangles, Sound, SpoiledStays
<1>3. QED BY <1>2 DEF NothingDangles, Sound

\* No step leaves a pointer to nothing in a book that is not spoiled.
LEMMA SoundStep ==
    ASSUME SortedInv, NothingDangles, Next
    PROVE  NothingDangles'
<1>0. TypeOK /\ SpoiledStays
  BY SpoiledStep DEF SortedInv, EngineInv
<1>1. ASSUME NEW client \in Clients, NEW ticker \in Tickers, NEW side \in Sides,
             NEW price \in PricesOf(side), NEW qty \in Qtys, add(client, ticker, side, price, qty)
      PROVE  NothingDangles'
  <2> DEFINE old == ticker_order_book_[client]
  <2>1. client \in Tickers /\ Sound(client) /\ SetBook(client, IdTaken(old))
    BY <1>1, ClientsAssumption DEF add, BookOf
  <2>2. old \in Books /\ ~old.fault
    BY <2>1, LineFacts
  <2> HIDE DEF old
  <2>3. ~IdTaken(old).fault
    BY <2>2 DEF IdTaken, Books
  <2>4. QED BY <1>0, <2>1, <2>3, OneBookSound
<1>2. ASSUME NEW client \in Clients, NEW order_id \in OrderIds, cancel(client, order_id)
      PROVE  NothingDangles'
  <2> DEFINE key  == <<client, order_id>>
             old  == ticker_order_book_[client]
             book == removeOrder(old, key)
  <2>1. /\ client \in Tickers /\ key \in Keys /\ Sound(client)
        /\ IF old.orders[key] = Null THEN ticker_order_book_' = ticker_order_book_
           ELSE SetBook(client, book)
    BY <1>2, ClientsAssumption DEF cancel, BookOf, Keys
  <2>2. CASE old.orders[key] = Null
    BY <1>0, <2>1, <2>2 DEF NothingDangles, Sound, SpoiledStays
  <2>3. CASE old.orders[key] # Null
    <3>1. /\ old \in Books /\ ~old.fault /\ InOrder(old) /\ key \in Live(old)
          /\ ~spoiled[client] => InLine(old)
      BY <2>1, <2>3, LineFacts
    <3> HIDE DEF key, old
    <3>2. book.fault => spoiled[client]
      BY <3>1, RemoveOrderEnds
    <3> HIDE DEF book
    <3>3. QED BY <1>0, <2>1, <2>3, <3>2, OneBookSound DEF SpoiledStays
  <2>4. QED BY <2>2, <2>3
<1>3. CASE match
  <2> DEFINE t    == taker.book
             old  == ticker_order_book_[t]
             key  == Maker(old, taker.side)
             fill == FillQty(taker.qty, old.orders[key])
             book == Fill(old, key, fill)
  <2>1. taker # Null /\ Sound(t) /\ key # Null /\ SetBook(t, book)
    BY <1>3 DEF match, CanMatch
  <2>2. taker \in Takers /\ t \in Tickers /\ taker.qty \in Nat
    BY <1>0, <2>1 DEF TypeOK, Takers
  <2>3. /\ old \in Books /\ ~old.fault /\ InOrder(old) /\ key \in Live(old)
        /\ old.orders[key] \in OrderRecords /\ (~spoiled[t] => InLine(old))
    BY <2>1, <2>2, LineFacts, MakerLives, BookFields
  <2>4. fill \in Nat /\ fill <= old.orders[key].qty
    BY <2>2, <2>3 DEF FillQty, OrderRecords
  <2> HIDE DEF fill, old, key
  <2>5. book.fault => spoiled[t]
    BY <2>3, <2>4, FillEnds
  <2> HIDE DEF book
  <2>6. QED BY <1>0, <2>1, <2>2, <2>5, OneBookSound DEF SpoiledStays
<1>4. CASE rest
  <2> DEFINE t     == taker.book
             old   == ticker_order_book_[t]
             mine  == taker.key
             prio  == getNextPriority(old, taker.price)
             order == [ticker |-> taker.ticker, side |-> taker.side, price |-> taker.price,
                       qty |-> taker.qty, priority |-> prio,
                       market_order_id |-> taker.market_order_id]
             book  == addOrder(old, mine, order)
  <2>1. /\ taker # Null /\ Sound(t)
        /\ IF taker.qty = 0 THEN ticker_order_book_' = ticker_order_book_ ELSE SetBook(t, book)
    BY <1>4 DEF rest
  <2>2. /\ taker \in Takers /\ t \in Tickers /\ mine \in Keys /\ taker.qty \in Nat
        /\ taker.side \in Sides /\ taker.price \in Prices
        /\ old.orders[mine] = Null
    BY <1>0, <2>1, OrdersAssumption
       DEF SortedInv, EngineInv, TypeOK, Takers, TakerIsLast, TakerPriced, PricesOf
  <2>3. /\ old \in Books /\ ~old.fault /\ InOrder(old) /\ mine \notin Live(old)
        /\ ~spoiled[t] => InLine(old)
    BY <2>1, <2>2, LineFacts
  <2>4. CASE taker.qty = 0
    BY <1>0, <2>1, <2>4 DEF NothingDangles, Sound, SpoiledStays
  <2>5. CASE taker.qty # 0
    <3>1. prio \in Nat \ {0}
      BY <2>2, <2>3, NextPriorityIsNext DEF InOrder
    <3>2. order \in OrderRecords
      BY <2>2, <2>5, <3>1 DEF OrderRecords, Takers
    <3> HIDE DEF order, old, mine, t
    <3>3. book.fault => spoiled[t] \/ Levels(book) = LevelIndices
      BY <2>2, <2>3, <3>2, AddOrderEnds DEF InLine
    <3> HIDE DEF book
    <3>4. QED BY <1>0, <2>1, <2>2, <2>5, <3>3, OneBookSound DEF SpoiledStays
  <2>6. QED BY <2>4, <2>5
<1>5. QED BY <1>1, <1>2, <1>3, <1>4 DEF Next, processClientRequest

\* No pointer of a book dangles and no search in it goes on for ever, unless a level
\* was misplaced before: the process aborts only when the pool of levels is used up.
THEOREM BooksStaySound == Spec => []NothingDangles
<1>1. Init => NothingDangles
  BY DEF Init, NothingDangles, Sound, EmptyBook
<1>2. ASSUME SortedInv, NothingDangles, [Next]_vars PROVE NothingDangles'
  <2>1. CASE Next
    BY <1>2, <2>1, SoundStep
  <2>2. CASE UNCHANGED vars
    BY <1>2, <2>2 DEF vars, NothingDangles, Sound
  <2>3. QED BY <1>2, <2>1, <2>2
<1>3. QED BY <1>1, <1>2, BooksStayInLine, PTL DEF Spec

\* The hash maps of a book, the lists of its levels and the rings of both its
\* sides, each re-tied by hand, describe one book in price-time order, until an order
\* comes that its levels misplace.
THEOREM BooksWellFormed == Spec => []BookWellFormed
BY BooksStayInLine, BooksStaySound, LineIsWellFormed, PTL

-----------------------------------------------------------------------------
(* The engine keeps price-time priority.                                   *)

\* The orders of a client have ids of their own, so that a change of one order
\* shows as a change of one order.
LEMMA ShownChange ==
    ASSUME NEW book \in Books, NEW after \in Books, NEW t, NEW key \in Keys, key[1] = t,
           \A k \in Live(book) : k[1] = t,
           \A k \in Keys : k # key => after.orders[k] = book.orders[k]
    PROVE  /\ book.orders[key] = Null /\ after.orders[key] # Null =>
                 Shown(after) = Shown(book) \cup {Plain(key, after.orders[key])}
           /\ book.orders[key] # Null /\ after.orders[key] = Null =>
                 Shown(after) = Shown(book) \ {Plain(key, book.orders[key])}
           /\ book.orders[key] # Null /\ after.orders[key] # Null =>
                 Shown(after) = (Shown(book) \ {Plain(key, book.orders[key])})
                                    \cup {Plain(key, after.orders[key])}
           /\ book.orders[key] = Null /\ after.orders[key] = Null => Shown(after) = Shown(book)
<1>1. /\ \A k : k \in Live(book) <=> k \in Keys /\ book.orders[k] # Null
      /\ \A k : k \in Live(after) <=> k \in Keys /\ after.orders[k] # Null
  BY BookFields DEF Live
<1>2. \A k \in Live(book) : k # key => k \in Live(after) /\ after.orders[k] = book.orders[k]
  BY <1>1
<1>3. \A k \in Live(after) : k # key => k \in Live(book) /\ after.orders[k] = book.orders[k]
  BY <1>1
<1>4. ASSUME NEW k \in Live(book), NEW l \in Keys, k # l, l[1] = t, NEW o, NEW p
      PROVE  Plain(k, o) # Plain(l, p)
  <2>1. k = <<k[1], k[2]>> /\ l = <<l[1], l[2]>> /\ k[1] = l[1]
    BY <1>1, <1>4, KeyParts
  <2>2. k[2] # l[2]
    BY <1>4, <2>1
  <2>3. Plain(k, o).id = k[2] /\ Plain(l, p).id = l[2]
    BY DEF Plain
  <2>4. QED BY <2>2, <2>3
<1>5. \A x : x \in Shown(book) <=> \E k \in Live(book) : x = Plain(k, book.orders[k])
  BY DEF Shown
<1>6. \A x : x \in Shown(after) <=> \E k \in Live(after) : x = Plain(k, after.orders[k])
  BY DEF Shown
<1>7. \A k \in Live(book) : k # key => \A o, p : Plain(k, o) # Plain(key, p)
  BY <1>4
<1> DEFINE Rest == {Plain(k, book.orders[k]) : k \in Live(book) \ {key}}
<1>8. ASSUME NEW x
      PROVE  /\ x \in Shown(book) <=>
                   x \in Rest \/ (key \in Live(book) /\ x = Plain(key, book.orders[key]))
             /\ x \in Shown(after) <=>
                   x \in Rest \/ (key \in Live(after) /\ x = Plain(key, after.orders[key]))
             /\ \A o : x \in Rest => x # Plain(key, o)
  <2>1. x \in Rest <=> \E k \in Live(book) : k # key /\ x = Plain(k, book.orders[k])
    OBVIOUS
  <2>2. x \in Rest <=> \E k \in Live(after) : k # key /\ x = Plain(k, after.orders[k])
    BY <1>2, <1>3, <2>1
  <2> HIDE DEF Rest
  <2>3. x \in Shown(book) <=>
           x \in Rest \/ (key \in Live(book) /\ x = Plain(key, book.orders[key]))
    BY <1>5, <2>1
  <2>4. x \in Shown(after) <=>
           x \in Rest \/ (key \in Live(after) /\ x = Plain(key, after.orders[key]))
    BY <1>6, <2>2
  <2>5. \A o : x \in Rest => x # Plain(key, o)
    BY <1>7, <2>1
  <2>6. QED BY <2>3, <2>4, <2>5
<1> HIDE DEF Rest
<1>9. /\ key \in Live(book) <=> book.orders[key] # Null
      /\ key \in Live(after) <=> after.orders[key] # Null
  BY <1>1
<1>10. CASE book.orders[key] = Null /\ after.orders[key] # Null
  <2>1. Shown(after) = Shown(book) \cup {Plain(key, after.orders[key])}
    BY <1>8, <1>9, <1>10
  <2>2. QED BY <1>10, <2>1
<1>11. CASE book.orders[key] # Null /\ after.orders[key] = Null
  <2>1. Shown(after) = Shown(book) \ {Plain(key, book.orders[key])}
    BY <1>8, <1>9, <1>11
  <2>2. QED BY <1>11, <2>1
<1>12. CASE book.orders[key] # Null /\ after.orders[key] # Null
  <2>1. Shown(after) = (Shown(book) \ {Plain(key, book.orders[key])})
                           \cup {Plain(key, after.orders[key])}
    BY <1>8, <1>9, <1>12
  <2>2. QED BY <1>12, <2>1
<1>13. CASE book.orders[key] = Null /\ after.orders[key] = Null
  <2>1. Shown(after) = Shown(book)
    BY <1>8, <1>9, <1>13
  <2>2. QED BY <1>13, <2>1
<1>14. QED BY <1>10, <1>11, <1>12, <1>13

\* A fill against the first order of the best level is one with the order that
\* is served first.
LEMMA MakerServedFirst ==
    ASSUME NEW book \in Books, InOrder(book), InLine(book), NEW side \in Sides,
           NEW key, key = Maker(book, side), key # Null,
           NEW k \in Live(book), book.orders[k].side # side
    PROVE  /\ key \in Live(book)
           /\ LET o == Plain(key, book.orders[key])
                  p == Plain(k, book.orders[k])
              IN  /\ o.side # side
                  /\ p # o => /\ \/ IF o.side = "SELL" THEN o.price < p.price
                                    ELSE o.price > p.price
                                 \/ o.price = p.price /\ o.id < p.id
<1> DEFINE i    == priceToIndex(book.orders[k].price)
           best == Best(book, Opposite(side))
<1>1. /\ i \in Levels(book) /\ book.levels[i].price = book.orders[k].price
      /\ book.levels[i].side = book.orders[k].side
  BY LevelOfOrder
<1>2. PICK n \in DOMAIN book.levels[i].orders : book.levels[i].orders[n] = k
  BY LevelOfOrder
<1> HIDE DEF i
<1>3. /\ best \in Levels(book) /\ book.levels[best].side = Opposite(side)
      /\ key = book.levels[best].orders[1] /\ key \in Live(book)
      /\ 1 \in DOMAIN book.levels[best].orders
      /\ book.orders[key].price = book.levels[best].price
      /\ book.levels[best].price \in Nat /\ book.levels[i].price \in Nat
      /\ IF side = "BUY" THEN book.levels[best].price <= book.levels[i].price
         ELSE book.levels[i].price <= book.levels[best].price
      /\ book.levels[best].price = book.levels[i].price => i = best
  BY <1>1, MakerIsBest
<1>4. book.orders[key].side = Opposite(side)
  BY <1>3 DEF InLine, OrdersPlaced
<1>5. i = best /\ k # key => key[2] < k[2]
  <2>1. SUFFICES ASSUME i = best, k # key PROVE key[2] < k[2]
    OBVIOUS
  <2>2. n \in Nat /\ n # 1 /\ n >= 1
    <3>1. book.levels[best].orders \in Seq(Keys)
      BY <1>3, LevelFields
    <3>2. QED BY <1>2, <1>3, <2>1, <3>1
  <2>3. QED BY <1>2, <1>3, <2>1, <2>2 DEF InOrder, InTime
<1> HIDE DEF best
<1>6. /\ Opposite(side) # side
      /\ Opposite(side) = "SELL" <=> side = "BUY"
  BY DEF Opposite, Sides
<1>7. Plain(k, book.orders[k]) # Plain(key, book.orders[key]) => k # key
  OBVIOUS
<1>8. QED BY <1>1, <1>3, <1>4, <1>5, <1>6, <1>7 DEF Plain

\* The client whose book is observed.
LEMMA ObservedClient ==
    ASSUME Clients # {}
    PROVE  /\ Observed \in Clients /\ Observed \in Tickers
           /\ ObservedBook = ticker_order_book_[Observed]
           /\ ObservedBook' = ticker_order_book_'[Observed]
<1>1. Observed \in Clients
  BY DEF Observed
<1>2. QED BY <1>1, ClientsAssumption DEF ObservedBook, BookOf

\* A new engine shows an empty book.
LEMMA PriceTimeInit == ASSUME Clients # {}, Init PROVE PriceTime!Init
<1>1. Live(EmptyBook(Keys)) = {}
  BY DEF EmptyBook, Live
<1>2. Shown(ObservedBook) = {}
  BY <1>1, ObservedClient DEF Init, Shown
<1>3. Coming = Null /\ next_order_id[Observed] = 0
  BY ObservedClient DEF Init, Coming
<1>4. QED BY <1>2, <1>3 DEF PriceTime!Init

\* A NEW request of the observed client is the order that arrives.
LEMMA AddArrives ==
    ASSUME Clients # {}, SortedInv, NEW client \in Clients, NEW ticker \in Tickers,
           NEW side \in Sides, NEW price \in PricesOf(side), NEW qty \in Qtys,
           add(client, ticker, side, price, qty)
    PROVE  PriceTime!Arrive \/ UNCHANGED PriceTime!vars
<1> DEFINE old == ticker_order_book_[client]
           key == <<client, next_order_id[client]>>
           new == [key |-> key, book |-> client, ticker |-> ticker,
                   side |-> side, price |-> price, qty |-> qty,
                   market_order_id |-> generateNewMarketOrderId(old)]
<1>1. /\ client \in Tickers /\ Sound(client) /\ SetBook(client, IdTaken(old))
      /\ taker = Null /\ taker' = new
      /\ next_order_id' = [next_order_id EXCEPT ![client] = @ + 1]
  BY ClientsAssumption DEF add, BookOf
<1>2. next_order_id \in [Clients -> 0 .. MaxOrders]
  BY DEF SortedInv, EngineInv, TypeOK
<1>3. old \in Books /\ IdTaken(old) \in Books /\ IdTaken(old).orders = old.orders
  <2>1. old \in Books /\ InOrder(old)
    BY <1>1, LineFacts
  <2>2. QED BY <2>1, IdTakenKeeps DEF IdTaken, Books
<1>4. /\ ticker_order_book_'[client] = IdTaken(old)
      /\ \A u \in Tickers : u # client => ticker_order_book_'[u] = ticker_order_book_[u]
  BY <1>1, <1>3, OneBook DEF SortedInv, EngineInv
<1>5. Shown(ObservedBook)' = Shown(ObservedBook)
  <2>1. CASE client = Observed
    BY <1>3, <1>4, <2>1, ObservedClient DEF Shown, Live
  <2>2. CASE client # Observed
    BY <1>4, <2>2, ObservedClient DEF Shown
  <2>3. QED BY <2>1, <2>2
<1>6. /\ Coming = Null
      /\ taker' # Null /\ taker'.key = key /\ key[1] = client /\ key[2] = next_order_id[client]
      /\ Plain(key, new) = [id |-> next_order_id[client], side |-> side, price |-> price,
                            qty |-> qty]
  <2>1. new # Null
    <3>1. new \in Takers
      <4>1. key \in Keys /\ price \in Prices /\ qty \in Nat
        BY <1>1, <1>2, OrdersAssumption DEF add, Keys, OrderIds, Prices, PricesOf, Sides
      <4>2. generateNewMarketOrderId(old) \in Nat \ {0}
        BY <1>3 DEF Books, generateNewMarketOrderId
      <4>3. QED BY <1>1, <4>1, <4>2 DEF Takers
    <3>2. QED BY <3>1, NullAssumption
  <2>2. QED BY <1>1, <2>1 DEF Coming, Plain
<1> HIDE DEF key, new, old
<1>7. CASE client = Observed
  <2>1. Coming' = [id |-> next_order_id[Observed], side |-> side, price |-> price, qty |-> qty]
    BY <1>1, <1>6, <1>7 DEF Coming
  <2>2. next_order_id'[Observed] = next_order_id[Observed] + 1
    BY <1>1, <1>2, <1>7
  <2>3. side \in {"BUY", "SELL"} /\ price \in IF side = "BUY" THEN BuyPrices ELSE SellPrices
    BY DEF Sides, PricesOf
  <2>4. QED BY <1>5, <1>6, <2>1, <2>2, <2>3 DEF PriceTime!Arrive
<1>8. CASE client # Observed
  <2>1. Coming' = Null /\ next_order_id'[Observed] = next_order_id[Observed]
    BY <1>1, <1>2, <1>6, <1>8, ObservedClient DEF Coming
  <2>2. QED BY <1>5, <1>6, <2>1 DEF PriceTime!vars
<1>9. QED BY <1>7, <1>8

\* The order of the next fill is one of the other side.
LEMMA MakerOpposite ==
    ASSUME NEW book \in Books, InOrder(book), InLine(book), NEW side \in Sides,
           Maker(book, side) # Null
    PROVE  book.orders[Maker(book, side)].side # side
<1> DEFINE o    == Opposite(side)
           best == Best(book, o)
<1>1. o \in Sides /\ o # side
  BY DEF Opposite, Sides
<1>2. best # Null /\ Maker(book, side) = book.levels[best].orders[1]
  BY DEF Maker
<1> HIDE DEF o
<1>3. best \in Levels(book) /\ book.levels[best].side = o
  <2>1. SideRing(book, o)
    BY <1>1 DEF InLine, Rings, Sides
  <2>2. best \in SidePrices(book, o)
    BY <1>1, <1>2, <2>1, RingMeans
  <2>3. QED BY <2>2 DEF SidePrices
<1>4. 1 \in DOMAIN book.levels[best].orders
  <2>1. book.levels[best].orders \in Seq(Keys) /\ book.levels[best].orders # << >>
    BY <1>3, LevelFields DEF InOrder, Filed
  <2>2. QED BY <2>1
<1>5. QED BY <1>1, <1>2, <1>3, <1>4 DEF InLine, OrdersPlaced

\* The order being matched, when it is one of the observed client.
LEMMA ComingMeans ==
    ASSUME Clients # {}, SortedInv, taker # Null
    PROVE  /\ taker \in Takers /\ taker.book = taker.key[1] /\ taker.book \in Tickers
           /\ taker.key \in Keys /\ taker.side \in Sides /\ taker.qty \in Nat
           /\ taker.price \in Nat /\ ticker_order_book_[taker.book].orders[taker.key] = Null
           /\ taker.book # Observed => Coming = Null
           /\ taker.book = Observed =>
                 /\ Coming # Null /\ Coming = Plain(taker.key, taker)
                 /\ Coming.id = taker.key[2] /\ Coming.side = taker.side
                 /\ Coming.price = taker.price /\ Coming.qty = taker.qty
<1>1. /\ taker \in Takers /\ taker.book = taker.key[1] /\ taker.book \in Tickers
      /\ ticker_order_book_[taker.book].orders[taker.key] = Null
  BY DEF SortedInv, EngineInv, TypeOK, TakerIsLast, Takers
<1>2. /\ taker.key \in Keys /\ taker.side \in Sides /\ taker.qty \in Nat
      /\ taker.price \in Nat /\ taker.price \in Prices /\ taker.key[2] \in OrderIds
  BY <1>1, OrdersAssumption DEF Takers, Prices, Keys
<1>3. Plain(taker.key, taker) \in PlainOrders
  BY <1>2 DEF Plain, PlainOrders
<1>4. Plain(taker.key, taker) # Null
  BY <1>3, NullAssumption
<1>5. QED BY <1>1, <1>2, <1>4 DEF Coming, Plain

\* A fill is a trade with the order that is served first.
LEMMA MatchTrades ==
    ASSUME Clients # {}, SortedInv, ~spoiled[Observed], match
    PROVE  PriceTime!Trade \/ UNCHANGED PriceTime!vars
<1> DEFINE t      == taker.book
           old    == ticker_order_book_[t]
           key    == Maker(old, taker.side)
           order  == old.orders[key]
           fill   == FillQty(taker.qty, order)
           left   == order.qty - fill
           leaves == taker.qty - fill
           book   == Fill(old, key, fill)
<1>1. /\ taker # Null /\ Sound(t) /\ taker.qty > 0 /\ key # Null
      /\ Crosses(taker.side, taker.price, order)
      /\ SetBook(t, book) /\ taker' = [taker EXCEPT !.qty = leaves]
      /\ next_order_id' = next_order_id
  BY DEF match, CanMatch
<1>2. /\ taker \in Takers /\ t = taker.key[1] /\ t \in Tickers /\ taker.side \in Sides
      /\ taker.qty \in Nat
  BY <1>1, ComingMeans
<1>3. /\ old \in Books /\ InOrder(old) /\ (t = Observed => InLine(old)) /\ key \in Live(old)
      /\ key \in Keys /\ key[1] = t /\ order # Null /\ order \in OrderRecords
      /\ \A k \in Live(old) : k[1] = t
  BY <1>1, <1>2, LineFacts, MakerLives, BookFields
<1>4. /\ fill = IF order.qty < taker.qty THEN order.qty ELSE taker.qty
      /\ fill \in Nat /\ fill <= order.qty /\ left \in Nat /\ order.qty \in Nat
      /\ leaves \in Nat
  <2>1. order.qty \in Nat
    BY <1>3 DEF OrderRecords
  <2> HIDE DEF order
  <2>2. QED BY <1>2, <2>1 DEF FillQty
<1>5. Filled(old, book, key, left)
  <2> HIDE DEF fill, old, key
  <2>1. QED BY <1>3, <1>4, FillFills DEF order, left
<1>6. /\ book \in Books /\ \A k \in Keys : k # key => book.orders[k] = old.orders[k]
      /\ IF left = 0 THEN book.orders[key] = Null
         ELSE book.orders[key] = [order EXCEPT !.qty = left]
  BY <1>5 DEF Filled
<1>7. /\ ticker_order_book_'[t] = book
      /\ \A u \in Tickers : u # t => ticker_order_book_'[u] = ticker_order_book_[u]
  BY <1>1, <1>2, <1>6, OneBook DEF SortedInv, EngineInv
<1>8. taker' # Null /\ taker'.key = taker.key /\ taker'.qty = leaves
      /\ taker'.side = taker.side /\ taker'.price = taker.price
  <2>1. taker' \in Takers
    BY <1>1, <1>2, <1>4 DEF Takers
  <2>2. QED BY <1>1, <1>2, <2>1, NullAssumption DEF Takers
<1>9. CASE t # Observed
  <2>1. Coming = Null /\ Coming' = Null
    BY <1>1, <1>2, <1>8, <1>9 DEF Coming
  <2>2. Shown(ObservedBook)' = Shown(ObservedBook)
    BY <1>7, <1>9, ObservedClient DEF Shown
  <2>3. QED BY <1>1, <2>1, <2>2 DEF PriceTime!vars
<1>10. CASE t = Observed
  <2> DEFINE o    == Plain(key, order)
             rest_of == [o EXCEPT !.qty = @ - fill]
  <2>1. ObservedBook = old /\ ObservedBook' = book
    BY <1>7, <1>10, ObservedClient
  <2>2. /\ Coming # Null /\ Coming = Plain(taker.key, taker) /\ Coming.side = taker.side
        /\ Coming.price = taker.price /\ Coming.qty = taker.qty
    BY <1>1, <1>10, ComingMeans
  <2>3. Coming' = [Coming EXCEPT !.qty = @ - fill]
    <3>1. Coming' = Plain(taker.key, taker')
      BY <1>2, <1>8, <1>10 DEF Coming
    <3> HIDE DEF fill
    <3>2. QED BY <1>8, <2>2, <3>1 DEF Plain
  <2>4. /\ o \in Shown(ObservedBook) /\ o.qty = order.qty /\ o.price = order.price
        /\ o.side = order.side /\ o.id = key[2]
        /\ rest_of.qty = left /\ rest_of = Plain(key, [order EXCEPT !.qty = left])
    <3>1. o \in Shown(ObservedBook)
      BY <1>3, <2>1 DEF Shown
    <3>2. /\ [order EXCEPT !.qty = left].qty = left
          /\ [order EXCEPT !.qty = left].price = order.price
          /\ [order EXCEPT !.qty = left].side = order.side
      BY <1>3 DEF OrderRecords
    <3> HIDE DEF fill, order, key, left
    <3>3. QED BY <3>1, <3>2 DEF Plain, left
  <2>5. Shown(ObservedBook)' = (Shown(ObservedBook) \ {o})
                                   \cup (IF rest_of.qty > 0 THEN {rest_of} ELSE {})
    <3>1. ObservedBook' \in Books
      BY <1>6, <2>1
    <3>2. /\ left # 0 => book.orders[key] # Null
      <4>1. [order EXCEPT !.qty = left] \in OrderRecords
        BY <1>3, <1>4 DEF OrderRecords
      <4> HIDE DEF order, left, book, key
      <4>2. QED BY <1>6, <4>1, NullAssumption
    <3>3. Shown(book) = (Shown(old) \ {o})
                            \cup (IF left # 0 THEN {Plain(key, book.orders[key])} ELSE {})
      <4> HIDE DEF old, book, key
      <4>1. QED BY <1>3, <1>6, <3>2, ShownChange DEF order
    <3>4. Shown(ObservedBook)' = Shown(book)
      BY <2>1
    <3>5. left # 0 <=> left > 0
      BY <1>4
    <3> HIDE DEF left, o, rest_of, book
    <3>6. QED BY <1>6, <2>1, <2>4, <3>3, <3>4, <3>5
  <2>6. ASSUME NEW k \in Live(old), old.orders[k].side # taker.side
        PROVE  Plain(k, old.orders[k]) # o => PriceTime!Before(o, Plain(k, old.orders[k]))
    <3>1. key = Maker(old, taker.side) /\ order = old.orders[key]
      OBVIOUS
    <3> HIDE DEF old, key, order
    <3>2. QED BY <1>1, <1>2, <1>3, <1>10, <2>6, <3>1, MakerServedFirst DEF PriceTime!Before
  <2>7. order.side # taker.side
    <3>1. key = Maker(old, taker.side) /\ order = old.orders[key]
      OBVIOUS
    <3> HIDE DEF old, key, order
    <3>2. QED BY <1>1, <1>2, <1>3, <1>10, <3>1, MakerOpposite
  <2>8. o \in PriceTime!Tradable
    <3> HIDE DEF o
    <3>1. IF taker.side = "BUY" THEN order.price <= taker.price ELSE order.price >= taker.price
      <4>1. order.price \in Nat /\ taker.price \in Nat
        BY <1>1, <1>3, ComingMeans, OrdersAssumption DEF OrderRecords, Prices
      <4> HIDE DEF order
      <4>2. QED BY <1>1, <4>1 DEF Crosses
    <3>2. QED BY <2>2, <2>4, <2>7, <3>1 DEF PriceTime!Tradable
  <2>9. \A p \in PriceTime!Tradable \ {o} : PriceTime!Before(o, p)
    <3>1. SUFFICES ASSUME NEW p \in PriceTime!Tradable, p # o PROVE PriceTime!Before(o, p)
      OBVIOUS
    <3>2. PICK k \in Live(old) : p = Plain(k, old.orders[k])
      BY <2>1, <3>1 DEF PriceTime!Tradable, Shown
    <3>3. p.side = old.orders[k].side /\ p.side # taker.side
      BY <2>2, <3>1, <3>2 DEF PriceTime!Tradable, Plain
    <3> HIDE DEF o
    <3>4. QED BY <2>6, <3>1, <3>2, <3>3
  <2> HIDE DEF o
  <2>10. fill = IF o.qty < Coming.qty THEN o.qty ELSE Coming.qty
    BY <1>4, <2>2, <2>4
  <2>11. Coming.qty > 0 /\ UNCHANGED next_order_id[Observed]
    BY <1>1, <2>2
  <2> HIDE DEF fill
  <2>12. QED BY <2>2, <2>3, <2>5, <2>8, <2>9, <2>10, <2>11 DEF PriceTime!Trade
<1>11. QED BY <1>9, <1>10

\* What is left of an order settles when no order that rests would trade.
LEMMA RestSettles ==
    ASSUME Clients # {}, SortedInv, ~spoiled[Observed], rest
    PROVE  PriceTime!Settle \/ UNCHANGED PriceTime!vars
<1> DEFINE t     == taker.book
           old   == ticker_order_book_[t]
           mine  == taker.key
           order == [ticker |-> taker.ticker, side |-> taker.side, price |-> taker.price,
                     qty |-> taker.qty, priority |-> getNextPriority(old, taker.price),
                     market_order_id |-> taker.market_order_id]
           book  == addOrder(old, mine, order)
<1>1. /\ taker # Null /\ Sound(t) /\ ~CanMatch /\ taker' = Null
      /\ taker.qty = 0 => ticker_order_book_' = ticker_order_book_
      /\ next_order_id' = next_order_id
  BY DEF rest
<1>2. /\ taker \in Takers /\ t = mine[1] /\ t \in Tickers /\ mine \in Keys
      /\ taker.side \in Sides /\ taker.qty \in Nat /\ taker.price \in Nat
      /\ old.orders[mine] = Null
  BY <1>1, ComingMeans
<1>3. /\ old \in Books /\ InOrder(old) /\ (t = Observed => InLine(old))
      /\ \A k \in Live(old) : k[1] = t
  BY <1>1, <1>2, LineFacts
<1>4. ASSUME taker.qty # 0
      PROVE  /\ book \in Books /\ book.orders[mine] = order /\ order # Null
             /\ \A k \in Keys : k # mine => book.orders[k] = old.orders[k]
             /\ ticker_order_book_'[t] = book
             /\ \A u \in Tickers : u # t => ticker_order_book_'[u] = ticker_order_book_[u]
  <2>1. SetBook(t, book) /\ Added(old, book, mine, order)
    BY <1>4, RestAdds DEF SortedInv
  <2>2. DOMAIN old.orders = Keys
    BY <1>3, BookFields
  <2>3. order # Null
    <3>1. getNextPriority(old, taker.price) \in Nat \ {0}
      BY <1>2, <1>3, NextPriorityIsNext DEF InOrder, Takers
    <3>2. order \in OrderRecords
      BY <1>2, <3>1 DEF OrderRecords, Takers
    <3>3. QED BY <3>2, NullAssumption
  <2> HIDE DEF order, old, mine, t, book
  <2>4. book \in Books /\ book.orders = [old.orders EXCEPT ![mine] = order]
    BY <2>1 DEF Added
  <2>5. /\ ticker_order_book_'[t] = book
        /\ \A u \in Tickers : u # t => ticker_order_book_'[u] = ticker_order_book_[u]
    BY <1>2, <2>1, <2>4, OneBook DEF SortedInv, EngineInv
  <2>6. QED BY <1>2, <2>2, <2>3, <2>4, <2>5
<1>5. Plain(mine, order) = Plain(mine, taker)
  BY DEF Plain
<1> HIDE DEF order, book
<1>6. CASE t # Observed
  <2>1. Coming = Null /\ Coming' = Null
    BY <1>1, <1>2, <1>6 DEF Coming
  <2>2. ticker_order_book_'[Observed] = ticker_order_book_[Observed]
    BY <1>1, <1>4, <1>6, ObservedClient
  <2>3. Shown(ObservedBook)' = Shown(ObservedBook)
    BY <2>2, ObservedClient DEF Shown
  <2>4. QED BY <1>1, <2>1, <2>3 DEF PriceTime!vars
<1>7. CASE t = Observed
  <2>1. ObservedBook = old /\ ObservedBook' = ticker_order_book_'[t]
    BY <1>7, ObservedClient
  <2>2. /\ Coming # Null /\ Coming = Plain(mine, taker) /\ Coming.side = taker.side
        /\ Coming.price = taker.price /\ Coming.qty = taker.qty /\ Coming' = Null
    BY <1>1, <1>7, ComingMeans DEF Coming
  <2>3. UNCHANGED next_order_id[Observed]
    BY <1>1
  <2>4. CASE taker.qty = 0
    <3>1. Shown(ObservedBook)' = Shown(ObservedBook)
      BY <1>1, <2>1, <2>4 DEF Shown
    <3>2. QED BY <2>2, <2>3, <2>4, <3>1 DEF PriceTime!Settle
  <2>5. CASE taker.qty # 0
    <3>1. Shown(ObservedBook)' = Shown(ObservedBook) \cup {Coming}
      <4>1. Shown(book) = Shown(old) \cup {Plain(mine, order)}
        <5> HIDE DEF old, mine, t
        <5>1. QED BY <1>2, <1>3, <1>4, <2>5, ShownChange DEF old, mine, t
      <4>2. Shown(ObservedBook)' = Shown(book)
        BY <1>4, <2>1, <2>5
      <4>3. QED BY <1>5, <2>1, <2>2, <4>1, <4>2
    <3>2. PriceTime!Tradable = {}
      <4>1. SUFFICES ASSUME NEW p \in PriceTime!Tradable PROVE FALSE
        OBVIOUS
      <4>2. PICK k \in Live(old) : p = Plain(k, old.orders[k])
        BY <2>1, <4>1 DEF PriceTime!Tradable, Shown
      <4>3. /\ old.orders[k].side # taker.side
            /\ IF taker.side = "BUY" THEN old.orders[k].price <= taker.price
               ELSE old.orders[k].price >= taker.price
        BY <2>2, <4>1, <4>2 DEF PriceTime!Tradable, Plain
      <4>4. Apart(old, taker.side, taker.price)
        BY <1>1, <1>2, <1>3, <1>7, <2>5, RestsApart DEF CanMatch
      <4> DEFINE i == priceToIndex(old.orders[k].price)
      <4>5. /\ i \in Levels(old) /\ old.levels[i].price = old.orders[k].price
            /\ old.levels[i].side = old.orders[k].side
            /\ old.orders[k].price \in Nat
        <5>1. old \in Books /\ InOrder(old) /\ InLine(old)
          BY <1>3, <1>7
        <5> HIDE DEF old
        <5>2. /\ i \in Levels(old) /\ old.levels[i].price = old.orders[k].price
              /\ old.levels[i].side = old.orders[k].side
              /\ old.orders[k].price \in Prices
          BY <5>1, LevelOfOrder
        <5>3. Prices \subseteq Nat
          BY OrdersAssumption DEF Prices
        <5>4. QED BY <5>2, <5>3
      <4> HIDE DEF i, old
      <4>6. IF taker.side = "BUY" THEN taker.price < old.orders[k].price
            ELSE old.orders[k].price < taker.price
        BY <4>3, <4>4, <4>5 DEF Apart
      <4>7. QED BY <1>2, <4>3, <4>5, <4>6
    <3>3. Coming.qty > 0
      BY <1>2, <2>2, <2>5
    <3>4. QED BY <2>2, <2>3, <3>1, <3>2, <3>3 DEF PriceTime!Settle
  <2>6. QED BY <2>4, <2>5
<1>8. QED BY <1>6, <1>7

\* CANCEL of an order that rests takes it out, and nothing else.
LEMMA CancelCancels ==
    ASSUME Clients # {}, SortedInv, NEW client \in Clients, NEW order_id \in OrderIds,
           cancel(client, order_id)
    PROVE  PriceTime!Cancel \/ UNCHANGED PriceTime!vars
<1> DEFINE key  == <<client, order_id>>
           old  == ticker_order_book_[client]
           book == removeOrder(old, key)
<1>1. /\ client \in Tickers /\ key \in Keys /\ key[1] = client /\ Sound(client)
      /\ taker = Null /\ taker' = taker /\ next_order_id' = next_order_id
      /\ IF old.orders[key] = Null THEN ticker_order_book_' = ticker_order_book_
         ELSE SetBook(client, book)
  BY ClientsAssumption DEF cancel, BookOf, Keys
<1>2. Coming = Null /\ Coming' = Null
  BY <1>1 DEF Coming
<1>3. CASE old.orders[key] = Null
  BY <1>1, <1>2, <1>3 DEF PriceTime!vars, Shown, ObservedBook
<1>4. CASE old.orders[key] # Null
  <2>1. /\ old \in Books /\ InOrder(old) /\ key \in Live(old)
        /\ \A k \in Live(old) : k[1] = client
    BY <1>1, <1>4, LineFacts
  <2>2. book \in Books /\ book.orders = [old.orders EXCEPT ![key] = Null]
    <3> HIDE DEF key, old
    <3>1. QED BY <2>1, RemoveOrderRemoves DEF Removed
  <2>3. book.orders[key] = Null /\ \A k \in Keys : k # key => book.orders[k] = old.orders[k]
    BY <1>1, <2>1, <2>2, BookFields
  <2>4. /\ ticker_order_book_'[client] = book
        /\ \A u \in Tickers : u # client => ticker_order_book_'[u] = ticker_order_book_[u]
    <3> HIDE DEF book
    <3>1. QED BY <1>1, <1>4, <2>2, OneBook DEF SortedInv, EngineInv
  <2>5. CASE client # Observed
    <3>1. Shown(ObservedBook)' = Shown(ObservedBook)
      BY <2>4, <2>5, ObservedClient DEF Shown
    <3>2. QED BY <1>1, <1>2, <3>1 DEF PriceTime!vars
  <2>6. CASE client = Observed
    <3>1. Shown(book) = Shown(old) \ {Plain(key, old.orders[key])}
      <4>1. key \in Keys /\ key[1] = client /\ book \in Books
        BY <1>1, <2>2
      <4> HIDE DEF old, key, book
      <4>2. QED BY <1>4, <2>1, <2>3, <4>1, ShownChange
    <3>2. ObservedBook = old /\ ObservedBook' = book
      BY <2>4, <2>6, ObservedClient
    <3>3. Plain(key, old.orders[key]) \in Shown(old)
      BY <2>1 DEF Shown
    <3> HIDE DEF old, key, book
    <3>4. Shown(ObservedBook)' = Shown(ObservedBook) \ {Plain(key, old.orders[key])}
      BY <3>1, <3>2
    <3>5. QED BY <1>1, <1>2, <3>2, <3>3, <3>4 DEF PriceTime!Cancel
  <2>7. QED BY <2>5, <2>6
<1>5. QED BY <1>3, <1>4

\* The linked lists, hash maps and loops of the engine implement price-time
\* priority: as long as none of the levels of a book was misplaced, every step is
\* one that PriceTimeBook allows, or none it sees.
THEOREM EngineImplementsPriceTime ==
    ASSUME Clients # {}
    PROVE  Spec => ImplementsPriceTime
<1> DEFINE Allowed == PriceTime!Next \/ spoiled[BookOf(Observed)]
<1>1. SortedInv /\ [Next]_vars => [Allowed]_PriceTime!vars
  <2>1. SUFFICES ASSUME SortedInv, [Next]_vars, ~spoiled[Observed]
                 PROVE  [PriceTime!Next]_PriceTime!vars
    BY DEF BookOf
  <2>2. CASE processClientRequest
    BY <2>1, <2>2, AddArrives, CancelCancels DEF processClientRequest, PriceTime!Next
  <2>3. CASE match
    BY <2>1, <2>3, MatchTrades DEF PriceTime!Next
  <2>4. CASE rest
    BY <2>1, <2>4, RestSettles DEF PriceTime!Next
  <2>5. CASE UNCHANGED vars
    BY <2>5 DEF vars, PriceTime!vars, Shown, ObservedBook, Coming, Plain
  <2>6. QED BY <2>1, <2>2, <2>3, <2>4, <2>5 DEF Next
<1>2. QED
  BY PriceTimeInit, <1>1, BooksStayInLine, PTL DEF Spec, ImplementsPriceTime

-----------------------------------------------------------------------------
(* The copy of a book.                                                     *)

\* What a client is to make of a list of orders, an order, a level and a book.
\* It knows the order n of client 0 by the number n + 1.
Ids(list) == [n \in DOMAIN list |-> list[n][2] + 1]

OrderCopy(order) ==
    [side |-> order.side, price |-> order.price, qty |-> order.qty, priority |-> order.priority]

LevelCopy(level) ==
    [side |-> level.side, price |-> level.price, orders |-> Ids(level.orders),
     prev |-> level.prev, next |-> level.next]

OrdersCopy(orders) ==
    [id \in MarketIds |-> IF orders[<<0, id - 1>>] = Null THEN Null
                          ELSE OrderCopy(orders[<<0, id - 1>>])]

LevelsCopy(levels) ==
    [i \in LevelIndices |-> IF levels[i] = Null THEN Null ELSE LevelCopy(levels[i])]

CopyOf(book) ==
    [orders |-> OrdersCopy(book.orders), levels |-> LevelsCopy(book.levels),
     bids |-> book.bids, asks |-> book.asks, next_market_order_id_ |-> 1,
     fault |-> book.fault]

\* The numbers of a list.
LEMMA IdsMeans ==
    ASSUME NEW list \in Seq(Keys)
    PROVE  /\ Ids(list) \in Seq(Nat) /\ Len(Ids(list)) = Len(list)
           /\ DOMAIN Ids(list) = DOMAIN list
           /\ \A n \in DOMAIN list : Ids(list)[n] = list[n][2] + 1
           /\ Ids(list) = << >> <=> list = << >>
           /\ \A k \in Keys : /\ Ids(Append(list, k)) = Append(Ids(list), k[2] + 1)
                              /\ Ids(<<k>>) = <<k[2] + 1>>
<1>1. \A n \in DOMAIN list : list[n] \in Keys /\ list[n][2] + 1 \in Nat
  BY KeyParts
<1>2. /\ Ids(list) \in Seq(Nat) /\ Len(Ids(list)) = Len(list)
      /\ DOMAIN Ids(list) = DOMAIN list
      /\ \A n \in DOMAIN list : Ids(list)[n] = list[n][2] + 1
  BY <1>1 DEF Ids
<1>3. Ids(list) = << >> <=> list = << >>
  BY <1>2
<1>4. ASSUME NEW k \in Keys
      PROVE  /\ Ids(Append(list, k)) = Append(Ids(list), k[2] + 1)
             /\ Ids(<<k>>) = <<k[2] + 1>>
  <2>1. k[2] + 1 \in Nat
    BY KeyParts
  <2>2. Ids(<<k>>) = <<k[2] + 1>>
    BY <2>1 DEF Ids
  <2> DEFINE more == Append(list, k)
             ids  == Append(Ids(list), k[2] + 1)
  <2>3. more \in Seq(Keys) /\ Len(more) = Len(list) + 1 /\ Len(list) \in Nat
        /\ \A n \in 1 .. Len(list) + 1 : more[n] = IF n = Len(list) + 1 THEN k ELSE list[n]
    OBVIOUS
  <2>4. ids \in Seq(Nat) /\ Len(ids) = Len(list) + 1
        /\ \A n \in 1 .. Len(list) + 1 :
              ids[n] = IF n = Len(list) + 1 THEN k[2] + 1 ELSE Ids(list)[n]
    BY <1>2, <2>1
  <2> HIDE DEF more, ids
  <2>5. Ids(more) = [n \in 1 .. Len(list) + 1 |-> more[n][2] + 1]
    BY <2>3 DEF Ids
  <2>6. ASSUME NEW n \in 1 .. Len(list) + 1 PROVE ids[n] = more[n][2] + 1
    <3>1. n # Len(list) + 1 => n \in DOMAIN list
      BY <2>3
    <3>2. QED BY <1>2, <2>3, <2>4, <3>1
  <2>7. ids = [n \in 1 .. Len(list) + 1 |-> ids[n]]
    BY <2>4
  <2>8. Ids(more) = ids
    BY <2>5, <2>6, <2>7
  <2>9. QED BY <2>2, <2>8 DEF more, ids
<1>5. QED BY <1>2, <1>3, <1>4

\* The fields of a copy.
LEMMA CopyFields ==
    ASSUME NEW book
    PROVE  /\ CopyOf(book).orders = OrdersCopy(book.orders)
           /\ CopyOf(book).levels = LevelsCopy(book.levels)
           /\ CopyOf(book).bids = book.bids /\ CopyOf(book).asks = book.asks
           /\ CopyOf(book).fault = book.fault
           /\ \A s : Best(CopyOf(book), s) = Best(book, s)
BY DEF CopyOf, Best

\* A copy of a book that differs in some fields.
LEMMA CopyChanges ==
    ASSUME NEW book \in Books, NEW side \in Sides
    PROVE  /\ \A L : CopyOf([book EXCEPT !.levels = L])
                        = [CopyOf(book) EXCEPT !.levels = LevelsCopy(L)]
           /\ \A o : CopyOf([book EXCEPT !.orders = o])
                        = [CopyOf(book) EXCEPT !.orders = OrdersCopy(o)]
           /\ \A f : CopyOf([book EXCEPT !.fault = f]) = [CopyOf(book) EXCEPT !.fault = f]
           /\ \A h : CopyOf(SetBest(book, side, h)) = SetBest(CopyOf(book), side, h)
<1>1. ASSUME NEW x
      PROVE  /\ CopyOf([book EXCEPT !.levels = x]) = [CopyOf(book) EXCEPT !.levels = LevelsCopy(x)]
             /\ CopyOf([book EXCEPT !.orders = x]) = [CopyOf(book) EXCEPT !.orders = OrdersCopy(x)]
             /\ CopyOf([book EXCEPT !.fault = x]) = [CopyOf(book) EXCEPT !.fault = x]
             /\ CopyOf([book EXCEPT !.bids = x]) = [CopyOf(book) EXCEPT !.bids = x]
             /\ CopyOf([book EXCEPT !.asks = x]) = [CopyOf(book) EXCEPT !.asks = x]
  BY DEF CopyOf, Books
<1>2. \A h : CopyOf(SetBest(book, side, h)) = SetBest(CopyOf(book), side, h)
  <2>1. CASE side = "BUY"
    BY <1>1, <2>1 DEF SetBest
  <2>2. CASE side # "BUY"
    BY <1>1, <2>2 DEF SetBest
  <2>3. QED BY <2>1, <2>2
<1>3. QED BY <1>1, <1>2

-----------------------------------------------------------------------------
(* Copies of levels.                                                       *)

\* The copy of a map of levels.
LEMMA LevelsCopied ==
    ASSUME NEW levels, NEW E, LevelMap(levels, E)
    PROVE  /\ \A i \in E : /\ i \in LevelIndices /\ levels[i] # Null
                           /\ LevelsCopy(levels)[i] = LevelCopy(levels[i])
                           /\ LevelsCopy(levels)[i] # Null
                           /\ LevelsCopy(levels)[i].next = levels[i].next
                           /\ LevelsCopy(levels)[i].prev = levels[i].prev
                           /\ LevelsCopy(levels)[i].side = levels[i].side
                           /\ LevelsCopy(levels)[i].price = levels[i].price
                           /\ LevelsCopy(levels)[i].orders = Ids(levels[i].orders)
           /\ \A i \in LevelIndices : i \notin E => LevelsCopy(levels)[i] = Null
           /\ DOMAIN LevelsCopy(levels) = LevelIndices
<1>1. ASSUME NEW i \in E
      PROVE  i \in LevelIndices /\ levels[i] # Null /\ LevelCopy(levels[i]) # Null
  <2>1. i \in LevelIndices /\ levels[i] \in LevelRecords
    BY DEF LevelMap
  <2>2. Ids(levels[i].orders) \in Seq(Nat)
    BY <2>1, IdsMeans DEF LevelRecords
  <2>3. LevelCopy(levels[i]) \in ClientLevelRecords
    BY <2>1, <2>2 DEF LevelRecords, LevelCopy, ClientLevelRecords
  <2>4. QED BY <2>1, <2>3, NullAssumption, ClientNullAssumption
<1>2. \A i \in E : LevelsCopy(levels)[i] = LevelCopy(levels[i])
  BY <1>1 DEF LevelsCopy
<1>3. /\ \A i \in LevelIndices : i \notin E => LevelsCopy(levels)[i] = Null
      /\ DOMAIN LevelsCopy(levels) = LevelIndices
  BY DEF LevelsCopy, LevelMap
<1>4. QED BY <1>1, <1>2, <1>3 DEF LevelCopy

\* Half of Link().
NextTied(levels, from, to) == [levels EXCEPT ![from].next = to]

\* A level that is linked to the next has a copy that is.
LEMMA NextCopied ==
    ASSUME NEW levels, NEW E, LevelMap(levels, E), NEW from \in E, NEW to \in LevelIndices
    PROVE  LevelsCopy(NextTied(levels, from, to)) = NextTied(LevelsCopy(levels), from, to)
<1> DEFINE front == [levels[from] EXCEPT !.next = to]
           copy  == LevelsCopy(levels)
<1>1. /\ from \in LevelIndices /\ levels[from] \in LevelRecords /\ DOMAIN levels = LevelIndices
      /\ levels[from] # Null
  BY NullAssumption DEF LevelMap
<1>2. front \in LevelRecords /\ front # Null
  BY <1>1, NullAssumption DEF LevelRecords
<1>3. LevelCopy(front) = [LevelCopy(levels[from]) EXCEPT !.next = to]
  BY <1>1 DEF LevelCopy, LevelRecords
<1>4. copy[from] = LevelCopy(levels[from])
  BY <1>1 DEF LevelsCopy
<1>5. LevelsCopy([levels EXCEPT ![from] = front]) = [copy EXCEPT ![from] = LevelCopy(front)]
  <2> HIDE DEF front
  <2>1. QED BY <1>1, <1>2 DEF LevelsCopy
<1>6. QED BY <1>3, <1>4, <1>5 DEF NextTied

\* Levels that are tied have copies that are tied.
LEMMA LinkCopied ==
    ASSUME NEW levels, NEW E, LevelMap(levels, E), NEW from \in E, NEW to \in E
    PROVE  LevelsCopy(Link(levels, from, to)) = Link(LevelsCopy(levels), from, to)
<1> DEFINE one   == [levels EXCEPT ![from].next = to]
           two   == [one EXCEPT ![to].prev = from]
           front == [levels[from] EXCEPT !.next = to]
           back  == [one[to] EXCEPT !.prev = from]
           copy  == LevelsCopy(levels)
           one2  == [copy EXCEPT ![from].next = to]
<1>1. /\ from \in LevelIndices /\ levels[from] \in LevelRecords
      /\ to \in LevelIndices /\ levels[to] \in LevelRecords /\ DOMAIN levels = LevelIndices
  BY DEF LevelMap
<1>2. front \in LevelRecords /\ one = [levels EXCEPT ![from] = front]
  BY <1>1 DEF LevelRecords
<1>3. one[to] \in LevelRecords /\ DOMAIN one = LevelIndices
  BY <1>1, <1>2
<1>4. back \in LevelRecords /\ two = [one EXCEPT ![to] = back]
  BY <1>1, <1>3 DEF LevelRecords
<1>5. front # Null /\ back # Null /\ levels[from] # Null /\ one[to] # Null
  BY <1>1, <1>2, <1>3, <1>4, NullAssumption
<1>6. LevelCopy(back) = [LevelCopy(one[to]) EXCEPT !.prev = from]
  BY <1>3 DEF LevelCopy, LevelRecords
<1>7. LevelsCopy(one) = one2
  <2>1. LevelsCopy(NextTied(levels, from, to)) = NextTied(LevelsCopy(levels), from, to)
    BY <1>1, NextCopied
  <2>2. QED BY <2>1 DEF NextTied
<1>8. LevelsCopy(one)[to] = LevelCopy(one[to])
  BY <1>1, <1>5 DEF LevelsCopy
<1>9. LevelsCopy(two) = [LevelsCopy(one) EXCEPT ![to].prev = from]
  <2>1. LevelsCopy(two) = [LevelsCopy(one) EXCEPT ![to] = LevelCopy(back)]
    <3> HIDE DEF one, back
    <3>1. QED BY <1>1, <1>3, <1>4, <1>5 DEF LevelsCopy
  <2>2. QED BY <1>6, <1>8, <2>1
<1>10. QED BY <1>7, <1>9 DEF Link

\* So do the two ways to tie a level in.
LEMMA InsertCopied ==
    ASSUME NEW levels, NEW E, LevelMap(levels, E), LinksIn(levels, E), NEW at \in E, NEW new \in E
    PROVE  /\ LevelsCopy(InsertLast(levels, at, new)) = InsertLast(LevelsCopy(levels), at, new)
           /\ LevelsCopy(InsertBefore(levels, at, new)) = InsertBefore(LevelsCopy(levels), at, new)
<1> DEFINE prev == levels[at].prev
           one  == Link(levels, prev, new)
<1>1. prev \in E /\ levels[prev].next \in E
  BY DEF LinksIn
<1>2. LevelMap(one, E) /\ LevelsCopy(one) = Link(LevelsCopy(levels), prev, new)
  BY <1>1, LinkKeeps, LinkCopied
<1>3. \A to \in E : LevelsCopy(Link(one, new, to)) = Link(LevelsCopy(one), new, to)
  <2> HIDE DEF one
  <2>1. QED BY <1>2, LinkCopied
<1>4. LevelsCopy(levels)[at].prev = prev /\ LevelsCopy(levels)[prev].next = levels[prev].next
  BY <1>1, LevelsCopied
<1>5. QED BY <1>1, <1>2, <1>3, <1>4 DEF InsertLast, InsertBefore

\* The levels of a book and of its copy.
LEMMA BookLevels ==
    ASSUME NEW book \in Books
    PROVE  /\ LevelMap(book.levels, Levels(book))
           /\ ~Dangles(book) => LinksIn(book.levels, Levels(book))
           /\ Levels(CopyOf(book)) = Levels(book)
           /\ \A i \in Levels(book) :
                 /\ CopyOf(book).levels[i].next = book.levels[i].next
                 /\ CopyOf(book).levels[i].prev = book.levels[i].prev
                 /\ CopyOf(book).levels[i].side = book.levels[i].side
                 /\ CopyOf(book).levels[i].price = book.levels[i].price
                 /\ CopyOf(book).levels[i].orders = Ids(book.levels[i].orders)
<1>1. LevelMap(book.levels, Levels(book))
  BY BookFields DEF LevelMap, Levels
<1>2. ~Dangles(book) => LinksIn(book.levels, Levels(book))
  BY TiedMeans DEF LinksIn
<1>3. Levels(CopyOf(book)) = Levels(book)
  <2>1. \A i \in LevelIndices : CopyOf(book).levels[i] # Null <=> book.levels[i] # Null
    <3>1. \A i \in LevelIndices : i \in Levels(book) <=> book.levels[i] # Null
      BY DEF Levels
    <3>2. QED BY <1>1, <3>1, LevelsCopied, CopyFields
  <2>2. QED BY <2>1 DEF Levels
<1>4. QED BY <1>1, <1>2, <1>3, LevelsCopied, CopyFields

\* A pointer of the copy dangles when it does in the book.
LEMMA DanglesCopied ==
    ASSUME NEW book \in Books
    PROVE  Dangles(CopyOf(book)) <=> Dangles(book)
<1>1. \A i \in Levels(book) : /\ book.levels[i].next \in LevelIndices
                              /\ book.levels[i].prev \in LevelIndices
  BY BookFields DEF LevelRecords
<1>2. /\ book.bids \in LevelIndices \cup {Null} /\ book.asks \in LevelIndices \cup {Null}
      /\ CopyOf(book).bids = book.bids /\ CopyOf(book).asks = book.asks
  BY BookFields, CopyFields
<1>3. \A i \in LevelIndices : CopyOf(book).levels[i] = Null <=> book.levels[i] = Null
  BY BookLevels, BookFields DEF Levels
<1> DEFINE targets(b) == {b.bids, b.asks} \cup {b.levels[i].next : i \in Levels(b)}
                             \cup {b.levels[i].prev : i \in Levels(b)}
<1>4. \A t : t \in targets(CopyOf(book)) <=> t \in targets(book)
  BY <1>2, BookLevels
<1>5. \A t \in targets(book) : t \in LevelIndices \cup {Null}
  BY <1>1, <1>2
<1>6. \A b : Dangles(b) <=> \E t \in targets(b) : t # Null /\ b.levels[t] = Null
  BY DEF Dangles
<1> HIDE DEF targets
<1>7. QED BY <1>3, <1>4, <1>5, <1>6

\* A walk along the copy is one along the book.
LEMMA HopCopied ==
    ASSUME NEW book \in Books, ~Dangles(book), NEW best \in Levels(book)
    PROVE  Hop(CopyOf(book), best) = Hop(book, best)
<1> DEFINE N    == MaxPriceLevels
           copy == CopyOf(book)
           hop  == Hop(book, best)
           walk == Hop(copy, best)
           by(b, f) == [n \in 0 .. N |-> IF n = 0 THEN best ELSE b.levels[f[n - 1]].next]
<1>0. N \in Nat
  BY LevelsAssumption
<1>1. hop = by(book, hop) /\ hop \in [0 .. N -> Levels(book)]
  <2>1. hop = by(book, hop) /\ \A n \in 0 .. N : hop[n] \in Levels(book)
    BY HopSteps, HopStays
  <2> HIDE DEF hop
  <2>2. QED BY <2>1
<1>2. by(copy, hop) = by(book, hop)
  <2>1. \A n \in 0 .. N : n # 0 => hop[n - 1] \in Levels(book)
    BY <1>0, <1>1
  <2> HIDE DEF hop
  <2>2. QED BY <2>1, BookLevels
<1>3. walk = by(copy, walk)
  <2>1. walk = CHOOSE f : f = by(copy, f)
    BY DEF Hop
  <2> HIDE DEF walk, hop, by
  <2>2. \E f : f = by(copy, f)
    BY <1>1, <1>2
  <2>3. QED BY <2>1, <2>2
<1> HIDE DEF hop, walk
<1> DEFINE Bad == {n \in 0 .. N : walk[n] # hop[n]}
<1>4. Bad = {}
  <2>1. SUFFICES ASSUME Bad # {} PROVE FALSE
    OBVIOUS
  <2>2. PICK x \in Bad : \A y \in Bad : x <= y
    <3>1. Bad \in SUBSET Nat
      BY <1>0
    <3> HIDE DEF Bad
    <3>2. QED BY <2>1, <3>1, Least
  <2>3. hop[0] = best /\ walk[0] = best
    BY <1>0, <1>1, <1>3
  <2>4. x \in 0 .. N /\ x # 0 /\ x - 1 \in 0 .. N /\ x - 1 \notin Bad
    BY <1>0, <2>2, <2>3
  <2>5. walk[x - 1] = hop[x - 1]
    BY <2>4
  <2>6. walk[x] = copy.levels[hop[x - 1]].next /\ hop[x] = book.levels[hop[x - 1]].next
    BY <1>1, <1>3, <2>4, <2>5
  <2>7. hop[x - 1] \in Levels(book)
    BY <1>1, <2>4
  <2>8. QED BY <2>2, <2>6, <2>7, BookLevels
<1>5. QED BY <1>1, <1>3, <1>4 DEF hop, walk

\* So that a search stops in both of them at the same place.
LEMMA StopsCopied ==
    ASSUME NEW book \in Books, ~Dangles(book), NEW best \in Levels(book), NEW side, NEW price
    PROVE  Stops(CopyOf(book), side, price, best) = Stops(book, side, price, best)
<1> DEFINE hop == Hop(book, best)
<1>1. \A n \in 1 .. MaxPriceLevels : hop[n] \in Levels(book)
  BY HopStays, LevelsAssumption
<1>2. \A i \in Levels(book) :
         GoesAfter(side, price, CopyOf(book).levels[i]) <=> GoesAfter(side, price, book.levels[i])
  BY BookLevels DEF GoesAfter
<1>3. Hop(CopyOf(book), best) = hop
  BY HopCopied
<1> HIDE DEF hop
<1>4. QED BY <1>1, <1>2, <1>3 DEF Stops, hop

\* A level is tied into the copy where it is tied into the book.
LEMMA InsertLevelCopied ==
    ASSUME NEW book \in Books, ~Dangles(book),
           NEW side \in Sides, NEW price \in Prices, NEW list \in Seq(Keys), NEW past \in BOOLEAN,
           priceToIndex(price) \in LevelIndices, priceToIndex(price) \notin Levels(book)
    PROVE  LET level == [side |-> side, price |-> price, orders |-> list,
                         prev |-> Null, next |-> Null]
           IN  InsertLevel(CopyOf(book), LevelCopy(level), past)
                  = CopyOf(InsertLevel(book, level, past))
<1> DEFINE level  == [side |-> side, price |-> price, orders |-> list,
                      prev |-> Null, next |-> Null]
           copy   == CopyOf(book)
           other  == LevelCopy(level)
           new    == priceToIndex(price)
           E      == Levels(book) \cup {new}
           best   == Best(book, side)
           fresh  == [level EXCEPT !.prev = new, !.next = new]
           levels == [book.levels EXCEPT ![new] = fresh]
           placed == [book EXCEPT !.levels = levels]
           stops  == Stops(book, side, price, best)
           n      == Smallest(stops)
           stop   == Hop(book, best)[n]
           last   == stop = best /\ (n > 1 \/ GoesAfter(side, price, book.levels[best]))
           target == IF past THEN stop ELSE best
           better == GoesAfter(Opposite(side), price, book.levels[best])
           before == InsertBefore(levels, target, new)
           relink == IF better /\ before[target].next = best
                     THEN NextTied(before, target, new) ELSE before
<1>1. /\ fresh \in LevelRecords /\ fresh.next = new /\ fresh.prev = new /\ fresh # Null
      /\ LevelCopy(fresh) = [other EXCEPT !.prev = new, !.next = new]
  <2>1. fresh \in LevelRecords /\ fresh.next = new /\ fresh.prev = new
    BY DEF LevelRecords
  <2>2. fresh # Null
    BY <2>1, NullAssumption
  <2>3. LevelCopy(fresh) = [other EXCEPT !.prev = new, !.next = new]
    <3>1. /\ fresh.side = side /\ fresh.price = price /\ fresh.orders = list
          /\ fresh.prev = new /\ fresh.next = new
      OBVIOUS
    <3>2. LevelCopy(fresh) \in [side : {side}, price : {price}, orders : {Ids(list)},
                                prev : {new}, next : {new}]
      BY <3>1 DEF LevelCopy
    <3>3. [other EXCEPT !.prev = new, !.next = new]
             \in [side : {side}, price : {price}, orders : {Ids(list)}, prev : {new}, next : {new}]
      BY DEF LevelCopy
    <3>4. QED BY <3>2, <3>3
  <2>4. QED BY <2>1, <2>2, <2>3
<1>2. /\ LevelMap(levels, E) /\ LinksIn(levels, E)
      /\ LevelsCopy(levels) = [copy.levels EXCEPT ![new] = LevelCopy(fresh)]
  <2>1. /\ levels \in [LevelIndices -> LevelRecords \cup {Null}]
        /\ levels[new] = fresh
        /\ \A i \in LevelIndices : i # new => levels[i] = book.levels[i]
        /\ E \subseteq LevelIndices
    <3> HIDE DEF fresh
    <3>1. QED BY <1>1, BookFields DEF Levels
  <2>2. /\ LevelMap(book.levels, Levels(book)) /\ LinksIn(book.levels, Levels(book))
        /\ copy.levels = LevelsCopy(book.levels) /\ DOMAIN book.levels = LevelIndices
    BY BookLevels, BookFields, CopyFields
  <2>3. LevelsCopy(levels) = [copy.levels EXCEPT ![new] = LevelCopy(fresh)]
    <3> HIDE DEF fresh
    <3>1. QED BY <1>1, <2>2 DEF LevelsCopy
  <2> HIDE DEF levels, fresh, copy
  <2>4. LevelMap(levels, E)
    BY <1>1, <2>1, <2>2 DEF LevelMap
  <2>5. LinksIn(levels, E)
    BY <1>1, <2>1, <2>2 DEF LinksIn, Levels
  <2>6. QED BY <2>3, <2>4, <2>5
<1>3. /\ level.side = side /\ level.price = price
      /\ other.side = side /\ other.price = price
  BY DEF LevelCopy
<1>4. /\ Best(copy, side) = best
      /\ best # Null => /\ best \in Levels(book)
                        /\ Stops(copy, side, price, best) = stops
                        /\ Hop(copy, best) = Hop(book, best)
                        /\ \A s \in Sides : GoesAfter(s, price, copy.levels[best])
                                            <=> GoesAfter(s, price, book.levels[best])
  <2>1. Best(copy, side) = best /\ (best # Null => best \in Levels(book))
    BY CopyFields, TiedMeans DEF Best
  <2>2. ASSUME best # Null
        PROVE  Stops(copy, side, price, best) = stops /\ Hop(copy, best) = Hop(book, best)
    BY <2>1, <2>2, StopsCopied, HopCopied
  <2>3. ASSUME best # Null, NEW s \in Sides
        PROVE  GoesAfter(s, price, copy.levels[best]) <=> GoesAfter(s, price, book.levels[best])
    BY <2>1, <2>3, BookLevels DEF GoesAfter
  <2>4. QED BY <2>1, <2>2, <2>3
<1> DEFINE levels2 == [copy.levels EXCEPT ![new] = [other EXCEPT !.prev = new, !.next = new]]
           before2 == InsertBefore(levels2, target, new)
           relink2 == IF better /\ before2[target].next = best
                      THEN NextTied(before2, target, new) ELSE before2
<1>5. levels2 = LevelsCopy(levels)
  BY <1>1, <1>2
<1>6. /\ InsertLevel(book, level, past)
            = IF best = Null THEN SetBest(placed, side, new)
              ELSE IF ~past \/ (stops # {} /\ ~last)
                   THEN SetBest([placed EXCEPT !.levels = relink], side,
                                IF better THEN new ELSE best)
              ELSE IF stops = {} THEN [book EXCEPT !.fault = TRUE]
              ELSE [placed EXCEPT !.levels = InsertLast(levels, best, new)]
      /\ InsertLevel(copy, other, past)
            = IF best = Null THEN SetBest([copy EXCEPT !.levels = levels2], side, new)
              ELSE IF ~past \/ (stops # {} /\ ~last)
                   THEN SetBest([[copy EXCEPT !.levels = levels2] EXCEPT !.levels = relink2], side,
                                IF better THEN new ELSE best)
              ELSE IF stops = {} THEN [copy EXCEPT !.fault = TRUE]
              ELSE [[copy EXCEPT !.levels = levels2] EXCEPT !.levels
                        = InsertLast(levels2, best, new)]
  <2>1. Opposite(side) \in Sides
    BY DEF Opposite, Sides
  <2>2. InsertLevel(book, level, past)
            = IF best = Null THEN SetBest(placed, side, new)
              ELSE IF ~past \/ (stops # {} /\ ~last)
                   THEN SetBest([placed EXCEPT !.levels = relink], side,
                                IF better THEN new ELSE best)
              ELSE IF stops = {} THEN [book EXCEPT !.fault = TRUE]
              ELSE [placed EXCEPT !.levels = InsertLast(levels, best, new)]
    BY DEF InsertLevel, NextTied
  <2> DEFINE stops3  == Stops(copy, side, price, best)
             n3      == Smallest(stops3)
             stop3   == Hop(copy, best)[n3]
             last3   == stop3 = best /\ (n3 > 1 \/ GoesAfter(side, price, copy.levels[best]))
             target3 == IF past THEN stop3 ELSE best
             better3 == GoesAfter(Opposite(side), price, copy.levels[best])
             before3 == InsertBefore(levels2, target3, new)
             relink3 == IF better3 /\ before3[target3].next = best
                        THEN NextTied(before3, target3, new) ELSE before3
  <2>3. InsertLevel(copy, other, past)
            = IF best = Null THEN SetBest([copy EXCEPT !.levels = levels2], side, new)
              ELSE IF ~past \/ (stops3 # {} /\ ~last3)
                   THEN SetBest([[copy EXCEPT !.levels = levels2] EXCEPT !.levels = relink3], side,
                                IF better3 THEN new ELSE best)
              ELSE IF stops3 = {} THEN [copy EXCEPT !.fault = TRUE]
              ELSE [[copy EXCEPT !.levels = levels2] EXCEPT !.levels
                        = InsertLast(levels2, best, new)]
    <3>1. other.side = side /\ other.price = price /\ Best(copy, side) = best
      BY <1>3, <1>4
    <3> HIDE DEF other, copy, best
    <3>2. QED BY <3>1 DEF InsertLevel, NextTied
  <2>4. ASSUME best # Null
        PROVE  /\ stops3 = stops /\ (last3 <=> last) /\ target3 = target /\ (better3 <=> better)
               /\ relink3 = relink2
    <3>1. /\ stops3 = stops /\ Hop(copy, best) = Hop(book, best)
          /\ GoesAfter(side, price, copy.levels[best]) <=> GoesAfter(side, price, book.levels[best])
          /\ better3 <=> better
      BY <1>4, <2>1, <2>4
    <3> HIDE DEF stops3, stops, better3, better, copy, best, levels2
    <3>2. stops3 = stops /\ (last3 <=> last) /\ target3 = target /\ (better3 <=> better)
      BY <3>1
    <3> HIDE DEF last3, last, target3, target
    <3>3. QED BY <3>2
  <2> HIDE DEF stops3, stops, last3, last, better3, better, relink3, relink2, copy, best, levels2
  <2>5. QED BY <2>2, <2>3, <2>4
<1> DEFINE plain(L)  == [book EXCEPT !.levels = L]
           plain2(L) == [copy EXCEPT !.levels = L]
<1>7. /\ \A L : [placed EXCEPT !.levels = L] = plain(L)
      /\ \A L : [[copy EXCEPT !.levels = levels2] EXCEPT !.levels = L] = plain2(L)
      /\ placed = plain(levels) /\ [copy EXCEPT !.levels = levels2] = plain2(levels2)
  <2> HIDE DEF levels, levels2
  <2>1. \A L : [placed EXCEPT !.levels = L] = plain(L)
    BY DEF Books
  <2>2. ASSUME NEW L PROVE [[copy EXCEPT !.levels = levels2] EXCEPT !.levels = L] = plain2(L)
    <3> DEFINE R == [orders : {copy.orders}, levels : {L}, bids : {copy.bids}, asks : {copy.asks},
                     next_market_order_id_ : {copy.next_market_order_id_}, fault : {copy.fault}]
    <3>1. [[copy EXCEPT !.levels = levels2] EXCEPT !.levels = L] \in R /\ plain2(L) \in R
      BY DEF CopyOf
    <3>2. QED BY <3>1
  <2>3. QED BY <2>1, <2>2
<1>8. ASSUME NEW L, LevelMap(L, E)
      PROVE  /\ CopyOf(plain(L)) = plain2(LevelsCopy(L))
             /\ \A h : CopyOf(SetBest(plain(L), side, h)) = SetBest(plain2(LevelsCopy(L)), side, h)
  <2>1. plain(L) \in Books
    BY <1>8 DEF LevelMap, Books
  <2>2. CopyOf(plain(L)) = plain2(LevelsCopy(L))
    BY CopyChanges
  <2> HIDE DEF plain, plain2
  <2>3. QED BY <2>1, <2>2, CopyChanges
<1> HIDE DEF placed, levels, levels2, stops, copy, level, other, plain, plain2
<1>9. CASE best = Null
  <2>1. InsertLevel(book, level, past) = SetBest(plain(levels), side, new)
    BY <1>6, <1>7, <1>9
  <2>2. InsertLevel(copy, other, past) = SetBest(plain2(levels2), side, new)
    BY <1>6, <1>7, <1>9
  <2>3. QED BY <1>2, <1>5, <1>8, <2>1, <2>2 DEF copy, level, other
<1>10. CASE best # Null
  <2>1. best \in E
    BY <1>4, <1>10
  <2>2. stops # {} => stop \in E
    <3>1. stops \in SUBSET Nat /\ stops \in SUBSET (0 .. MaxPriceLevels)
      BY LevelsAssumption DEF stops, Stops
    <3>2. stops # {} => Smallest(stops) \in 0 .. MaxPriceLevels
      BY <3>1, SmallestStop
    <3>3. QED BY <1>4, <1>10, <3>2, HopStays
  <2>3. CASE ~past \/ (stops # {} /\ ~last)
    <3>1. target \in E /\ new \in E
      BY <2>1, <2>2, <2>3
    <3> HIDE DEF target, better, E
    <3>2. LevelMap(before, E) /\ LevelsCopy(before) = before2
      BY <1>2, <1>5, <3>1, InsertKeeps, InsertCopied
    <3> HIDE DEF before, before2
    <3>3. before[target].next = before2[target].next
      BY <3>1, <3>2, LevelsCopied
    <3>4. LevelMap(NextTied(before, target, new), E)
          /\ LevelsCopy(NextTied(before, target, new)) = NextTied(before2, target, new)
      <4>1. new \in LevelIndices /\ target \in LevelIndices
        BY <3>1, <3>2 DEF LevelMap
      <4>2. LevelsCopy(NextTied(before, target, new)) = NextTied(before2, target, new)
        BY <3>1, <3>2, <4>1, NextCopied
      <4> HIDE DEF new
      <4>3. LevelMap(NextTied(before, target, new), E)
        BY <3>1, <3>2, <4>1 DEF LevelMap, NextTied, LevelRecords
      <4>4. QED BY <4>2, <4>3
    <3>5. LevelMap(relink, E) /\ LevelsCopy(relink) = relink2
      BY <3>2, <3>3, <3>4
    <3> HIDE DEF relink, relink2
    <3>6. /\ InsertLevel(book, level, past)
                = SetBest(plain(relink), side, IF better THEN new ELSE best)
          /\ InsertLevel(copy, other, past)
                = SetBest(plain2(relink2), side, IF better THEN new ELSE best)
      BY <1>6, <1>7, <1>10, <2>3
    <3>7. QED BY <1>8, <3>5, <3>6 DEF copy, level, other
  <2>4. CASE ~(~past \/ (stops # {} /\ ~last)) /\ stops = {}
    <3>1. /\ InsertLevel(book, level, past) = [book EXCEPT !.fault = TRUE]
          /\ InsertLevel(copy, other, past) = [copy EXCEPT !.fault = TRUE]
      BY <1>6, <1>10, <2>4
    <3>2. CopyOf([book EXCEPT !.fault = TRUE]) = [copy EXCEPT !.fault = TRUE]
      BY CopyChanges DEF copy
    <3>3. QED BY <3>1, <3>2 DEF copy, level, other
  <2>5. CASE ~(~past \/ (stops # {} /\ ~last)) /\ stops # {}
    <3>1. /\ InsertLevel(book, level, past) = plain(InsertLast(levels, best, new))
          /\ InsertLevel(copy, other, past) = plain2(InsertLast(levels2, best, new))
      BY <1>6, <1>7, <1>10, <2>5
    <3>2. /\ LevelMap(InsertLast(levels, best, new), E)
          /\ LevelsCopy(InsertLast(levels, best, new)) = InsertLast(levels2, best, new)
      <4>1. new \in E
        OBVIOUS
      <4> HIDE DEF E
      <4>2. QED BY <1>2, <1>5, <2>1, <4>1, InsertKeeps, InsertCopied
    <3>3. QED BY <1>8, <3>1, <3>2 DEF copy, level, other
  <2>6. QED BY <2>3, <2>4, <2>5
<1>11. QED BY <1>9, <1>10 DEF copy, level, other

-----------------------------------------------------------------------------
(* Copies of orders.                                                       *)

\* Client 0 is the only one a ticker's book has orders of, and a number stands
\* for one order.
LEMMA IdOfKey ==
    ASSUME OneTicker, NEW key \in Keys
    PROVE  /\ key[1] = 0 /\ key[2] + 1 \in MarketIds /\ key[2] + 1 \in Nat
           /\ key = <<0, (key[2] + 1) - 1>>
           /\ \A k \in Keys : k[2] + 1 = key[2] + 1 <=> k = key
           /\ \A id \in MarketIds : /\ <<0, id - 1>> \in Keys /\ id \in Nat
                                    /\ <<0, id - 1>>[2] + 1 = id
<1>1. Clients = {0}
  BY KeyParts, ClientsAssumption DEF OneTicker
<1>2. MarketIds = 1 .. MaxOrders
  <2>1. Cardinality(Clients) = 1
    BY <1>1, FS_Singleton, Zenon
  <2>2. QED BY <2>1, OrdersAssumption DEF MarketIds
<1>3. \A k \in Keys : k = <<k[1], k[2]>> /\ k[1] = 0 /\ k[2] \in Nat /\ k[2] < MaxOrders
  BY <1>1, KeyParts
<1>4. \A id \in MarketIds : /\ <<0, id - 1>> \in Keys /\ id \in Nat
                            /\ <<0, id - 1>>[2] + 1 = id
  <2>1. ASSUME NEW id \in MarketIds PROVE id - 1 \in OrderIds /\ id \in Nat
    BY <1>2, OrdersAssumption DEF OrderIds
  <2>2. QED BY <1>1, <2>1 DEF Keys
<1>5. \A k \in Keys : k[2] + 1 = key[2] + 1 <=> k = key
  <2>1. ASSUME NEW k \in Keys, k[2] + 1 = key[2] + 1 PROVE k = key
    <3>1. k[2] = key[2] /\ k[1] = key[1]
      BY <1>3, <2>1
    <3>2. QED BY <1>3, <3>1
  <2>2. QED BY <2>1
<1>6. key[2] + 1 \in MarketIds /\ key[2] + 1 \in Nat /\ (key[2] + 1) - 1 = key[2]
  BY <1>2, <1>3, OrdersAssumption
<1>7. QED BY <1>3, <1>4, <1>5, <1>6

\* A copy of an order is something.
LEMMA OrderCopied ==
    ASSUME NEW order \in OrderRecords
    PROVE  /\ OrderCopy(order) \in ClientOrderRecords /\ OrderCopy(order) # Null
           /\ OrderCopy(order).side = order.side /\ OrderCopy(order).price = order.price
           /\ OrderCopy(order).qty = order.qty
<1>1. OrderCopy(order) \in ClientOrderRecords
  BY DEF OrderRecords, OrderCopy, ClientOrderRecords
<1>2. QED BY <1>1, ClientNullAssumption DEF OrderCopy

\* The orders of a book and of its copy.
LEMMA BookOrders ==
    ASSUME OneTicker, NEW book \in Books, NEW key \in Keys
    PROVE  /\ CopyOf(book).orders[key[2] + 1]
                 = IF book.orders[key] = Null THEN Null ELSE OrderCopy(book.orders[key])
           /\ CopyOf(book).orders[key[2] + 1] = Null <=> book.orders[key] = Null
           /\ key \in Live(book) => CopyOf(book).orders[key[2] + 1].qty = book.orders[key].qty
           /\ DOMAIN CopyOf(book).orders = MarketIds
<1>1. /\ key[2] + 1 \in MarketIds /\ key = <<0, (key[2] + 1) - 1>>
  BY IdOfKey
<1>2. CopyOf(book).orders[key[2] + 1]
         = IF book.orders[key] = Null THEN Null ELSE OrderCopy(book.orders[key])
  BY <1>1 DEF CopyOf, OrdersCopy
<1>3. book.orders[key] # Null =>
         OrderCopy(book.orders[key]) # Null /\ OrderCopy(book.orders[key]).qty = book.orders[key].qty
  BY BookFields, OrderCopied
<1>4. QED BY <1>2, <1>3 DEF CopyOf, OrdersCopy, Live

\* One order changes.
LEMMA OrderChanges ==
    ASSUME OneTicker, NEW orders, DOMAIN orders = Keys, NEW key \in Keys
    PROVE  /\ OrdersCopy([orders EXCEPT ![key] = Null])
                 = [OrdersCopy(orders) EXCEPT ![key[2] + 1] = Null]
           /\ \A order \in OrderRecords :
                 OrdersCopy([orders EXCEPT ![key] = order])
                    = [OrdersCopy(orders) EXCEPT ![key[2] + 1] = OrderCopy(order)]
<1> DEFINE copied(x) == IF x = Null THEN Null ELSE OrderCopy(x)
<1>1. ASSUME NEW x
      PROVE  OrdersCopy([orders EXCEPT ![key] = x])
                = [OrdersCopy(orders) EXCEPT ![key[2] + 1] = copied(x)]
  <2> DEFINE map == [orders EXCEPT ![key] = x]
  <2>1. \A k \in Keys : map[k] = IF k = key THEN x ELSE orders[k]
    OBVIOUS
  <2>2. ASSUME NEW id \in MarketIds
        PROVE  copied(map[<<0, id - 1>>])
                  = IF id = key[2] + 1 THEN copied(x) ELSE copied(orders[<<0, id - 1>>])
    <3>1. <<0, id - 1>> \in Keys /\ <<0, id - 1>>[2] + 1 = id
      BY IdOfKey
    <3>2. id = key[2] + 1 <=> <<0, id - 1>> = key
      BY <3>1, IdOfKey
    <3> HIDE DEF map, copied
    <3>3. QED BY <2>1, <3>1, <3>2
  <2> HIDE DEF map
  <2>3. /\ OrdersCopy(map) = [id \in MarketIds |-> copied(map[<<0, id - 1>>])]
        /\ OrdersCopy(orders) = [id \in MarketIds |-> copied(orders[<<0, id - 1>>])]
    BY DEF OrdersCopy
  <2> HIDE DEF copied
  <2>4. QED BY <2>2, <2>3 DEF map
<1>2. copied(Null) = Null
  OBVIOUS
<1>3. \A order \in OrderRecords : copied(order) = OrderCopy(order)
  BY NullAssumption
<1> HIDE DEF copied
<1>4. QED BY <1>1, <1>2, <1>3

\* A book with another order under a key, or another list at a level.
WithOrder(book, key, order) == [book EXCEPT !.orders[key] = order]
WithList(book, index, list) == [book EXCEPT !.levels[index].orders = list]

\* An order that changes in a book changes in the copy.
LEMMA EntryCopied ==
    ASSUME OneTicker, NEW book \in Books, NEW key \in Keys
    PROVE  /\ CopyOf(WithOrder(book, key, Null)) = WithOrder(CopyOf(book), key[2] + 1, Null)
           /\ \A order \in OrderRecords :
                 CopyOf(WithOrder(book, key, order))
                    = WithOrder(CopyOf(book), key[2] + 1, OrderCopy(order))
<1> DEFINE id     == key[2] + 1
           copy   == CopyOf(book)
           map(x) == [book.orders EXCEPT ![key] = x]
           ids(y) == [OrdersCopy(book.orders) EXCEPT ![id] = y]
<1>1. /\ OrdersCopy(map(Null)) = ids(Null)
      /\ \A order \in OrderRecords : OrdersCopy(map(order)) = ids(OrderCopy(order))
  BY BookFields, OrderChanges
<1>2. ASSUME NEW x, NEW y, OrdersCopy(map(x)) = ids(y)
      PROVE  CopyOf(WithOrder(book, key, x)) = WithOrder(copy, id, y)
  <2> DEFINE m == map(x)
             n == ids(y)
  <2>1. WithOrder(book, key, x) = [book EXCEPT !.orders = m]
    BY DEF WithOrder, Books
  <2>2. WithOrder(copy, id, y) = [copy EXCEPT !.orders = n]
    BY DEF WithOrder, CopyOf
  <2>3. OrdersCopy(m) = n
    BY <1>2
  <2> HIDE DEF m, n
  <2>4. CopyOf([book EXCEPT !.orders = m]) = [copy EXCEPT !.orders = OrdersCopy(m)]
    BY CopyChanges DEF Sides
  <2>5. QED BY <2>1, <2>2, <2>3, <2>4
<1> HIDE DEF map, ids, copy
<1>3. QED BY <1>1, <1>2 DEF copy

\* A list that changes in a book changes in the copy.
LEMMA ListCopied ==
    ASSUME NEW book \in Books, NEW index \in Levels(book), NEW list \in Seq(Keys)
    PROVE  CopyOf(WithList(book, index, list)) = WithList(CopyOf(book), index, Ids(list))
<1> DEFINE level == [book.levels[index] EXCEPT !.orders = list]
           map   == [book.levels EXCEPT ![index] = level]
           copy  == CopyOf(book)
           other == [copy.levels[index] EXCEPT !.orders = Ids(list)]
<1>1. /\ index \in LevelIndices /\ book.levels[index] \in LevelRecords
      /\ DOMAIN book.levels = LevelIndices
  BY BookFields
<1>2. level \in LevelRecords /\ level # Null
  BY <1>1, NullAssumption DEF LevelRecords
<1>3. LevelCopy(level) = other
  <2>1. copy.levels[index] = LevelCopy(book.levels[index])
    BY <1>1, NullAssumption DEF CopyOf, LevelsCopy
  <2>2. LevelCopy(level) = [LevelCopy(book.levels[index]) EXCEPT !.orders = Ids(list)]
    BY <1>1 DEF LevelCopy, LevelRecords
  <2>3. QED BY <2>1, <2>2
<1>4. WithList(book, index, list) = [book EXCEPT !.levels = map]
  BY DEF WithList, Books
<1>5. WithList(copy, index, Ids(list))
         = [copy EXCEPT !.levels = [LevelsCopy(book.levels) EXCEPT ![index] = other]]
  BY DEF WithList, CopyOf
<1>6. LevelsCopy(map) = [LevelsCopy(book.levels) EXCEPT ![index] = LevelCopy(level)]
  <2> HIDE DEF level
  <2>1. QED BY <1>1, <1>2 DEF LevelsCopy
<1>7. CopyOf([book EXCEPT !.levels = map]) = [copy EXCEPT !.levels = LevelsCopy(map)]
  BY CopyChanges DEF Sides
<1> HIDE DEF map, copy, level, other
<1>8. QED BY <1>3, <1>4, <1>5, <1>6, <1>7 DEF copy

\* An order that comes to a book comes to the copy.
LEMMA AddOrderCopied ==
    ASSUME OneTicker, NEW book \in Books, ~book.fault, InOrder(book), InLine(book),
           NEW key \in Keys, key \notin Live(book),
           NEW order \in OrderRecords, order.price \in PricesOf(order.side),
           ~Spoils(book, order.side, order.price)
    PROVE  addClientOrder(CopyOf(book), key[2] + 1, OrderCopy(order))
              = CopyOf(addOrder(book, key, order))
<1> DEFINE side   == order.side
           price  == order.price
           id     == key[2] + 1
           filed  == WithOrder(book, key, order)
           level  == [side |-> side, price |-> price, orders |-> <<key>>,
                      prev |-> Null, next |-> Null]
           past   == GoesAfter(side, price, filed.levels[Best(filed, side)])
           grown  == addOrdersAtPrice(filed, level)
           full   == [grown EXCEPT !.fault = @ \/ Levels(grown) = LevelIndices]
           copy   == CopyOf(book)
           other  == [side |-> side, price |-> price, orders |-> <<id>>,
                      prev |-> Null, next |-> Null]
           filed2 == WithOrder(copy, id, OrderCopy(order))
           past2  == GoesAfter(side, price, filed2.levels[Best(filed2, side)])
           grown2 == addClientOrdersAtPrice(filed2, other)
           full2  == [grown2 EXCEPT !.fault = @ \/ Levels(grown2) = LevelIndices]
<1>1. PICK index \in LevelIndices : index = priceToIndex(price)
  BY IndexInRange DEF OrderRecords
<1>2. side \in Sides /\ price \in PricesOf(side) /\ price \in Prices /\ <<key>> \in Seq(Keys)
  BY DEF OrderRecords
<1>3. OrderCopy(order).side = side /\ OrderCopy(order).price = price
  BY OrderCopied
<1>4. /\ filed \in Books /\ filed.levels = book.levels /\ filed.fault = book.fault
      /\ filed.bids = book.bids /\ filed.asks = book.asks
  BY BookFields DEF Books, WithOrder
<1>5. filed2 = CopyOf(filed)
  BY EntryCopied
<1> HIDE DEF filed, filed2
<1>6. /\ ~Dangles(filed) /\ Levels(filed) = Levels(book) /\ Rings(filed)
  <2>1. SameFrame(book, filed) /\ Dangles(filed) = Dangles(book)
    BY <1>4 DEF Dangles, Levels, SameFrame
  <2>2. QED BY <1>4, <2>1, SameRings DEF SameFrame, InOrder, InLine
<1>7. /\ addOrder(book, key, order)
            = IF index \in Levels(book)
              THEN WithList(filed, index, Append(book.levels[index].orders, key)) ELSE full
      /\ addClientOrder(copy, id, OrderCopy(order))
            = IF index \in Levels(book)
              THEN WithList(filed2, index, Append(Ids(book.levels[index].orders), id)) ELSE full2
  <2>1. /\ book.levels[index] # Null <=> index \in Levels(book)
        /\ copy.levels[index] # Null <=> index \in Levels(book)
    BY BookLevels, BookFields DEF Levels
  <2>2. index \in Levels(book) => filed2.levels[index].orders = Ids(book.levels[index].orders)
    BY <1>4, <1>5, <1>6, BookLevels
  <2>3. addOrder(book, key, order)
            = IF book.levels[index] # Null
              THEN [filed EXCEPT !.levels[index].orders = Append(@, key)] ELSE full
    BY <1>1 DEF addOrder, filed, WithOrder
  <2>4. addClientOrder(copy, id, OrderCopy(order))
            = IF copy.levels[index] # Null
              THEN [filed2 EXCEPT !.levels[index].orders = Append(@, id)] ELSE full2
    BY <1>1, <1>3 DEF addClientOrder, getOrdersAtPrice, filed2, WithOrder
  <2>5. /\ [filed EXCEPT !.levels[index].orders = Append(@, key)]
              = WithList(filed, index, Append(filed.levels[index].orders, key))
        /\ [filed2 EXCEPT !.levels[index].orders = Append(@, id)]
              = WithList(filed2, index, Append(filed2.levels[index].orders, id))
    BY DEF WithList
  <2> HIDE DEF full, full2, copy
  <2>6. QED BY <1>4, <2>1, <2>2, <2>3, <2>4, <2>5
<1>8. CASE index \in Levels(book)
  <2> DEFINE list == book.levels[index].orders
             more == Append(list, key)
  <2>1. list \in Seq(Keys)
    BY <1>8, LevelFields
  <2>2. more \in Seq(Keys) /\ Ids(more) = Append(Ids(list), id)
    <3> HIDE DEF list
    <3>1. Ids(Append(list, key)) = Append(Ids(list), id)
      BY <2>1, IdsMeans, Zenon
    <3>2. Append(list, key) \in Seq(Keys)
      BY <2>1
    <3>3. QED BY <3>1, <3>2
  <2> HIDE DEF more, list
  <2>3. CopyOf(WithList(filed, index, more)) = WithList(filed2, index, Ids(more))
    BY <1>4, <1>5, <1>6, <1>8, <2>2, ListCopied
  <2>4. QED BY <1>7, <1>8, <2>2, <2>3 DEF more, list
<1>9. CASE index \notin Levels(book)
  <2>1. other = LevelCopy(level)
    <3>1. Ids(<<key>>) = <<id>>
      BY <1>2, IdsMeans
    <3>2. QED BY <3>1 DEF LevelCopy
  <2>2. past \in BOOLEAN
    <3>1. CASE side = "SELL"
      BY <3>1 DEF GoesAfter
    <3>2. CASE side # "SELL"
      BY <3>2 DEF GoesAfter
    <3>3. QED BY <3>1, <3>2
  <2>3. grown = InsertLevel(filed, level, past)
    <3>1. ~Misties(filed, side, price)
      BY <1>4 DEF Spoils, Misties, getOrdersAtPrice, Best
    <3>2. QED BY <1>1, <1>2, <1>4, <1>6, <1>9, <3>1, SearchedAsMeant
  <2>4. grown2 = InsertLevel(filed2, other, past2)
    BY DEF addClientOrdersAtPrice
  <2>5. InsertLevel(filed2, other, past2) = InsertLevel(filed2, other, past)
    <3>1. Best(filed2, side) = Best(filed, side)
      BY <1>5, CopyFields
    <3>2. CASE Best(filed, side) = Null
      <4>1. other.side = side
        OBVIOUS
      <4> HIDE DEF other, past, past2
      <4>2. QED BY <3>1, <3>2, <4>1 DEF InsertLevel
    <3>3. CASE Best(filed, side) # Null
      <4>1. Best(filed, side) \in Levels(filed)
        BY <1>4, <1>6, <3>3, TiedMeans DEF Best
      <4>2. past2 <=> past
        BY <1>4, <1>5, <3>1, <4>1, BookLevels DEF GoesAfter
      <4>3. past2 \in BOOLEAN
        BY <2>2, <4>2 DEF GoesAfter
      <4>4. QED BY <2>2, <4>2, <4>3
    <3>4. QED BY <3>2, <3>3
  <2>6. /\ InsertLevel(filed2, other, past) = CopyOf(grown)
        /\ SameOrders(filed, grown)
    <3> HIDE DEF past, grown
    <3>1. InsertLevel(CopyOf(filed), LevelCopy(level), past)
             = CopyOf(InsertLevel(filed, level, past))
      <4> DEFINE with(list) == [side |-> side, price |-> price, orders |-> list,
                                prev |-> Null, next |-> Null]
      <4> HIDE DEF side, price
      <4>1. ASSUME NEW list \in Seq(Keys)
            PROVE  InsertLevel(CopyOf(filed), LevelCopy(with(list)), past)
                      = CopyOf(InsertLevel(filed, with(list), past))
        BY <1>1, <1>2, <1>4, <1>6, <1>9, <2>2, InsertLevelCopied
      <4>2. level = with(<<key>>)
        OBVIOUS
      <4> HIDE DEF with, level
      <4>3. QED BY <1>2, <4>1, <4>2
    <3>2. SameOrders(filed, grown)
      BY <1>1, <1>2, <1>4, <1>6, <1>9, <2>2, <2>3, InsertLevelGrows
    <3> HIDE DEF level, other
    <3>3. QED BY <1>5, <2>1, <2>3, <3>1, <3>2
  <2>7. grown2 = CopyOf(grown)
    <3> HIDE DEF grown, grown2, past, past2, other
    <3>1. QED BY <2>4, <2>5, <2>6
  <2> HIDE DEF grown, grown2
  <2>8. full2 = CopyOf(full)
    <3> DEFINE f == grown.fault \/ Levels(grown) = LevelIndices
    <3>1. grown \in Books
      BY <2>6 DEF SameOrders
    <3>2. /\ full = [grown EXCEPT !.fault = f]
          /\ full2 = [CopyOf(grown) EXCEPT !.fault = CopyOf(grown).fault
                                                       \/ Levels(CopyOf(grown)) = LevelIndices]
      BY <2>7
    <3>3. Levels(CopyOf(grown)) = Levels(grown) /\ CopyOf(grown).fault = grown.fault
      BY <3>1, BookLevels, CopyFields
    <3>4. full2 = [CopyOf(grown) EXCEPT !.fault = f]
      BY <3>2, <3>3
    <3> HIDE DEF f, full, full2
    <3>5. CopyOf([grown EXCEPT !.fault = f]) = [CopyOf(grown) EXCEPT !.fault = f]
      BY <3>1, CopyChanges DEF Sides
    <3>6. QED BY <3>2, <3>4, <3>5
  <2>9. QED BY <1>7, <1>9, <2>8
<1>10. QED BY <1>8, <1>9

-----------------------------------------------------------------------------
(* Copies of books that an order leaves.                                   *)

\* A list that an order leaves.
LEMMA UnlinkedCopied ==
    ASSUME OneTicker, NEW s \in Seq(Keys), NEW m \in DOMAIN s,
           \A i, j \in DOMAIN s : s[i] = s[j] => i = j
    PROVE  Unlinked(Ids(s), s[m][2] + 1) = Ids(Unlinked(s, s[m]))
<1> DEFINE t == Ids(s)
           u == Unlinked(s, s[m])
           v == Unlinked(t, t[m])
<1>1. /\ t \in Seq(Nat) /\ Len(t) = Len(s) /\ DOMAIN t = DOMAIN s
      /\ \A n \in DOMAIN s : t[n] = s[n][2] + 1 /\ s[n] \in Keys
      /\ Len(s) \in Nat /\ DOMAIN s = 1 .. Len(s)
  BY IdsMeans
<1>2. \A i, j \in DOMAIN t : t[i] = t[j] => i = j
  BY <1>1, IdOfKey
<1>3. /\ u \in Seq(Keys) /\ Len(u) = Len(s) - 1
      /\ \A i \in 1 .. Len(s) - 1 : u[i] = IF i < m THEN s[i] ELSE s[i + 1]
  BY UnlinkedParts
<1> HIDE DEF t
<1>4. /\ v \in Seq(Nat) /\ Len(v) = Len(s) - 1
      /\ \A i \in 1 .. Len(s) - 1 : v[i] = IF i < m THEN t[i] ELSE t[i + 1]
  <2>1. t \in Seq(Nat) /\ m \in DOMAIN t /\ \A i, j \in DOMAIN t : t[i] = t[j] => i = j
    BY <1>1, <1>2
  <2>2. /\ v \in Seq(Nat) /\ Len(v) = Len(t) - 1
        /\ \A i \in 1 .. Len(t) - 1 : v[i] = IF i < m THEN t[i] ELSE t[i + 1]
    BY <2>1, UnlinkedParts
  <2>3. QED BY <1>1, <2>2
<1> HIDE DEF u, v
<1>5. /\ Ids(u) \in Seq(Nat) /\ Len(Ids(u)) = Len(s) - 1
      /\ \A i \in 1 .. Len(s) - 1 : Ids(u)[i] = u[i][2] + 1
  <2>1. DOMAIN u = 1 .. Len(s) - 1
    BY <1>1, <1>3
  <2>2. Ids(u) \in Seq(Nat) /\ Len(Ids(u)) = Len(u) /\ \A i \in DOMAIN u : Ids(u)[i] = u[i][2] + 1
    BY <1>3, IdsMeans
  <2>3. QED BY <1>3, <2>1, <2>2
<1>6. ASSUME NEW i \in 1 .. Len(s) - 1 PROVE Ids(u)[i] = v[i]
  <2>1. Ids(u)[i] = u[i][2] + 1 /\ i \in DOMAIN s /\ i + 1 \in DOMAIN s
    BY <1>1, <1>5
  <2>2. CASE i < m
    BY <1>1, <1>3, <1>4, <2>1, <2>2
  <2>3. CASE ~(i < m)
    BY <1>1, <1>3, <1>4, <2>1, <2>3
  <2>4. QED BY <2>2, <2>3
<1>7. Ids(u) = v
  <2>1. DOMAIN Ids(u) = 1 .. Len(s) - 1 /\ DOMAIN v = 1 .. Len(s) - 1
    BY <1>1, <1>4, <1>5
  <2>2. Ids(u) = [i \in 1 .. Len(s) - 1 |-> Ids(u)[i]] /\ v = [i \in 1 .. Len(s) - 1 |-> v[i]]
    BY <1>4, <1>5, <2>1
  <2>3. QED BY <1>6, <2>2
<1>8. QED BY <1>1, <1>7 DEF u, v, t

\* A level that leaves.
LEMMA RemoveLevelCopied ==
    ASSUME NEW book \in Books, ~Dangles(book), NEW side \in Sides, NEW price,
           priceToIndex(price) \in Levels(book)
    PROVE  removeOrdersAtPrice(CopyOf(book), side, price)
              = CopyOf(removeOrdersAtPrice(book, side, price))
<1> DEFINE index == priceToIndex(price)
           level == book.levels[index]
           best  == Best(book, side)
           copy  == CopyOf(book)
           E     == Levels(book)
           tied  == Link(book.levels, level.prev, level.next)
           head  == IF index = best THEN level.next ELSE best
           gone(L)   == [L EXCEPT ![index] = Null]
           plain(L)  == [book EXCEPT !.levels = L]
           plain2(L) == [copy EXCEPT !.levels = L]
<1>1. /\ LevelMap(book.levels, E) /\ LinksIn(book.levels, E) /\ index \in LevelIndices
      /\ level.next \in E /\ level.prev \in E
      /\ copy.levels = LevelsCopy(book.levels) /\ Best(copy, side) = best
      /\ copy.levels[index].next = level.next /\ copy.levels[index].prev = level.prev
  <2>1. LevelMap(book.levels, E) /\ LinksIn(book.levels, E)
    BY BookLevels
  <2>2. QED BY <2>1, BookLevels, BookFields, CopyFields DEF LinksIn
<1>2. LevelMap(tied, E) /\ LevelsCopy(tied) = Link(copy.levels, level.prev, level.next)
  <2> HIDE DEF level, E, copy
  <2>1. QED BY <1>1, LinkKeeps, LinkCopied
<1>3. ASSUME NEW L, LevelMap(L, E)
      PROVE  /\ LevelsCopy(gone(L)) = gone(LevelsCopy(L))
             /\ plain(gone(L)) \in Books
  <2>1. L \in [LevelIndices -> LevelRecords \cup {Null}]
    BY <1>3 DEF LevelMap
  <2>2. LevelsCopy(gone(L)) = gone(LevelsCopy(L))
    BY <1>1, <2>1 DEF LevelsCopy
  <2>3. QED BY <2>1, <2>2 DEF Books
<1>4. ASSUME NEW L, LevelMap(L, E), NEW h
      PROVE  CopyOf(SetBest(plain(gone(L)), side, h))
                = SetBest(plain2(gone(LevelsCopy(L))), side, h)
  <2> DEFINE M == gone(L)
  <2>1. LevelsCopy(M) = gone(LevelsCopy(L)) /\ plain(M) \in Books
    BY <1>3, <1>4
  <2> HIDE DEF M
  <2>2. CopyOf(plain(M)) = plain2(LevelsCopy(M))
    BY CopyChanges
  <2> HIDE DEF plain, plain2
  <2>3. QED BY <2>1, <2>2, CopyChanges DEF M
<1>5. /\ removeOrdersAtPrice(book, side, price)
            = IF level.next = index THEN SetBest(plain(gone(book.levels)), side, Null)
              ELSE SetBest(plain(gone(tied)), side, head)
      /\ removeOrdersAtPrice(copy, side, price)
            = IF level.next = index THEN SetBest(plain2(gone(copy.levels)), side, Null)
              ELSE SetBest(plain2(gone(Link(copy.levels, level.prev, level.next))), side, head)
  <2>1. [copy EXCEPT !.levels[index] = Null] = plain2(gone(copy.levels))
    BY DEF CopyOf
  <2>2. [book EXCEPT !.levels[index] = Null] = plain(gone(book.levels))
    BY DEF Books
  <2> HIDE DEF copy, level, best
  <2>3. removeOrdersAtPrice(copy, side, price)
            = IF copy.levels[index].next = index
              THEN SetBest([copy EXCEPT !.levels[index] = Null], side, Null)
              ELSE SetBest(plain2(gone(Link(copy.levels, copy.levels[index].prev,
                                            copy.levels[index].next))),
                           side, IF index = Best(copy, side) THEN copy.levels[index].next
                                 ELSE Best(copy, side))
    BY DEF removeOrdersAtPrice
  <2>4. removeOrdersAtPrice(book, side, price)
            = IF level.next = index
              THEN SetBest([book EXCEPT !.levels[index] = Null], side, Null)
              ELSE SetBest(plain(gone(tied)), side, head)
    BY DEF removeOrdersAtPrice, level, best
  <2> HIDE DEF plain, plain2, gone, index
  <2>5. QED BY <1>1, <2>1, <2>2, <2>3, <2>4
<1> HIDE DEF plain, plain2, gone, tied, head, level, copy
<1>6. QED BY <1>1, <1>2, <1>4, <1>5 DEF copy

\* An order that leaves the list of its level.
LEMMA ShortenedCopied ==
    ASSUME OneTicker, NEW book \in Books, InOrder(book), NEW key \in Live(book)
    PROVE  Shortened(CopyOf(book), key[2] + 1) = CopyOf(Shortened(book, key))
<1> DEFINE order  == book.orders[key]
           index  == priceToIndex(order.price)
           list   == book.levels[index].orders
           others == Unlinked(list, key)
           copy   == CopyOf(book)
           id     == key[2] + 1
<1>1. /\ ~Dangles(book) /\ key \in Keys /\ order \in OrderRecords /\ order.side \in Sides
      /\ index \in Levels(book) /\ InTime(book) /\ \E n \in DOMAIN list : list[n] = key
  BY BookFields DEF InOrder, Filed, OrderRecords
<1>2. PICK m \in DOMAIN list : list[m] = key
  BY <1>1
<1>3. list \in Seq(Keys) /\ \A i, j \in DOMAIN list : list[i] = list[j] => i = j
  <2> HIDE DEF index
  <2>1. QED BY <1>1, LevelFields, InTimeDistinct
<1>4. copy.orders[id].side = order.side /\ copy.orders[id].price = order.price
  BY <1>1, BookOrders, OrderCopied DEF Live
<1>5. copy.levels[index].orders = Ids(list)
  BY <1>1, BookLevels
<1> HIDE DEF list
<1>6. others \in Seq(Keys) /\ Unlinked(Ids(list), id) = Ids(others)
      /\ (Ids(others) = << >> <=> others = << >>)
  <2>1. others \in Seq(Keys)
    BY <1>2, <1>3, UnlinkedParts
  <2>2. Unlinked(Ids(list), id) = Ids(others)
    BY <1>2, <1>3, UnlinkedCopied
  <2>3. QED BY <2>1, <2>2, IdsMeans
<1> HIDE DEF others, order, copy, id
<1>7. /\ Shortened(book, key)
            = IF others = << >> THEN removeOrdersAtPrice(book, order.side, order.price)
              ELSE WithList(book, index, others)
      /\ Shortened(copy, id)
            = IF others = << >> THEN removeOrdersAtPrice(copy, order.side, order.price)
              ELSE WithList(copy, index, Ids(others))
  <2>1. Shortened(book, key)
            = IF others = << >> THEN removeOrdersAtPrice(book, order.side, order.price)
              ELSE WithList(book, index, others)
    BY DEF Shortened, WithList, others, order, list
  <2>2. Shortened(copy, id)
            = IF Unlinked(copy.levels[index].orders, id) = << >>
              THEN removeOrdersAtPrice(copy, order.side, order.price)
              ELSE WithList(copy, index, Unlinked(copy.levels[index].orders, id))
    BY <1>4 DEF Shortened, WithList
  <2>3. QED BY <1>5, <1>6, <2>1, <2>2
<1>8. CASE others = << >>
  BY <1>1, <1>7, <1>8, RemoveLevelCopied DEF copy, id
<1>9. CASE others # << >>
  BY <1>1, <1>6, <1>7, <1>9, ListCopied DEF copy, id
<1>10. QED BY <1>8, <1>9

\* An order that leaves a book leaves the copy.
LEMMA RemoveOrderCopied ==
    ASSUME OneTicker, NEW book \in Books, InOrder(book), NEW key \in Live(book)
    PROVE  removeOrder(CopyOf(book), key[2] + 1) = CopyOf(removeOrder(book, key))
<1> DEFINE id      == key[2] + 1
           short   == Shortened(book, key)
           result  == WithOrder(short, key, Null)
           short2  == Shortened(CopyOf(book), id)
           result2 == WithOrder(short2, id, Null)
<1>1. /\ removeOrder(book, key) = [result EXCEPT !.fault = @ \/ Dangles(result)]
      /\ removeOrder(CopyOf(book), id) = [result2 EXCEPT !.fault = @ \/ Dangles(result2)]
  BY DEF removeOrder, Shortened, WithOrder
<1>2. short2 = CopyOf(short)
  BY ShortenedCopied
<1>3. short \in Books /\ key \in Keys
  BY ShortenedLists, BookFields DEF SameOrders
<1> HIDE DEF short, short2
<1>4. result2 = CopyOf(result)
  BY <1>2, <1>3, EntryCopied
<1>5. result \in Books
  BY <1>3 DEF WithOrder, Books
<1> HIDE DEF result, result2
<1> DEFINE f == result.fault \/ Dangles(result)
<1>6. /\ removeOrder(book, key) = [result EXCEPT !.fault = f]
      /\ removeOrder(CopyOf(book), id) = [CopyOf(result) EXCEPT !.fault = f]
  <2>1. CopyOf(result).fault = result.fault /\ (Dangles(CopyOf(result)) <=> Dangles(result))
    BY <1>5, CopyFields, DanglesCopied
  <2>2. (CopyOf(result).fault \/ Dangles(CopyOf(result))) = f
    BY <2>1
  <2>3. QED BY <1>1, <1>4, <2>2
<1> HIDE DEF f
<1>7. CopyOf([result EXCEPT !.fault = f]) = [CopyOf(result) EXCEPT !.fault = f]
  BY <1>5, CopyChanges DEF Sides
<1>8. QED BY <1>6, <1>7

\* What is left of an order does not matter when it leaves.
LEMMA RemovedAlike ==
    ASSUME NEW book \in Books, InOrder(book), NEW key \in Live(book),
           NEW order \in OrderRecords, order.price = book.orders[key].price,
           order.side = book.orders[key].side
    PROVE  removeOrder(WithOrder(book, key, order), key) = removeOrder(book, key)
<1> DEFINE map    == [book.orders EXCEPT ![key] = order]
           other  == WithOrder(book, key, order)
           old    == book.orders[key]
           index  == priceToIndex(old.price)
           side   == old.side
           others == Unlinked(book.levels[index].orders, key)
           level  == book.levels[index]
           with(b) == [b EXCEPT !.orders = map]
           short  == Shortened(book, key)
           short2 == Shortened(other, key)
<1>1. /\ key \in Keys /\ old \in OrderRecords /\ side \in Sides
      /\ DOMAIN book.orders = Keys
  BY BookFields DEF OrderRecords
<1>2. /\ other = with(book) /\ other.orders[key] = order
      /\ other.levels = book.levels /\ other.bids = book.bids /\ other.asks = book.asks
  BY <1>1 DEF WithOrder, Books
<1>3. \A L : [other EXCEPT !.levels = L] = with([book EXCEPT !.levels = L])
  BY <1>2 DEF Books
<1>4. ASSUME NEW L, NEW h
      PROVE  SetBest([other EXCEPT !.levels = L], side, h)
                = with(SetBest([book EXCEPT !.levels = L], side, h))
  <2>1. CASE side = "BUY"
    BY <1>2, <2>1 DEF SetBest, Books
  <2>2. CASE side # "BUY"
    BY <1>2, <2>2 DEF SetBest, Books
  <2>3. QED BY <2>1, <2>2
<1>5. short2 = with(short)
  <2> DEFINE tied == [Link(book.levels, level.prev, level.next) EXCEPT ![index] = Null]
             gone == [book.levels EXCEPT ![index] = Null]
             list == [book.levels EXCEPT ![index].orders = others]
             best == Best(book, side)
             plain(b, L) == [b EXCEPT !.levels = L]
             parts(b) == IF others = << >>
                         THEN IF level.next = index THEN SetBest(plain(b, gone), side, Null)
                              ELSE SetBest(plain(b, tied), side,
                                           IF index = best THEN level.next ELSE best)
                         ELSE plain(b, list)
  <2>1. short = parts(book)
    <3>1. /\ [book EXCEPT !.levels[index] = Null] = plain(book, gone)
          /\ [book EXCEPT !.levels[index].orders = others] = plain(book, list)
      BY DEF Books
    <3> HIDE DEF gone, list, others
    <3>2. short = IF others = << >>
                  THEN IF level.next = index
                       THEN SetBest([book EXCEPT !.levels[index] = Null], side, Null)
                       ELSE SetBest(plain(book, tied), side,
                                    IF index = best THEN level.next ELSE best)
                  ELSE [book EXCEPT !.levels[index].orders = others]
      BY DEF Shortened, removeOrdersAtPrice, others
    <3> HIDE DEF short, tied, best, plain
    <3>3. QED BY <3>1, <3>2
  <2>2. short2 = parts(other)
    <3>1. /\ [other EXCEPT !.levels[index] = Null] = plain(other, gone)
          /\ [other EXCEPT !.levels[index].orders = others] = plain(other, list)
      BY <1>2 DEF Books
    <3> HIDE DEF gone, list, others
    <3>2. Best(other, side) = best
      BY <1>2 DEF Best
    <3>3. short2 = IF others = << >>
                   THEN IF level.next = index
                        THEN SetBest([other EXCEPT !.levels[index] = Null], side, Null)
                        ELSE SetBest(plain(other, tied), side,
                                     IF index = best THEN level.next ELSE best)
                   ELSE [other EXCEPT !.levels[index].orders = others]
      <4>1. other.orders[key].price = old.price /\ other.orders[key].side = side
            /\ other.levels = book.levels
        BY <1>2
      <4> HIDE DEF other, best, old
      <4>2. short2 = IF Unlinked(other.levels[index].orders, key) = << >>
                     THEN removeOrdersAtPrice(other, side, old.price)
                     ELSE [other EXCEPT !.levels[index].orders
                              = Unlinked(other.levels[index].orders, key)]
        BY <4>1 DEF Shortened
      <4>3. removeOrdersAtPrice(other, side, old.price)
               = IF level.next = index
                 THEN SetBest([other EXCEPT !.levels[index] = Null], side, Null)
                 ELSE SetBest(plain(other, tied), side,
                              IF index = best THEN level.next ELSE best)
        BY <3>2, <4>1 DEF removeOrdersAtPrice
      <4> HIDE DEF short2, tied, plain
      <4>4. QED BY <4>1, <4>2, <4>3 DEF others
    <3> HIDE DEF short2, tied, best, plain, other
    <3>4. QED BY <3>1, <3>3
  <2> HIDE DEF gone, tied, list, best, others, level, short, short2
  <2>3. /\ \A L, h : SetBest(plain(other, L), side, h) = with(SetBest(plain(book, L), side, h))
        /\ \A L : plain(other, L) = with(plain(book, L))
    BY <1>3, <1>4
  <2> HIDE DEF plain, with, other
  <2>4. QED BY <2>1, <2>2, <2>3
<1>6. short \in Books /\ short.orders = book.orders
  BY ShortenedLists DEF SameOrders
<1> HIDE DEF short, short2, other
<1>7. WithOrder(short2, key, Null) = WithOrder(short, key, Null)
  <2>1. [map EXCEPT ![key] = Null] = [book.orders EXCEPT ![key] = Null]
    BY <1>1
  <2>2. WithOrder(short2, key, Null) = [short EXCEPT !.orders = [map EXCEPT ![key] = Null]]
    BY <1>5, <1>6 DEF WithOrder, Books
  <2>3. WithOrder(short, key, Null) = [short EXCEPT !.orders = [book.orders EXCEPT ![key] = Null]]
    BY <1>6 DEF WithOrder, Books
  <2>4. QED BY <2>1, <2>2, <2>3
<1>8. \A b, k : removeOrder(b, k) = LET r == WithOrder(Shortened(b, k), k, Null)
                                    IN  [r EXCEPT !.fault = @ \/ Dangles(r)]
  BY DEF removeOrder, Shortened, WithOrder
<1>9. QED BY <1>7, <1>8 DEF short, short2, other

\* A fill shows in the copy when it handles the update of it.
LEMMA FillCopied ==
    ASSUME OneTicker, NEW book \in Books, InOrder(book), NEW key \in Live(book),
           NEW fill \in Nat, fill <= book.orders[key].qty
    PROVE  LET id   == key[2] + 1
               left == book.orders[key].qty - fill
               copy == CopyOf(book)
           IN  CopyOf(Fill(book, key, fill))
                  = IF left = 0 THEN removeOrder(copy, id)
                    ELSE [copy EXCEPT !.orders[id].qty = left]
<1> DEFINE id    == key[2] + 1
           left  == book.orders[key].qty - fill
           copy  == CopyOf(book)
           order == [book.orders[key] EXCEPT !.qty = left]
           book1 == WithOrder(book, key, order)
<1>1. /\ key \in Keys /\ left \in Nat /\ book.orders[key] \in OrderRecords
      /\ book.orders[key] # Null
  BY BookFields, NullAssumption DEF OrderRecords
<1>2. /\ order \in OrderRecords /\ order.price = book.orders[key].price
      /\ order.side = book.orders[key].side
      /\ OrderCopy(order) = [OrderCopy(book.orders[key]) EXCEPT !.qty = left]
  BY <1>1 DEF OrderRecords, OrderCopy
<1>3. Fill(book, key, fill) = IF left = 0 THEN removeOrder(book1, key) ELSE book1
  <2>1. [book EXCEPT !.orders[key].qty = left] = book1
    BY <1>1, BookFields DEF WithOrder, Books
  <2> HIDE DEF book1, left
  <2>2. QED BY <2>1 DEF Fill, left
<1>4. [copy EXCEPT !.orders[id].qty = left]
         = WithOrder(copy, id, [copy.orders[id] EXCEPT !.qty = left])
  BY DEF WithOrder
<1>5. copy.orders[id] = OrderCopy(book.orders[key])
  BY <1>1, BookOrders
<1> HIDE DEF order, copy, left, id
<1>6. CASE left = 0
  <2>1. removeOrder(book1, key) = removeOrder(book, key)
    BY <1>2, RemovedAlike
  <2>2. removeOrder(copy, id) = CopyOf(removeOrder(book, key))
    BY RemoveOrderCopied DEF copy, id
  <2>3. QED BY <1>3, <1>6, <2>1, <2>2 DEF left, copy, id
<1>7. CASE left # 0
  <2>1. CopyOf(book1) = WithOrder(copy, id, OrderCopy(order))
    BY <1>1, <1>2, EntryCopied DEF copy, id
  <2> HIDE DEF book1
  <2>2. QED BY <1>2, <1>3, <1>4, <1>5, <1>7, <2>1 DEF left, copy, id
<1>8. QED BY <1>6, <1>7

-----------------------------------------------------------------------------
(* Quotes.                                                                 *)

\* The number of an order among those of its client, and a list in that order.
Turn(key) == key[2]
Turns(list) == \A m, n \in DOMAIN list : m < n => Turn(list[m]) < Turn(list[n])

\* One list goes at least as far as another one that has its orders in turn.
LEMMA TurnsAlike ==
    ASSUME NEW s \in Seq(Keys), NEW t \in Seq(Keys), Turns(s), Turns(t),
           \A n \in DOMAIN s : \E m \in DOMAIN t : t[m] = s[n],
           \A m \in DOMAIN t : \E n \in DOMAIN s : s[n] = t[m]
    PROVE  \A n \in DOMAIN s : n \in DOMAIN t /\ t[n] = s[n]
<1> DEFINE Bad == {n \in DOMAIN s : ~(n \in DOMAIN t /\ t[n] = s[n])}
<1>0. /\ Len(s) \in Nat /\ DOMAIN s = 1 .. Len(s) /\ Len(t) \in Nat /\ DOMAIN t = 1 .. Len(t)
      /\ \A n \in DOMAIN s : Turn(s[n]) \in Nat
      /\ \A n \in DOMAIN t : Turn(t[n]) \in Nat
  BY KeyParts DEF Turn
<1>1. Bad = {}
  <2>1. SUFFICES ASSUME Bad # {} PROVE FALSE
    OBVIOUS
  <2>2. PICK x \in Bad : \A y \in Bad : x <= y
    <3>1. Bad \in SUBSET Nat
      BY <1>0
    <3> HIDE DEF Bad
    <3>2. QED BY <2>1, <3>1, Least
  <2>3. x \in DOMAIN s /\ ~(x \in DOMAIN t /\ t[x] = s[x])
    OBVIOUS
  <2>4. ASSUME NEW y \in DOMAIN s, y < x PROVE y \in DOMAIN t /\ t[y] = s[y]
    <3>1. y \notin Bad
      BY <1>0, <2>2, <2>3, <2>4
    <3>2. QED BY <3>1
  <2> HIDE DEF Bad
  <2>5. PICK m \in DOMAIN t : t[m] = s[x]
    BY <2>3
  <2>6. ~(m < x)
    <3>1. SUFFICES ASSUME m < x PROVE FALSE
      OBVIOUS
    <3>2. m \in DOMAIN s
      BY <1>0, <2>3, <3>1
    <3>3. s[m] = s[x] /\ Turn(s[m]) < Turn(s[x])
      BY <2>3, <2>4, <2>5, <3>1, <3>2 DEF Turns
    <3>4. QED BY <1>0, <2>3, <3>3
  <2>7. x \in DOMAIN t /\ x < m
    BY <1>0, <2>3, <2>5, <2>6
  <2>8. PICK o \in DOMAIN s : s[o] = t[x]
    BY <2>7
  <2>9. Turn(s[o]) < Turn(s[x])
    BY <2>5, <2>7, <2>8 DEF Turns
  <2>10. o < x
    <3>1. x < o => Turn(s[x]) < Turn(s[o])
      BY <2>3 DEF Turns
    <3>2. /\ x \in Int /\ o \in Int
          /\ Turn(s[x]) \in Int /\ Turn(s[o]) \in Int
      BY <1>0, <2>3
    <3>3. x # o
      BY <2>9, <3>2
    <3>4. QED BY <2>9, <3>1, <3>2, <3>3
  <2>11. t[o] = t[x] /\ Turn(t[o]) < Turn(t[x])
    BY <2>4, <2>7, <2>8, <2>10 DEF Turns
  <2>12. QED BY <1>0, <2>7, <2>11
<1>2. QED BY <1>1

\* Two lists that have the same orders in turn are the same.
LEMMA SameTurns ==
    ASSUME NEW s \in Seq(Keys), NEW t \in Seq(Keys), Turns(s), Turns(t),
           \A n \in DOMAIN s : \E m \in DOMAIN t : t[m] = s[n],
           \A m \in DOMAIN t : \E n \in DOMAIN s : s[n] = t[m]
    PROVE  s = t
<1>1. \A n \in DOMAIN s : n \in DOMAIN t /\ t[n] = s[n]
  BY TurnsAlike
<1>2. \A n \in DOMAIN t : n \in DOMAIN s /\ s[n] = t[n]
  BY TurnsAlike
<1>3. s = [n \in DOMAIN s |-> s[n]] /\ t = [n \in DOMAIN t |-> t[n]]
  OBVIOUS
<1>4. QED BY <1>1, <1>2, <1>3

\* What an order that comes, trades or leaves does to the quote of a side it is
\* not on, or where it is behind the best price: nothing.
LEMMA QuoteStays ==
    ASSUME NEW book \in Books, InOrder(book), InLine(book),
           NEW after \in Books, InOrder(after), InLine(after),
           NEW key \in Keys, \A k \in Keys : k # key => after.orders[k] = book.orders[k],
           NEW side \in Sides, NEW from \in Sides, NEW price \in Nat,
           key \in Live(book) => /\ book.orders[key].side = from
                                 /\ book.orders[key].price = price,
           key \in Live(after) => /\ after.orders[key].side = from
                                  /\ after.orders[key].price = price,
           Best(book, side) # Null,
           from # side \/ GoesAfter(side, price, book.levels[Best(book, side)])
    PROVE  Quote(after, side) = Quote(book, side)
<1> DEFINE best == Best(book, side)
           cost(b, i) == Cost(side, b.levels[i].price)
<1>1. /\ best \in SidePrices(book, side) /\ best \in Levels(book)
      /\ book.levels[best].side = side
      /\ \A i \in SidePrices(book, side) : cost(book, best) <= cost(book, i)
  <2>1. SideRing(book, side)
    BY DEF InLine, Rings, Sides
  <2>2. QED BY <2>1, RingMeans
<1>2. /\ book.levels[best].price \in Nat /\ book.levels[best].orders \in Seq(Keys)
      /\ priceToIndex(book.levels[best].price) = best
      /\ book.levels[best].orders # << >>
  BY <1>1, LevelFields DEF InLine, Rings, LevelsPlaced, InOrder, Filed
<1> HIDE DEF best
<1>3. ~(from = side /\ price = book.levels[best].price)
  BY <1>2, CostMeans DEF best
<1>4. \A k \in Keys : k # key => (k \in Live(after) <=> k \in Live(book))
  BY BookFields DEF Live
<1>5. ASSUME NEW k \in Live(book), book.orders[k].side = side,
             book.orders[k].price = book.levels[best].price
      PROVE  k \in Keys /\ k # key /\ k \in Live(after) /\ after.orders[k] = book.orders[k]
  BY <1>3, <1>4, <1>5, BookFields
<1>6. ASSUME NEW k \in Live(after), after.orders[k].side = side,
             after.orders[k].price = book.levels[best].price
      PROVE  k \in Keys /\ k # key /\ k \in Live(book) /\ after.orders[k] = book.orders[k]
  BY <1>3, <1>4, <1>6, BookFields
<1>7. ASSUME NEW n \in DOMAIN book.levels[best].orders
      PROVE  LET k == book.levels[best].orders[n]
             IN  /\ k \in Keys /\ k # key /\ k \in Live(after) /\ after.orders[k] = book.orders[k]
                 /\ best \in Levels(after) /\ after.levels[best].side = side
                 /\ after.levels[best].price = book.levels[best].price
                 /\ \E m \in DOMAIN after.levels[best].orders : after.levels[best].orders[m] = k
  <2> DEFINE k == book.levels[best].orders[n]
  <2>1. /\ k \in Live(book) /\ book.orders[k].side = side
        /\ book.orders[k].price = book.levels[best].price
    BY <1>1 DEF InOrder, Filed, InLine, OrdersPlaced
  <2> HIDE DEF k
  <2>2. k \in Keys /\ k # key /\ k \in Live(after) /\ after.orders[k] = book.orders[k]
    BY <1>5, <2>1
  <2>3. /\ best \in Levels(after) /\ after.levels[best].side = side
        /\ after.levels[best].price = book.levels[best].price
        /\ \E m \in DOMAIN after.levels[best].orders : after.levels[best].orders[m] = k
    BY <1>2, <2>1, <2>2, LevelOfOrder
  <2>4. QED BY <2>2, <2>3 DEF k
<1>8. /\ best \in Levels(after) /\ best \in SidePrices(after, side)
      /\ after.levels[best].side = side
      /\ after.levels[best].price = book.levels[best].price
      /\ after.levels[best].orders \in Seq(Keys)
  <2>1. 1 \in DOMAIN book.levels[best].orders
    BY <1>2
  <2>2. QED BY <1>7, <2>1, LevelFields
<1>9. ASSUME NEW n \in DOMAIN after.levels[best].orders
      PROVE  LET k == after.levels[best].orders[n]
             IN  \E m \in DOMAIN book.levels[best].orders : book.levels[best].orders[m] = k
  <2> DEFINE k == after.levels[best].orders[n]
  <2>1. /\ k \in Live(after) /\ after.orders[k].side = side
        /\ after.orders[k].price = book.levels[best].price
    BY <1>8 DEF InOrder, Filed, InLine, OrdersPlaced
  <2> HIDE DEF k
  <2>2. k \in Live(book) /\ after.orders[k] = book.orders[k]
    BY <1>6, <2>1
  <2>3. \E m \in DOMAIN book.levels[best].orders : book.levels[best].orders[m] = k
    BY <1>2, <2>1, <2>2, LevelOfOrder
  <2>4. QED BY <2>3 DEF k
<1>10. after.levels[best].orders = book.levels[best].orders
  <2> DEFINE s == book.levels[best].orders
             t == after.levels[best].orders
  <2>1. Turns(s) /\ Turns(t)
    BY <1>1, <1>8 DEF InOrder, InTime, Turns, Turn
  <2>2. /\ \A n \in DOMAIN s : \E m \in DOMAIN t : t[m] = s[n]
        /\ \A m \in DOMAIN t : \E n \in DOMAIN s : s[n] = t[m]
    BY <1>7, <1>9
  <2>3. s \in Seq(Keys) /\ t \in Seq(Keys)
    BY <1>2, <1>8
  <2> HIDE DEF s, t
  <2>4. s = t
    BY <2>1, <2>2, <2>3, SameTurns
  <2>5. QED BY <2>4 DEF s, t
<1>11. Best(after, side) = best
  <2> DEFINE head == Best(after, side)
  <2>1. SideRing(after, side)
    BY DEF InLine, Rings, Sides
  <2>2. /\ head \in SidePrices(after, side) /\ head \in Levels(after)
        /\ after.levels[head].side = side /\ cost(after, head) <= cost(after, best)
        /\ cost(after, head) = cost(after, best) => head = best
    BY <1>8, <2>1, RingMeans
  <2> HIDE DEF head
  <2>3. /\ after.levels[head].price \in Nat /\ after.levels[head].orders \in Seq(Keys)
        /\ after.levels[head].orders # << >>
    BY <2>2, LevelFields DEF InOrder, Filed
  <2> DEFINE k == after.levels[head].orders[1]
  <2>4. /\ k \in Live(after) /\ k \in Keys /\ after.orders[k].side = side
        /\ after.orders[k].price = after.levels[head].price
    <3>1. 1 \in DOMAIN after.levels[head].orders
      BY <2>3
    <3>2. QED BY <2>2, <3>1, BookFields DEF InOrder, Filed, InLine, OrdersPlaced
  <2> HIDE DEF k
  <2>5. /\ cost(book, best) \in Int /\ cost(after, head) \in Int
        /\ cost(after, best) = cost(book, best)
    BY <1>2, <1>8, <2>3, CostMeans
  <2>6. CASE k = key
    <3>1. from = side /\ price = after.levels[head].price
      BY <2>4, <2>6
    <3>2. Cost(side, book.levels[best].price) < Cost(side, price)
      BY <1>2, <3>1, CostMeans DEF best
    <3>3. QED BY <2>2, <2>5, <3>1, <3>2
  <2>7. CASE k # key
    <3>1. k \in Live(book) /\ after.orders[k] = book.orders[k]
      BY <1>4, <2>4, <2>7
    <3> DEFINE i == priceToIndex(book.orders[k].price)
    <3>2. i \in Levels(book) /\ book.levels[i].price = after.levels[head].price
          /\ book.levels[i].side = side
      BY <2>4, <3>1, LevelOfOrder
    <3> HIDE DEF i
    <3>3. cost(book, best) <= cost(book, i)
      BY <1>1, <3>2 DEF SidePrices
    <3>4. cost(book, i) = cost(after, head)
      BY <3>2
    <3> HIDE DEF cost
    <3>5. QED BY <2>2, <2>5, <3>3, <3>4 DEF head
  <2>8. QED BY <2>6, <2>7 DEF head
<1>12. LevelQtys(after, best) = LevelQtys(book, best)
  <2>1. \A n \in DOMAIN book.levels[best].orders :
           after.orders[book.levels[best].orders[n]] = book.orders[book.levels[best].orders[n]]
    BY <1>7
  <2>2. QED BY <1>10, <2>1 DEF LevelQtys
<1>13. QED BY <1>8, <1>11, <1>12 DEF Quote, best

\* The quotes of a book and of its copy.
LEMMA QuoteCopied ==
    ASSUME OneTicker, NEW book \in Books, InOrder(book), NEW side \in Sides
    PROVE  Quote(CopyOf(book), side) = Quote(book, side)
<1> DEFINE best == Best(book, side)
<1>1. Best(CopyOf(book), side) = best
  BY CopyFields
<1>2. CASE best = Null
  BY <1>1, <1>2 DEF Quote
<1>3. CASE best # Null
  <2>1. best \in Levels(book)
    BY <1>3, TiedMeans DEF Best, InOrder
  <2> DEFINE list == book.levels[best].orders
  <2>2. /\ CopyOf(book).levels[best].price = book.levels[best].price
        /\ CopyOf(book).levels[best].orders = Ids(list)
    BY <2>1, BookLevels
  <2>3. list \in Seq(Keys) /\ \A n \in DOMAIN list : list[n] \in Live(book) /\ list[n] \in Keys
    BY <2>1, LevelFields, BookFields DEF InOrder, Filed
  <2> HIDE DEF list, best
  <2>4. DOMAIN Ids(list) = DOMAIN list /\ \A n \in DOMAIN list : Ids(list)[n] = list[n][2] + 1
    BY <2>3, IdsMeans
  <2>5. \A n \in DOMAIN list :
           CopyOf(book).orders[Ids(list)[n]].qty = book.orders[list[n]].qty
    BY <2>3, <2>4, BookOrders
  <2>6. LevelQtys(CopyOf(book), best) = LevelQtys(book, best)
    BY <2>2, <2>4, <2>5 DEF LevelQtys, list
  <2>7. QED BY <1>1, <1>3, <2>2, <2>6 DEF Quote, best
<1>4. QED BY <1>2, <1>3

\* What becomes of the quotes with an update.
LEMMA QuotesFollow ==
    ASSUME OneTicker, NEW book \in Books, InOrder(book), InLine(book),
           NEW after \in Books, InOrder(after), InLine(after),
           NEW key \in Keys, \A k \in Keys : k # key => after.orders[k] = book.orders[k],
           NEW update, update.side \in Sides, update.price \in Nat,
           key \in Live(book) => /\ book.orders[key].side = update.side
                                 /\ book.orders[key].price = update.price,
           key \in Live(after) => /\ after.orders[key].side = update.side
                                  /\ after.orders[key].price = update.price,
           NEW side \in Sides, NEW quote, quote # Null => quote = Quote(book, side)
    PROVE  LET shown == IF QuoteUpdated(CopyOf(book), side, update)
                        THEN Quote(CopyOf(after), side) ELSE quote
           IN  shown # Null => shown = Quote(after, side)
<1> DEFINE copy == CopyOf(book)
           best == Best(book, side)
<1>1. CASE QuoteUpdated(copy, side, update)
  BY <1>1, QuoteCopied
<1>2. CASE ~QuoteUpdated(copy, side, update) /\ quote # Null
  <2>1. best # Null
    BY <1>2 DEF Quote, NoQuote
  <2>2. best \in Levels(book)
    BY <2>1, TiedMeans DEF Best, InOrder
  <2>3. Best(copy, side) = best
    BY CopyFields
  <2>4. copy.levels[best].price = book.levels[best].price
    BY <2>2, BookLevels
  <2>5. update.side # side \/ GoesAfter(side, update.price, copy.levels[best])
    BY <1>2, <2>1, <2>3 DEF QuoteUpdated
  <2>6. update.side # side \/ GoesAfter(side, update.price, book.levels[best])
    BY <2>4, <2>5 DEF GoesAfter
  <2> DEFINE from  == update.side
             price == update.price
  <2>7. /\ from \in Sides /\ price \in Nat
        /\ key \in Live(book) => book.orders[key].side = from /\ book.orders[key].price = price
        /\ key \in Live(after) => after.orders[key].side = from /\ after.orders[key].price = price
        /\ from # side \/ GoesAfter(side, price, book.levels[best])
    BY <2>6
  <2> HIDE DEF from, price
  <2>8. Quote(after, side) = Quote(book, side)
    BY <2>1, <2>7, QuoteStays
  <2>9. QED BY <1>2, <2>8
<1>3. QED BY <1>1, <1>2

-----------------------------------------------------------------------------
(* The engine and a client.                                                *)

\* The ids that are given out are ids of the client's hash map.
IdsGiven ==
    /\ \A c \in Clients : EngineBook.next_market_order_id_
                             = IF DistinctIds THEN next_order_id[c] + 1 ELSE 1
    /\ taker # Null => taker.market_order_id \in MarketIds

\* The client's hash map leads from the id of every order to its object.
Files(book, files) ==
    /\ files \in [MarketIds -> Objects \cup {Null}]
    /\ \A k \in Live(book) :
          /\ book.orders[k].market_order_id \in MarketIds
          /\ files[book.orders[k].market_order_id] = ObjectOf(k)

FilesMatch == Files(EngineBook, oid_to_order_)

\* The replica is the copy, and a quote that is shown is that of the book.
ReplicaFollows == replica = CopyOf(EngineBook)

QuotesShown ==
    ~EngineBook.fault =>
        \A s \in Sides : bbo_[s] # NoQuote => bbo_[s] = Quote(EngineBook, s)

ClientAgrees == FilesMatch /\ ReplicaFollows /\ QuotesShown

\* The inductive invariant.
ClientInv ==
    /\ SortedInv /\ IdsGiven
    /\ overwritten \/ spoiled[0] \/ ClientAgrees

\* An order comes under an id that is free.
LEMMA FilesAdded ==
    ASSUME OneTicker, NEW old \in Books, NEW book \in Books, NEW files, Files(old, files),
           NEW key \in Keys, \A k \in Keys : k # key => book.orders[k] = old.orders[k],
           NEW id \in MarketIds, files[id] = Null, book.orders[key].market_order_id = id
    PROVE  Files(book, [files EXCEPT ![id] = ObjectOf(key)])
<1> DEFINE more == [files EXCEPT ![id] = ObjectOf(key)]
<1>1. ObjectOf(key) \in Objects /\ files \in [MarketIds -> Objects \cup {Null}]
  BY IdOfKey DEF ObjectOf, Objects, Files
<1>2. more \in [MarketIds -> Objects \cup {Null}]
  BY <1>1
<1>3. ASSUME NEW k \in Live(book)
      PROVE  /\ book.orders[k].market_order_id \in MarketIds
             /\ more[book.orders[k].market_order_id] = ObjectOf(k)
  <2>1. k \in Keys /\ book.orders[k] # Null
    BY BookFields DEF Live
  <2>2. CASE k = key
    BY <1>1, <2>2
  <2>3. CASE k # key
    <3>1. k \in Live(old) /\ book.orders[k] = old.orders[k]
      BY <2>1, <2>3, BookFields DEF Live
    <3>2. /\ old.orders[k].market_order_id \in MarketIds
          /\ files[old.orders[k].market_order_id] = ObjectOf(k)
      BY <3>1 DEF Files
    <3>3. ObjectOf(k) # Null
      BY <2>1, IdOfKey, ClientNullAssumption DEF ObjectOf, Objects
    <3>4. QED BY <1>1, <3>1, <3>2, <3>3
  <2>4. QED BY <2>2, <2>3
<1>4. QED BY <1>2, <1>3 DEF Files

\* An order leaves.
LEMMA FilesRemoved ==
    ASSUME OneTicker, NEW old \in Books, NEW book \in Books, NEW files, Files(old, files),
           NEW key \in Live(old), \A k \in Keys : k # key => book.orders[k] = old.orders[k],
           book.orders[key] = Null
    PROVE  Files(book, [files EXCEPT ![old.orders[key].market_order_id] = Null])
<1> DEFINE id   == old.orders[key].market_order_id
           less == [files EXCEPT ![id] = Null]
<1>1. /\ files \in [MarketIds -> Objects \cup {Null}]
      /\ id \in MarketIds /\ files[id] = ObjectOf(key) /\ key \in Keys
  BY BookFields DEF Files
<1> HIDE DEF id
<1>2. less \in [MarketIds -> Objects \cup {Null}]
  BY <1>1
<1>3. ASSUME NEW k \in Live(book)
      PROVE  /\ book.orders[k].market_order_id \in MarketIds
             /\ less[book.orders[k].market_order_id] = ObjectOf(k)
  <2>1. k \in Keys /\ book.orders[k] # Null /\ k # key
    BY BookFields DEF Live
  <2>2. k \in Live(old) /\ book.orders[k] = old.orders[k]
    BY <2>1, BookFields DEF Live
  <2>3. /\ old.orders[k].market_order_id \in MarketIds
        /\ files[old.orders[k].market_order_id] = ObjectOf(k)
    BY <2>2 DEF Files
  <2>4. ObjectOf(k) # ObjectOf(key)
    BY <1>1, <2>1, IdOfKey DEF ObjectOf
  <2>5. QED BY <1>1, <2>2, <2>3, <2>4
<1>4. QED BY <1>2, <1>3 DEF Files, id

\* Orders keep their ids.
LEMMA FilesKept ==
    ASSUME NEW old, NEW book, NEW files, Files(old, files),
           \A k \in Live(book) :
              /\ k \in Live(old)
              /\ book.orders[k].market_order_id = old.orders[k].market_order_id
    PROVE  Files(book, files)
BY DEF Files

\* A client starts with an empty copy.
LEMMA ClientStart == ASSUME OneTicker, ClientInit PROVE ClientInv
<1> DEFINE empty == EmptyBook(Keys)
<1>1. EngineBook = empty
  BY DEF ClientInit, Init, EngineBook, OneTicker
<1>2. SortedInv
  BY SortedInit DEF ClientInit
<1>3. IdsGiven
  BY <1>1 DEF ClientInit, Init, IdsGiven, EmptyBook
<1>4. ReplicaFollows
  <2>1. \A id \in MarketIds : empty.orders[<<0, id - 1>>] = Null
    <3>1. ASSUME NEW id \in MarketIds PROVE <<0, id - 1>> \in Keys
      <4>1. Clients # {}
        <5>1. SUFFICES ASSUME Clients = {} PROVE FALSE
          OBVIOUS
        <5>2. Cardinality(Clients) = 0
          BY <5>1, FS_EmptySet
        <5>3. QED BY <5>2, OrdersAssumption DEF MarketIds
      <4>2. Clients = {0}
        BY <4>1, ClientsAssumption DEF OneTicker
      <4>3. Cardinality(Clients) = 1
        BY <4>2, FS_Singleton, Zenon
      <4>4. id - 1 \in OrderIds
        BY <4>3, OrdersAssumption DEF MarketIds, OrderIds
      <4>5. QED BY <4>2, <4>4 DEF Keys
    <3>2. QED BY <3>1 DEF EmptyBook
  <2>2. OrdersCopy(empty.orders) = [id \in MarketIds |-> Null]
    BY <2>1 DEF OrdersCopy
  <2>3. LevelsCopy(empty.levels) = [i \in LevelIndices |-> Null]
    BY DEF LevelsCopy, EmptyBook
  <2>4. CopyOf(empty) = EmptyBook(Objects)
    BY <2>2, <2>3 DEF CopyOf, EmptyBook, Objects
  <2>5. QED BY <1>1, <2>4 DEF ReplicaFollows, ClientInit
<1>5. QuotesShown
  BY DEF ClientInit, QuotesShown
<1>6. FilesMatch
  BY <1>1 DEF FilesMatch, Files, ClientInit, EmptyBook, Live
<1>7. QED BY <1>2, <1>3, <1>4, <1>5, <1>6 DEF ClientInv, ClientAgrees

\* What the client does with the one update of a step that is not a trade.
LEMMA UpdateHandled ==
    ASSUME onMarketUpdate, ~replica.fault,
           NEW i, {j \in DOMAIN updates' : updates'[j].type # "TRADE"} = {i}
    PROVE  LET update == updates'[i]
               object == ObjectFor(update)
               next   == Followed(replica, update, object)
           IN  /\ replica' = next
               /\ oid_to_order_' = Refiled(update, object)
               /\ bbo_' = IF next.fault THEN bbo_ ELSE updateBBO(replica, update, next)
               /\ ~overwritten' /\ update.type = "ADD" => oid_to_order_[update.order_id] = Null
               /\ ~overwritten' => ~overwritten
<1>1. (CHOOSE j \in {i} : TRUE) = i
  OBVIOUS
<1>2. QED BY <1>1 DEF onMarketUpdate

\* The invariant of the book of the ticker.
LEMMA TickerBook ==
    ASSUME OneTicker, SortedInv
    PROVE  /\ EngineBook \in Books
           /\ ~EngineBook.fault => InOrder(EngineBook) /\ (~spoiled[0] => InLine(EngineBook))
           /\ \A t \in Tickers : t = 0
           /\ \A c \in Clients : c = 0
<1>1. 0 \in Tickers /\ EngineBook \in Books
  BY DEF OneTicker, SortedInv, EngineInv, TypeOK, EngineBook
<1>2. QED BY <1>1, ClientsAssumption
          DEF OneTicker, SortedInv, EngineInv, BooksInOrder, BooksInLine, EngineBook

\* The client follows the book when it makes of an update what the engine does.
LEMMA ClientFollows ==
    ASSUME OneTicker, SortedInv, ClientAgrees, ~spoiled[0],
           SortedInv', ~spoiled'[0], onMarketUpdate, ~EngineBook.fault,
           NEW i, {j \in DOMAIN updates' : updates'[j].type # "TRADE"} = {i},
           NEW update, update = updates'[i], update.side \in Sides, update.price \in Nat,
           NEW book, book = ticker_order_book_'[0],
           Followed(CopyOf(EngineBook), update, ObjectFor(update)) = CopyOf(book),
           NEW key \in Keys, \A k \in Keys : k # key => book.orders[k] = EngineBook.orders[k],
           key \in Live(EngineBook) => /\ EngineBook.orders[key].side = update.side
                                       /\ EngineBook.orders[key].price = update.price,
           key \in Live(book) => /\ book.orders[key].side = update.side
                                 /\ book.orders[key].price = update.price
    PROVE  /\ ReplicaFollows' /\ QuotesShown'
           /\ oid_to_order_' = Refiled(update, ObjectFor(update))
           /\ ~overwritten' /\ update.type = "ADD" => oid_to_order_[update.order_id] = Null
<1> DEFINE old == EngineBook
<1>1. /\ old \in Books /\ InOrder(old) /\ InLine(old) /\ replica = CopyOf(old) /\ ~replica.fault
      /\ \A s \in Sides : bbo_[s] # Null => bbo_[s] = Quote(old, s)
  BY TickerBook, CopyFields DEF ClientAgrees, ReplicaFollows, QuotesShown, NoQuote
<1>2. /\ EngineBook' = book /\ book \in Books
      /\ ~book.fault => InOrder(book) /\ InLine(book)
  BY DEF OneTicker, SortedInv, EngineInv, TypeOK, BooksInOrder, BooksInLine, EngineBook
<1>3. /\ replica' = CopyOf(book)
      /\ oid_to_order_' = Refiled(update, ObjectFor(update))
      /\ bbo_' = IF CopyOf(book).fault THEN bbo_ ELSE updateBBO(replica, update, CopyOf(book))
      /\ ~overwritten' /\ update.type = "ADD" => oid_to_order_[update.order_id] = Null
  BY <1>1, UpdateHandled
<1>4. ReplicaFollows'
  BY <1>2, <1>3 DEF ReplicaFollows
<1>5. ASSUME ~book.fault, NEW s \in Sides, bbo_'[s] # Null
      PROVE  bbo_'[s] = Quote(book, s)
  <2>1. bbo_'[s] = IF QuoteUpdated(CopyOf(old), s, update) THEN Quote(CopyOf(book), s) ELSE bbo_[s]
    BY <1>1, <1>3, <1>5, CopyFields DEF updateBBO
  <2> DEFINE quote == bbo_[s]
  <2>2. /\ quote # Null => quote = Quote(old, s)
        /\ old \in Books /\ InOrder(old) /\ InLine(old)
        /\ book \in Books /\ InOrder(book) /\ InLine(book)
        /\ \A k \in Keys : k # key => book.orders[k] = old.orders[k]
        /\ key \in Live(old) => /\ old.orders[key].side = update.side
                                /\ old.orders[key].price = update.price
        /\ key \in Live(book) => /\ book.orders[key].side = update.side
                                 /\ book.orders[key].price = update.price
    BY <1>1, <1>2, <1>5
  <2> HIDE DEF old, quote
  <2>3. LET shown == IF QuoteUpdated(CopyOf(old), s, update)
                     THEN Quote(CopyOf(book), s) ELSE quote
        IN  shown # Null => shown = Quote(book, s)
    BY <2>2, QuotesFollow, SMTT(60)
  <2>4. QED BY <1>5, <2>1, <2>3 DEF quote
<1>6. QuotesShown'
  BY <1>2, <1>5 DEF QuotesShown, NoQuote
<1>7. QED BY <1>3, <1>4, <1>6

\* NEW: nothing is published, and the book has what it had.
LEMMA AddFollowed ==
    ASSUME OneTicker, SortedInv, IdsGiven, SortedInv', onMarketUpdate,
           NEW client \in Clients, NEW ticker \in Tickers, NEW side \in Sides,
           NEW price \in PricesOf(side), NEW qty \in Qtys, add(client, ticker, side, price, qty)
    PROVE  IdsGiven' /\ (ClientAgrees => ClientAgrees')
<1> DEFINE old  == EngineBook
           book == IdTaken(old)
           next == next_order_id[client] + 1
<1>1. /\ client = 0 /\ old \in Books /\ \A c \in Clients : c = client
      /\ old.next_market_order_id_ = IF DistinctIds THEN next ELSE 1
      /\ next_order_id \in [Clients -> 0 .. MaxOrders]
  BY TickerBook DEF IdsGiven, SortedInv, EngineInv, TypeOK
<1>2. /\ taker'.key = <<client, next_order_id[client]>>
      /\ taker'.market_order_id = old.next_market_order_id_
      /\ updates' = << >> /\ SetBook(0, book)
      /\ next_order_id' = [next_order_id EXCEPT ![client] = @ + 1]
      /\ next_order_id[client] < MaxOrders
  BY <1>1 DEF add, BookOf, Send, generateNewMarketOrderId, EngineBook
<1>3. EngineBook' = book
  <2> HIDE DEF book
  <2>1. QED BY <1>2 DEF SetBook, EngineBook, OneTicker, SortedInv, EngineInv, TypeOK
<1>4. /\ book.orders = old.orders /\ book.levels = old.levels /\ book.bids = old.bids
      /\ book.asks = old.asks /\ book.fault = old.fault
      /\ book.next_market_order_id_ = IF DistinctIds THEN next + 1 ELSE 1
  <2>1. CASE DistinctIds
    BY <1>1, <2>1 DEF IdTaken, Books
  <2>2. CASE ~DistinctIds
    BY <1>1, <2>2 DEF IdTaken
  <2>3. QED BY <2>1, <2>2
<1> HIDE DEF book, old
<1>5. replica' = replica /\ bbo_' = bbo_ /\ oid_to_order_' = oid_to_order_
  BY <1>2 DEF onMarketUpdate
<1>6. IdsGiven'
  <2>1. \A c \in Clients :
           book.next_market_order_id_ = IF DistinctIds THEN next_order_id'[c] + 1 ELSE 1
    BY <1>1, <1>2, <1>4
  <2>2. next \in MarketIds /\ 1 \in MarketIds
    <3>1. <<client, next_order_id[client]>> \in Keys
      BY <1>1, <1>2, OrdersAssumption DEF Keys, OrderIds
    <3>2. next \in MarketIds
      BY <3>1, IdOfKey
    <3>3. MarketIds = 1 .. MaxOrders * Cardinality(Clients)
          /\ MaxOrders * Cardinality(Clients) \in Int
      <4>1. Clients = {0}
        BY <1>1
      <4>2. Cardinality(Clients) = 1
        BY <4>1, FS_Singleton, Zenon
      <4>3. QED BY <4>2, OrdersAssumption DEF MarketIds
    <3>4. QED BY <1>1, <3>2, <3>3
  <2>3. taker'.market_order_id \in MarketIds
    BY <1>1, <1>2, <2>2
  <2>4. QED BY <1>3, <2>1, <2>3 DEF IdsGiven
<1>7. ASSUME ClientAgrees PROVE ClientAgrees'
  <2>1. FilesMatch'
    <3>1. Files(old, oid_to_order_)
      BY <1>7 DEF ClientAgrees, FilesMatch, old
    <3>2. Files(book, oid_to_order_)
      BY <1>4, <3>1 DEF Files, Live
    <3>3. QED BY <1>3, <1>5, <3>2 DEF FilesMatch
  <2>2. ReplicaFollows'
    BY <1>3, <1>4, <1>5, <1>7 DEF ClientAgrees, ReplicaFollows, CopyOf, old
  <2>3. QuotesShown'
    <3>1. \A s \in Sides : Quote(book, s) = Quote(old, s)
      BY <1>4 DEF Quote, Best, LevelQtys
    <3>2. QED BY <1>3, <1>4, <1>5, <1>7, <3>1 DEF ClientAgrees, QuotesShown, old
  <2>4. QED BY <2>1, <2>2, <2>3 DEF ClientAgrees
<1>8. QED BY <1>6, <1>7

\* The other steps take no id.
LEMMA IdsStay ==
    ASSUME OneTicker, SortedInv, IdsGiven,
           EngineBook'.next_market_order_id_ = EngineBook.next_market_order_id_,
           next_order_id' = next_order_id,
           taker' # Null => taker # Null /\ taker'.market_order_id = taker.market_order_id
    PROVE  IdsGiven'
BY DEF IdsGiven

\* A fill: a maker that is used up is canceled, another one modified.
LEMMA MatchFollowed ==
    ASSUME OneTicker, SortedInv, IdsGiven, SortedInv', onMarketUpdate, match
    PROVE  /\ IdsGiven'
           /\ ClientAgrees /\ ~spoiled[0] /\ ~spoiled'[0] => ClientAgrees'
<1> DEFINE old    == EngineBook
           key    == Maker(old, taker.side)
           order  == old.orders[key]
           fill   == FillQty(taker.qty, order)
           left   == order.qty - fill
           leaves == taker.qty - fill
           book   == Fill(old, key, fill)
           trade  == Update("TRADE", Invalid, taker.ticker, taker.side, order.price, fill, Invalid)
           update == IF left = 0
                     THEN Update("CANCEL", order.market_order_id, taker.ticker, order.side,
                                 order.price, order.qty, Invalid)
                     ELSE Update("MODIFY", order.market_order_id, taker.ticker, order.side,
                                 order.price, left, order.priority)
<1>1. taker # Null /\ taker \in Takers /\ taker.book = 0 /\ taker.qty \in Nat
  BY TickerBook DEF match, SortedInv, EngineInv, TypeOK, Takers
<1>2. /\ ~old.fault /\ key # Null /\ SetBook(0, book) /\ updates' = <<trade, update>>
      /\ taker' = [taker EXCEPT !.qty = leaves] /\ next_order_id' = next_order_id
  BY <1>1 DEF match, CanMatch, Sound, Send, EngineBook
<1>3. /\ old \in Books /\ InOrder(old) /\ key \in Live(old) /\ key \in Keys
      /\ order \in OrderRecords /\ order.qty \in Nat /\ order.side \in Sides
      /\ order.price \in Nat /\ order # Null
  <2>1. old \in Books /\ InOrder(old)
    BY <1>2, TickerBook
  <2>2. key \in Live(old)
    BY <1>2, <2>1, MakerLives
  <2>3. order \in OrderRecords /\ key \in Keys /\ order # Null
    BY <2>1, <2>2, BookFields, NullAssumption
  <2>4. order.qty \in Nat /\ order.side \in Sides /\ order.price \in Nat
    BY <2>3, OrdersAssumption DEF OrderRecords, Prices
  <2>5. QED BY <2>1, <2>2, <2>3, <2>4
<1>4. fill \in Nat /\ fill <= order.qty
  BY <1>1, <1>3 DEF FillQty
<1> HIDE DEF fill, key
<1>5. Filled(old, book, key, left)
  BY <1>3, <1>4, FillFills
<1>6. CopyOf(book) = IF left = 0 THEN removeOrder(CopyOf(old), key[2] + 1)
                     ELSE [CopyOf(old) EXCEPT !.orders[key[2] + 1].qty = left]
  BY <1>3, <1>4, FillCopied
<1>7. EngineBook' = book /\ ticker_order_book_'[0] = book
  <2> HIDE DEF book
  <2>1. QED BY <1>2 DEF SetBook, EngineBook, OneTicker, SortedInv, EngineInv, TypeOK
<1>8. /\ update.side = order.side /\ update.price = order.price
      /\ update.order_id = order.market_order_id
      /\ update.type = IF left = 0 THEN "CANCEL" ELSE "MODIFY"
      /\ left # 0 => update.qty = left
      /\ trade.type = "TRADE"
  BY DEF Update
<1>9. {j \in DOMAIN updates' : updates'[j].type # "TRADE"} = {2} /\ updates'[2] = update
  <2> HIDE DEF trade, update
  <2>1. DOMAIN updates' = {1, 2} /\ updates'[1] = trade /\ updates'[2] = update
    BY <1>2
  <2>2. QED BY <1>8, <2>1
<1> HIDE DEF trade, update, book
<1>10. /\ book \in Books /\ book.next_market_order_id_ = old.next_market_order_id_
       /\ \A k \in Keys : k # key => book.orders[k] = old.orders[k]
       /\ left = 0 => book.orders[key] = Null
       /\ book.orders[key] # Null =>
             /\ book.orders[key].side = order.side /\ book.orders[key].price = order.price
             /\ book.orders[key].market_order_id = order.market_order_id
  BY <1>3, <1>5 DEF Filled, OrderRecords
<1>11. IdsGiven'
  <2>1. taker'.market_order_id = taker.market_order_id
    BY <1>1, <1>2 DEF Takers
  <2>2. QED BY <1>1, <1>2, <1>7, <1>10, <2>1, IdsStay
<1>12. ASSUME ClientAgrees, ~spoiled[0], ~spoiled'[0] PROVE ClientAgrees'
  <2>1. /\ Files(old, oid_to_order_)
        /\ order.market_order_id \in MarketIds
        /\ oid_to_order_ \in [MarketIds -> Objects \cup {Null}]
        /\ oid_to_order_[order.market_order_id] = key[2] + 1
    BY <1>3, <1>12 DEF ClientAgrees, FilesMatch, Files, ObjectOf
  <2>2. ObjectFor(update) = key[2] + 1 /\ key[2] + 1 # Null
    <3>1. key[2] + 1 # Null
      BY <1>3, IdOfKey, ClientNullAssumption DEF Objects
    <3>2. QED BY <1>8, <2>1, <3>1 DEF ObjectFor
  <2>3. Followed(CopyOf(old), update, ObjectFor(update)) = CopyOf(book)
    BY <1>6, <1>8, <2>2 DEF Followed
  <2>4. key \in Live(book) => /\ book.orders[key].side = update.side
                              /\ book.orders[key].price = update.price
    BY <1>8, <1>10 DEF Live
  <2>5. update.side \in Sides /\ update.price \in Nat
    BY <1>3, <1>8
  <2>6. old.orders[key].side = update.side /\ old.orders[key].price = update.price
    BY <1>8
  <2>7. /\ ReplicaFollows' /\ QuotesShown'
        /\ oid_to_order_' = Refiled(update, ObjectFor(update))
    BY <1>2, <1>3, <1>7, <1>9, <1>10, <1>12, <2>3, <2>4, <2>5, <2>6, ClientFollows
  <2>8. Files(book, oid_to_order_')
    <3>1. CASE left = 0
      <4>1. oid_to_order_' = [oid_to_order_ EXCEPT ![order.market_order_id] = Null]
        BY <1>8, <2>7, <3>1 DEF Refiled
      <4>2. QED BY <1>3, <1>10, <2>1, <3>1, <4>1, FilesRemoved
    <3>2. CASE left # 0
      <4>1. oid_to_order_' = oid_to_order_
        BY <1>8, <2>1, <2>7, <3>2 DEF Refiled
      <4>2. ASSUME NEW k \in Live(book)
            PROVE  /\ k \in Live(old)
                   /\ book.orders[k].market_order_id = old.orders[k].market_order_id
        <5>1. k \in Keys /\ book.orders[k] # Null
          BY <1>10, BookFields DEF Live
        <5>2. QED BY <1>3, <1>10, <5>1, BookFields DEF Live
      <4>3. QED BY <2>1, <4>1, <4>2, FilesKept
    <3>3. QED BY <3>1, <3>2
  <2>9. QED BY <1>7, <2>7, <2>8 DEF ClientAgrees, FilesMatch
<1>13. QED BY <1>11, <1>12

\* The end of NEW: what rests is added to the copy.
LEMMA RestFollowed ==
    ASSUME OneTicker, SortedInv, IdsGiven, SortedInv', onMarketUpdate, rest
    PROVE  /\ IdsGiven'
           /\ ClientAgrees /\ ~spoiled[0] /\ ~spoiled'[0] /\ ~overwritten' => ClientAgrees'
<1> DEFINE old    == EngineBook
           key    == taker.key
           prio   == getNextPriority(old, taker.price)
           order  == [ticker |-> taker.ticker, side |-> taker.side, price |-> taker.price,
                      qty |-> taker.qty, priority |-> prio,
                      market_order_id |-> taker.market_order_id]
           book   == addOrder(old, key, order)
           update == Update("ADD", taker.market_order_id, taker.ticker, taker.side,
                            taker.price, taker.qty, prio)
<1>1. /\ taker # Null /\ taker \in Takers /\ taker.book = 0 /\ key \in Keys
      /\ taker.side \in Sides /\ taker.price \in Nat
      /\ taker.price \in PricesOf(taker.side)
      /\ taker.market_order_id \in MarketIds
      /\ old.orders[key] = Null /\ taker' = Null /\ next_order_id' = next_order_id
  BY TickerBook, OrdersAssumption
     DEF rest, SortedInv, EngineInv, TypeOK, Takers, TakerPriced, TakerIsLast, Prices,
         IdsGiven, EngineBook
<1>2. ~old.fault /\ old \in Books /\ InOrder(old) /\ (~spoiled[0] => InLine(old))
  <2>1. ~old.fault
    BY <1>1 DEF rest, Sound, EngineBook
  <2>2. QED BY <2>1, TickerBook
<1>3. CASE taker.qty = 0
  <2>1. ticker_order_book_' = ticker_order_book_ /\ updates' = << >>
    BY <1>3 DEF rest, Send
  <2>2. replica' = replica /\ bbo_' = bbo_ /\ oid_to_order_' = oid_to_order_
    BY <2>1 DEF onMarketUpdate
  <2>3. EngineBook' = EngineBook
    BY <2>1 DEF EngineBook
  <2>4. IdsGiven'
    BY <1>1, <2>3, IdsStay
  <2>5. ClientAgrees => ClientAgrees'
    BY <2>2, <2>3 DEF ClientAgrees, FilesMatch, ReplicaFollows, QuotesShown
  <2>6. QED BY <2>4, <2>5
<1>4. CASE taker.qty # 0
  <2>1. SetBook(0, book) /\ Added(old, book, key, order)
    BY <1>1, <1>4, RestAdds DEF SortedInv, EngineBook
  <2>2. updates' = <<update>>
    BY <1>1, <1>4 DEF rest, Send, EngineBook
  <2>3. /\ order \in OrderRecords /\ order.side = taker.side /\ order.price = taker.price
        /\ order.market_order_id = taker.market_order_id
        /\ OrderCopy(order) = [side |-> taker.side, price |-> taker.price, qty |-> taker.qty,
                               priority |-> prio]
    <3>1. prio \in Nat \ {0}
      BY <1>1, <1>2, NextPriorityIsNext DEF InOrder, Takers
    <3>2. QED BY <1>1, <3>1 DEF OrderRecords, Takers, OrderCopy
  <2>4. /\ update.side = taker.side /\ update.price = taker.price
        /\ update.order_id = taker.market_order_id /\ update.type = "ADD"
        /\ [side |-> update.side, price |-> update.price, qty |-> update.qty,
            priority |-> update.priority] = OrderCopy(order)
    BY <1>1, <2>3 DEF Update
  <2>5. ObjectFor(update) = key[2] + 1
    BY <2>4 DEF ObjectFor, ObjectOf
  <2>6. spoiled'[0] = (spoiled[0] \/ Spoils(old, taker.side, taker.price))
    BY <1>1, <1>4 DEF rest, SortedInv, EngineInv, TypeOK, OneTicker, EngineBook
  <2> HIDE DEF update, order, key
  <2>7. EngineBook' = book /\ ticker_order_book_'[0] = book
    <3> HIDE DEF book
    <3>1. QED BY <2>1 DEF SetBook, EngineBook, OneTicker, SortedInv, EngineInv, TypeOK
  <2>8. key \notin Live(old)
    BY <1>1 DEF Live
  <2>9. /\ book.orders[key] = order /\ DOMAIN book.orders = Keys /\ book \in Books
        /\ book.next_market_order_id_ = old.next_market_order_id_
        /\ \A k \in Keys : k # key => book.orders[k] = old.orders[k]
    <3> HIDE DEF book
    <3>1. QED BY <1>1, <1>2, <2>1, BookFields DEF Added
  <2>10. IdsGiven'
    BY <1>1, <2>7, <2>9, IdsStay
  <2>11. ASSUME ClientAgrees, ~spoiled[0], ~spoiled'[0], ~overwritten' PROVE ClientAgrees'
    <3>1. Followed(CopyOf(old), update, ObjectFor(update)) = CopyOf(book)
      <4>1. ~Spoils(old, order.side, order.price) /\ InLine(old)
        BY <1>2, <2>3, <2>6, <2>11
      <4>2. addClientOrder(CopyOf(old), key[2] + 1, OrderCopy(order)) = CopyOf(book)
        BY <1>1, <1>2, <2>3, <2>8, <4>1, AddOrderCopied
      <4> HIDE DEF book
      <4>3. QED BY <2>4, <2>5, <4>2 DEF Followed
    <3>2. {j \in DOMAIN updates' : updates'[j].type # "TRADE"} = {1} /\ updates'[1] = update
      BY <2>2, <2>4 DEF update
    <3> HIDE DEF book
    <3>3. /\ update.side \in Sides /\ update.price \in Nat
          /\ key \in Live(book) => /\ book.orders[key].side = update.side
                                   /\ book.orders[key].price = update.price
      BY <1>1, <2>3, <2>4, <2>9
    <3>4. /\ ReplicaFollows' /\ QuotesShown'
          /\ oid_to_order_' = Refiled(update, ObjectFor(update))
          /\ oid_to_order_[update.order_id] = Null
      BY <1>1, <1>2, <2>4, <2>7, <2>8, <2>9, <2>11, <3>1, <3>2, <3>3, ClientFollows
    <3>5. Files(book, oid_to_order_')
      <4>1. oid_to_order_' = [oid_to_order_ EXCEPT ![taker.market_order_id] = ObjectOf(key)]
        BY <2>4, <2>5, <3>4 DEF Refiled, ObjectOf
      <4>2. Files(old, oid_to_order_)
        BY <2>11 DEF ClientAgrees, FilesMatch
      <4>3. book.orders[key].market_order_id = taker.market_order_id
        BY <2>3, <2>9
      <4>4. oid_to_order_[taker.market_order_id] = Null
        BY <2>4, <3>4
      <4>5. QED BY <1>1, <1>2, <2>9, <4>1, <4>2, <4>3, <4>4, FilesAdded
    <3>6. QED BY <2>7, <3>4, <3>5 DEF ClientAgrees, FilesMatch
  <2>12. QED BY <2>10, <2>11
<1>5. QED BY <1>3, <1>4

\* CANCEL: the order leaves the copy too, if it is there.
LEMMA CancelFollowed ==
    ASSUME OneTicker, SortedInv, IdsGiven, SortedInv', onMarketUpdate,
           NEW client \in Clients, NEW order_id \in OrderIds, cancel(client, order_id)
    PROVE  /\ IdsGiven'
           /\ ClientAgrees /\ ~spoiled[0] /\ ~spoiled'[0] => ClientAgrees'
<1> DEFINE old    == EngineBook
           key    == <<client, order_id>>
           order  == old.orders[key]
           book   == removeOrder(old, key)
           update == Update("CANCEL", order.market_order_id, asked[key].ticker, order.side,
                            order.price, 0, order.priority)
<1>1. client = 0 /\ key \in Keys /\ taker' = taker /\ next_order_id' = next_order_id
  BY TickerBook DEF cancel, Keys
<1>2. ~old.fault /\ old \in Books /\ InOrder(old)
  <2>1. ~old.fault
    BY <1>1 DEF cancel, Sound, BookOf, EngineBook
  <2>2. QED BY <2>1, TickerBook
<1>3. IF order = Null THEN ticker_order_book_' = ticker_order_book_ /\ updates' = << >>
      ELSE SetBook(0, book) /\ updates' = <<update>>
  BY <1>1 DEF cancel, BookOf, Send, EngineBook
<1>4. CASE order = Null
  <2>1. replica' = replica /\ bbo_' = bbo_ /\ oid_to_order_' = oid_to_order_
    BY <1>3, <1>4 DEF onMarketUpdate
  <2>2. EngineBook' = EngineBook
    BY <1>3, <1>4 DEF EngineBook
  <2>3. IdsGiven'
    BY <1>1, <2>2, IdsStay
  <2>4. ClientAgrees => ClientAgrees'
    BY <2>1, <2>2 DEF ClientAgrees, FilesMatch, ReplicaFollows, QuotesShown
  <2>5. QED BY <2>3, <2>4
<1>5. CASE order # Null
  <2>1. /\ key \in Live(old) /\ order \in OrderRecords
        /\ order.side \in Sides /\ order.price \in Nat
    <3>1. key \in Live(old)
      BY <1>1, <1>2, <1>5, BookFields DEF Live
    <3>2. order \in OrderRecords
      BY <1>2, <3>1, BookFields
    <3>3. order.side \in Sides /\ order.price \in Nat
      BY <3>2, OrdersAssumption DEF OrderRecords, Prices
    <3>4. QED BY <3>1, <3>2, <3>3
  <2>2. /\ update.side = order.side /\ update.price = order.price
        /\ update.order_id = order.market_order_id /\ update.type = "CANCEL"
    BY DEF Update
  <2> HIDE DEF update, key
  <2>3. EngineBook' = book /\ ticker_order_book_'[0] = book
    <3> HIDE DEF book
    <3>1. QED BY <1>3, <1>5
                 DEF SetBook, EngineBook, OneTicker, SortedInv, EngineInv, TypeOK
  <2>4. Removed(old, book, key)
    BY <1>2, <2>1, RemoveOrderRemoves
  <2>5. {j \in DOMAIN updates' : updates'[j].type # "TRADE"} = {1} /\ updates'[1] = update
    BY <1>3, <1>5, <2>2
  <2>6. removeOrder(CopyOf(old), key[2] + 1) = CopyOf(book)
    BY <1>2, <2>1, RemoveOrderCopied
  <2> HIDE DEF book
  <2>7. /\ book.orders[key] = Null /\ DOMAIN book.orders = Keys /\ book \in Books
        /\ book.next_market_order_id_ = old.next_market_order_id_
        /\ \A k \in Keys : k # key => book.orders[k] = old.orders[k]
    BY <1>1, <1>2, <2>4, BookFields DEF Removed
  <2>8. IdsGiven'
    BY <1>1, <2>3, <2>7, IdsStay
  <2>9. ASSUME ClientAgrees, ~spoiled[0], ~spoiled'[0] PROVE ClientAgrees'
    <3>1. /\ Files(old, oid_to_order_)
          /\ oid_to_order_[order.market_order_id] = key[2] + 1
      BY <2>1, <2>9 DEF ClientAgrees, FilesMatch, Files, ObjectOf
    <3>2. ObjectFor(update) = key[2] + 1 /\ key[2] + 1 # Null
      <4>1. key[2] + 1 # Null
        BY <1>1, IdOfKey, ClientNullAssumption DEF Objects
      <4>2. QED BY <2>2, <3>1, <4>1 DEF ObjectFor
    <3>3. Followed(CopyOf(old), update, ObjectFor(update)) = CopyOf(book)
      BY <2>2, <2>6, <3>2 DEF Followed
    <3>4. /\ update.side \in Sides /\ update.price \in Nat /\ key \notin Live(book)
          /\ old.orders[key].side = update.side /\ old.orders[key].price = update.price
      BY <2>1, <2>2, <2>7 DEF Live
    <3>5. /\ ReplicaFollows' /\ QuotesShown'
          /\ oid_to_order_' = Refiled(update, ObjectFor(update))
      BY <1>1, <1>2, <2>3, <2>5, <2>7, <2>9, <3>3, <3>4, ClientFollows
    <3>6. oid_to_order_' = [oid_to_order_ EXCEPT ![order.market_order_id] = Null]
      BY <2>2, <3>5 DEF Refiled
    <3>7. Files(book, oid_to_order_')
      BY <1>2, <2>1, <2>7, <3>1, <3>6, FilesRemoved
    <3>8. QED BY <2>3, <3>5, <3>7 DEF ClientAgrees, FilesMatch
  <2>10. QED BY <2>8, <2>9
<1>6. QED BY <1>4, <1>5

\* Every step of the engine, with what the client makes of it.
LEMMA ClientStep ==
    ASSUME OneTicker, ClientInv, ClientNext
    PROVE  ClientInv'
<1>1. SortedInv' /\ Next /\ onMarketUpdate /\ SortedInv /\ IdsGiven
  BY SortedStep DEF ClientInv, ClientNext
<1>2. spoiled[0] => spoiled'[0]
  BY <1>1, SpoiledStep DEF SortedInv, EngineInv, SpoiledStays, OneTicker
<1>3. overwritten => overwritten'
  BY <1>1 DEF onMarketUpdate
<1>4. IdsGiven' /\ (ClientAgrees /\ ~spoiled[0] /\ ~spoiled'[0] /\ ~overwritten' => ClientAgrees')
  <2>1. CASE processClientRequest
    BY <1>1, <2>1, AddFollowed, CancelFollowed DEF processClientRequest
  <2>2. CASE match
    BY <1>1, <2>2, MatchFollowed
  <2>3. CASE rest
    BY <1>1, <2>3, RestFollowed
  <2>4. QED BY <1>1, <2>1, <2>2, <2>3 DEF Next
<1>5. QED BY <1>1, <1>2, <1>3, <1>4 DEF ClientInv

\* The engine does not know of the client: what the client adds to the engine
\* are behaviours of the engine, of which all of the above holds.
LEMMA ClientRunsEngine == ClientSpec => Spec
<1>1. ClientInit => Init
  BY DEF ClientInit
<1>2. [ClientNext]_clientVars => [Next]_vars
  BY DEF ClientNext, clientVars, vars
<1>3. QED BY <1>1, <1>2, PTL DEF ClientSpec, Spec

\* The client's book stays the copy of the engine's, and its quotes true, until an
\* id is given out that is in use, or a level is misplaced.
THEOREM ClientStaysInStep ==
    ASSUME OneTicker
    PROVE  ClientSpec => []ClientInv
<1>1. ClientInit => ClientInv
  BY ClientStart
<1>2. ASSUME ClientInv, [ClientNext]_clientVars PROVE ClientInv'
  <2>1. CASE ClientNext
    BY <1>2, <2>1, ClientStep
  <2>2. CASE UNCHANGED clientVars
    <3>1. SortedInv'
      BY <1>2, <2>2 DEF clientVars, vars, ClientInv, SortedInv, EngineInv, TypeOK, BooksInOrder,
                        OwnOrders, IdsInTurn, TakerIsLast, QuantityConserved, Resting, BookOf,
                        BooksInLine, TakerPriced
    <3>2. EngineBook' = EngineBook
      BY <2>2 DEF clientVars, vars, EngineBook
    <3>3. IdsGiven' /\ (ClientAgrees => ClientAgrees')
      BY <1>2, <2>2, <3>2 DEF clientVars, vars, ClientInv, IdsGiven, ClientAgrees, FilesMatch,
                              ReplicaFollows, QuotesShown
    <3>4. QED BY <1>2, <2>2, <3>1, <3>3 DEF ClientInv, clientVars, vars
  <2>3. QED BY <1>2, <2>1, <2>2
<1>3. QED BY <1>1, <1>2, PTL DEF ClientSpec

\* What the client makes of the updates is the engine's own book, order by
\* order and level by level, as long as no id was given out while it was in use and
\* no level misplaced.
THEOREM ReplicasAgree ==
    ASSUME OneTicker
    PROVE  ClientSpec => []ReplicaIsBook
<1>1. ASSUME ClientInv PROVE ReplicaIsBook
  <2> SUFFICES ASSUME Sound(0), ~spoiled[0], ~overwritten
               PROVE  /\ ~replica.fault
                      /\ Live(replica) = {ObjectOf(k) : k \in Live(EngineBook)}
                      /\ \A k \in Live(EngineBook) :
                            /\ replica.orders[ObjectOf(k)] = OfClient(k)
                            /\ oid_to_order_[MarketId(k)] = ObjectOf(k)
                      /\ \A s \in Sides : Walk(replica, s) = Walk(EngineBook, s)
                      /\ \A i \in Levels(EngineBook) :
                            replica.levels[i].orders
                               = [n \in DOMAIN EngineBook.levels[i].orders |->
                                    ObjectOf(EngineBook.levels[i].orders[n])]
    BY DEF ReplicaIsBook
  <2> DEFINE book == EngineBook
  <2>1. /\ book \in Books /\ ~book.fault /\ InOrder(book) /\ replica = CopyOf(book)
        /\ \A k \in Live(book) : k \in Keys /\ oid_to_order_[MarketId(k)] = ObjectOf(k)
    <3>1. /\ ~book.fault /\ replica = CopyOf(book)
          /\ \A k \in Live(book) : oid_to_order_[MarketId(k)] = ObjectOf(k)
      BY <1>1 DEF Sound, EngineBook, ClientInv, ClientAgrees, ReplicaFollows, FilesMatch, Files,
                  MarketId
    <3>2. book \in Books /\ InOrder(book)
      BY <1>1, <3>1, TickerBook DEF ClientInv
    <3>3. QED BY <3>1, <3>2, BookFields
  <2>2. ~replica.fault
    BY <2>1, CopyFields
  <2>3. Live(replica) = {ObjectOf(k) : k \in Live(book)}
    <3>1. ASSUME NEW id \in Live(replica) PROVE \E k \in Live(book) : id = ObjectOf(k)
      <4> DEFINE k == <<0, id - 1>>
      <4>1. k \in Keys /\ k[2] + 1 = id
        <5>1. id \in MarketIds
          BY <2>1 DEF Live, CopyOf, OrdersCopy
        <5>2. PICK c \in Clients : TRUE
          <6>1. SUFFICES ASSUME Clients = {} PROVE FALSE
            OBVIOUS
          <6>2. Cardinality(Clients) = 0
            BY <6>1, FS_EmptySet
          <6>3. QED BY <5>1, <6>2, OrdersAssumption DEF MarketIds
        <5>3. c = 0 /\ Clients = {0}
          BY ClientsAssumption, <5>2 DEF OneTicker
        <5>4. Cardinality(Clients) = 1
          BY <5>3, FS_Singleton, Zenon
        <5>5. 0 \in OrderIds
          BY <5>1, <5>4, OrdersAssumption DEF MarketIds, OrderIds
        <5>6. <<0, 0>> \in Keys
          BY <5>3, <5>5 DEF Keys
        <5>7. QED BY <5>1, <5>6, IdOfKey
      <4> HIDE DEF k
      <4>2. k \in Live(book)
        <5>1. CopyOf(book).orders[k[2] + 1] # Null
          BY <2>1, <4>1 DEF Live
        <5>2. QED BY <2>1, <4>1, <5>1, BookOrders, BookFields DEF Live
      <4>3. QED BY <4>1, <4>2 DEF ObjectOf
    <3>2. ASSUME NEW k \in Live(book) PROVE ObjectOf(k) \in Live(replica)
      <4>1. k \in Keys /\ book.orders[k] # Null
        BY <2>1 DEF Live
      <4>2. CopyOf(book).orders[k[2] + 1] # Null /\ DOMAIN CopyOf(book).orders = MarketIds
        BY <2>1, <4>1, BookOrders
      <4>3. k[2] + 1 \in MarketIds
        BY <4>1, IdOfKey
      <4>4. QED BY <2>1, <4>2, <4>3 DEF Live, ObjectOf
    <3>3. QED BY <3>1, <3>2
  <2>4. ASSUME NEW k \in Live(book) PROVE replica.orders[ObjectOf(k)] = OfClient(k)
    <3>1. k \in Keys /\ book.orders[k] # Null
      BY <2>1 DEF Live
    <3>2. CopyOf(book).orders[k[2] + 1] = OrderCopy(book.orders[k])
      BY <2>1, <3>1, BookOrders
    <3>3. QED BY <2>1, <3>2 DEF OrderCopy, OfClient, ObjectOf
  <2>5. ASSUME NEW s \in Sides PROVE Walk(replica, s) = Walk(book, s)
    <3>1. Best(replica, s) = Best(book, s)
      BY <2>1, CopyFields
    <3>2. SidePrices(replica, s) = SidePrices(book, s)
      BY <2>1, BookLevels DEF SidePrices
    <3>3. Best(book, s) # Null => Hop(replica, Best(book, s)) = Hop(book, Best(book, s))
      <4>1. Best(book, s) # Null => Best(book, s) \in Levels(book) /\ ~Dangles(book)
        BY <2>1, TiedMeans DEF Best, InOrder
      <4>2. QED BY <2>1, <4>1, HopCopied
    <3>4. QED BY <3>1, <3>2, <3>3 DEF Walk
  <2>6. ASSUME NEW i \in Levels(book)
        PROVE  replica.levels[i].orders = [n \in DOMAIN book.levels[i].orders |->
                                              ObjectOf(book.levels[i].orders[n])]
    <3>1. replica.levels[i].orders = Ids(book.levels[i].orders)
      BY <2>1, BookLevels
    <3>2. QED BY <3>1 DEF Ids, ObjectOf
  <2>7. QED BY <2>1, <2>2, <2>3, <2>4, <2>5, <2>6
<1>2. QED BY <1>1, ClientStaysInStep, PTL

\* A quote that the strategies see is the best price of the engine's book with
\* the quantity that is offered at it, as long as no id was given out while it was in
\* use and no level misplaced.
THEOREM QuotesAreTrue ==
    ASSUME OneTicker
    PROVE  ClientSpec => []QuoteIsBest
<1>1. ASSUME ClientInv PROVE QuoteIsBest
  <2>1. SUFFICES ASSUME ~spoiled[0], ~overwritten, ~replica.fault,
                        NEW s \in Sides, bbo_[s] # NoQuote
                 PROVE  /\ Best(EngineBook, s) # Null
                        /\ bbo_[s].price = EngineBook.levels[Best(EngineBook, s)].price
                        /\ bbo_[s].qty = Total(LevelQtys(EngineBook, Best(EngineBook, s)))
    BY DEF QuoteIsBest, QuoteIsTotal
  <2>2. ~EngineBook.fault
    BY <1>1, <2>1, CopyFields DEF ClientInv, ClientAgrees, ReplicaFollows
  <2>3. bbo_[s] = Quote(EngineBook, s)
    BY <1>1, <2>1, <2>2 DEF ClientInv, ClientAgrees, QuotesShown
  <2>4. QED BY <2>1, <2>3 DEF Quote
<1>2. QED BY <1>1, ClientStaysInStep, PTL

\* The client's copy finds every order that an update is about, and its own
\* lists lead it to no level that is gone: it aborts only with the engine, when the
\* pool of levels is used up, unless an id was given out while it was in use or a
\* level was misplaced.
THEOREM ReplicaStaysSound ==
    ASSUME OneTicker
    PROVE  ClientSpec => [](replica.fault =>
                               \/ overwritten \/ spoiled[0]
                               \/ Levels(EngineBook) = LevelIndices)
<1>1. ClientInv /\ NothingDangles =>
         (replica.fault => overwritten \/ spoiled[0] \/ Levels(EngineBook) = LevelIndices)
  BY DEF ClientInv, ClientAgrees, ReplicaFollows, CopyOf, NothingDangles, Sound, EngineBook,
         OneTicker
<1>2. QED BY <1>1, ClientStaysInStep, ClientRunsEngine, BooksStaySound, PTL
=============================================================================
