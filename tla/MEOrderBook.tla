----------------------------- MODULE MEOrderBook -----------------------------
(***************************************************************************)
(* One order book of the exchange (Chapter10/exchange/matcher/             *)
(* me_order_book.{h,cpp}, me_order.h) as a record, and its methods as      *)
(* operators from a book to a book.                                        *)
(*                                                                         *)
(*   orders   cid_oid_to_order_ together with the MEOrder each entry       *)
(*            points to; an order is known by <<client, client order id>>. *)
(*   levels   price_orders_at_prices_ together with the MEOrdersAtPrice    *)
(*            each entry points to; a level is known by its index.         *)
(*            prev and next are its links in the circular list of its side *)
(*            and orders is its circular list of orders, first order       *)
(*            first.                                                       *)
(*   bids, asks   bids_by_price_ and asks_by_price_.                       *)
(*   next_market_order_id_   the id given to the next order.               *)
(*   fault    the process has aborted, a link or a head points to a level  *)
(*            that was deallocated, or a walk along the links cannot end.  *)
(***************************************************************************)
EXTENDS Integers, Sequences, SequencesExt, FiniteSets

CONSTANTS
    MaxPriceLevels,  \* ME_MAX_PRICE_LEVELS
    DistinctIds,     \* FALSE: generateNewMarketOrderId() as written
    Null             \* nullptr

ASSUME LevelsAssumption == MaxPriceLevels \in Nat \ {0}
ASSUME IdsAssumption == DistinctIds \in BOOLEAN

priceToIndex(price) == price % MaxPriceLevels

LevelIndices == 0 .. MaxPriceLevels - 1

EmptyBook(keys) ==
    [orders |-> [k \in keys |-> Null],
     levels |-> [i \in LevelIndices |-> Null],
     bids |-> Null, asks |-> Null,
     next_market_order_id_ |-> 1,
     fault |-> FALSE]

Best(book, side) == IF side = "BUY" THEN book.bids ELSE book.asks

SetBest(book, side, index) ==
    IF side = "BUY" THEN [book EXCEPT !.bids = index] ELSE [book EXCEPT !.asks = index]

Opposite(side) == IF side = "BUY" THEN "SELL" ELSE "BUY"

Live(book) == {k \in DOMAIN book.orders : book.orders[k] # Null}

Levels(book) == {i \in LevelIndices : book.levels[i] # Null}

getOrdersAtPrice(book, price) == book.levels[priceToIndex(price)]

generateNewMarketOrderId(book) == book.next_market_order_id_

\* The book when an id was taken: the method returns the counter and, as
\* written, leaves it alone.
IdTaken(book) ==
    IF DistinctIds THEN [book EXCEPT !.next_market_order_id_ = @ + 1] ELSE book

getNextPriority(book, price) ==
    LET level == getOrdersAtPrice(book, price)
    IN  IF level = Null THEN 1
        ELSE book.orders[level.orders[Len(level.orders)]].priority + 1

\* Every pointer the book can follow leads to a level that exists.
Dangles(book) ==
    LET targets == {book.bids, book.asks}
                     \cup {book.levels[i].next : i \in Levels(book)}
                     \cup {book.levels[i].prev : i \in Levels(book)}
    IN  \E t \in targets : t # Null /\ book.levels[t] = Null

-----------------------------------------------------------------------------
(* Insertion of a price level in the list of its side.                     *)

\* The order of levels: asks go up, bids go down.
GoesAfter(side, price, level) ==
    IF side = "SELL" THEN price > level.price ELSE price < level.price

\* The first comparison, with the best level, does not look at the side in
\* its second disjunct.
GoesAfterBest(side, price, best) ==
    \/ side = "SELL" /\ price > best.price
    \/ price < best.price

\* The n-th level after the best one.
Hop(book, best) ==
    LET hop[n \in 0 .. MaxPriceLevels] ==
          IF n = 0 THEN best ELSE book.levels[hop[n - 1]].next
    IN  hop

\* Where the search for the place of price may stop.
Stops(book, side, price, best) ==
    LET hop == Hop(book, best)
    IN  {n \in 1 .. MaxPriceLevels :
            hop[n] = best \/ ~GoesAfter(side, price, book.levels[hop[n]])}

Smallest(S) == CHOOSE n \in S : \A m \in S : n <= m

Link(levels, from, to) ==
    [levels EXCEPT ![from].next = to, ![to].prev = from]

\* Mutant: the head does not learn of its new predecessor.
InsertLastHalf(levels, best, new) ==
    LET last == levels[best].prev
    IN  [Link(levels, last, new) EXCEPT ![new].next = levels[last].next]

InsertLast(levels, best, new) ==
    LET last  == levels[best].prev
        after == levels[last].next
    IN  Link(Link(levels, last, new), new, after)

InsertBefore(levels, target, new) ==
    LET before == levels[target].prev
    IN  Link(Link(levels, before, new), new, target)

\* A level is put before the first worse one, or last when there is none; a
\* level that is better than the best becomes the head, and is made to follow
\* the target if the old head did.  past: the search goes past the best level.
InsertLevel(book, level, past) ==
    LET new    == priceToIndex(level.price)
        side   == level.side
        best   == Best(book, side)
        levels == [book.levels EXCEPT ![new] = [level EXCEPT !.prev = new, !.next = new]]
        placed == [book EXCEPT !.levels = levels]
        stops  == Stops(book, side, level.price, best)
        n      == Smallest(stops)
        stop   == Hop(book, best)[n]
        last   == stop = best /\ (n > 1 \/ GoesAfter(side, level.price, book.levels[best]))
        target == IF past THEN stop ELSE best
        better == GoesAfter(Opposite(side), level.price, book.levels[best])
        before == InsertBefore(levels, target, new)
        relink == IF better /\ before[target].next = best
                  THEN [before EXCEPT ![target].next = new] ELSE before
    IN  IF best = Null THEN SetBest(placed, side, new)
        ELSE IF ~past \/ (stops # {} /\ ~last)
             THEN SetBest([placed EXCEPT !.levels = relink], side, IF better THEN new ELSE best)
        ELSE IF stops = {} THEN [book EXCEPT !.fault = TRUE]
        ELSE [placed EXCEPT !.levels = InsertLast(levels, best, new)]

addOrdersAtPrice(book, level) ==
    InsertLevel(book, level,
                GoesAfterBest(level.side, level.price, book.levels[Best(book, level.side)]))

-----------------------------------------------------------------------------
(* Orders.                                                                 *)

\* Two ways to spoil the order of the levels: an order is filed at a level of
\* another price, which has the same index, or the first comparison sends the
\* search for the place of a level the wrong way, and the best level is not the
\* only one, which the search would come back to.
Collides(book, price) ==
    LET level == getOrdersAtPrice(book, price) IN level # Null /\ level.price # price

Misties(book, side, price) ==
    LET best == Best(book, side)
    IN  /\ getOrdersAtPrice(book, price) = Null
        /\ best # Null /\ book.levels[best].next # best
        /\ GoesAfterBest(side, price, book.levels[best])
             # GoesAfter(side, price, book.levels[best])

Spoils(book, side, price) == Collides(book, price) \/ Misties(book, side, price)

\* The pool of levels has MaxPriceLevels blocks and aborts the process when
\* the last one is taken.
addOrder(book, key, order) ==
    LET index == priceToIndex(order.price)
        filed == [book EXCEPT !.orders[key] = order]
        grown == addOrdersAtPrice(filed,
                     [side |-> order.side, price |-> order.price, orders |-> <<key>>,
                      prev |-> Null, next |-> Null])
    IN  IF book.levels[index] # Null
        THEN [filed EXCEPT !.levels[index].orders = Append(@, key)]
        ELSE [grown EXCEPT !.fault = @ \/ Levels(grown) = LevelIndices]

\* Mutant: the head of the side stays on the level that is removed.
RemoveLevelKeepHead(book, side, price) ==
    LET index == priceToIndex(price)
        level == book.levels[index]
    IN  [book EXCEPT !.levels = [Link(@, level.prev, level.next) EXCEPT ![index] = Null]]

removeOrdersAtPrice(book, side, price) ==
    LET index    == priceToIndex(price)
        level    == book.levels[index]
        best     == Best(book, side)
        unlinked == [Link(book.levels, level.prev, level.next) EXCEPT ![index] = Null]
    IN  IF level.next = index
        THEN SetBest([book EXCEPT !.levels[index] = Null], side, Null)
        ELSE SetBest([book EXCEPT !.levels = unlinked], side,
                     IF index = best THEN level.next ELSE best)

\* The list of a level without the order that leaves it.
Unlinked(list, key) == RemoveAt(list, CHOOSE n \in DOMAIN list : list[n] = key)

removeOrder(book, key) ==
    LET order   == book.orders[key]
        index   == priceToIndex(order.price)
        others  == Unlinked(book.levels[index].orders, key)
        removed == IF others = << >>
                   THEN removeOrdersAtPrice(book, order.side, order.price)
                   ELSE [book EXCEPT !.levels[index].orders = others]
        result  == [removed EXCEPT !.orders[key] = Null]
    IN  [result EXCEPT !.fault = @ \/ Dangles(result)]

-----------------------------------------------------------------------------
(* Matching.                                                               *)

\* Mutant: the last order of the best level is matched first.
MakerLast(book, side) ==
    LET best == Best(book, Opposite(side))
    IN  IF best = Null THEN Null
        ELSE book.levels[best].orders[Len(book.levels[best].orders)]

\* The resting order the next fill is made against: the first of the best
\* level of the other side.
Maker(book, side) ==
    LET best == Best(book, Opposite(side))
    IN  IF best = Null THEN Null ELSE book.levels[best].orders[1]

\* Mutant: orders at the same price do not trade.
CrossesStrictly(side, price, order) ==
    IF side = "BUY" THEN price > order.price ELSE price < order.price

Crosses(side, price, order) ==
    IF side = "BUY" THEN price >= order.price ELSE price <= order.price

FillQty(leaves, order) == IF leaves < order.qty THEN leaves ELSE order.qty

\* Mutant: the maker's quantity is only touched when it is used up.
FillForgetful(book, key, fill) ==
    IF book.orders[key].qty = fill THEN removeOrder(book, key) ELSE book

\* The book after the maker has given fill: a maker without quantity leaves.
Fill(book, key, fill) ==
    LET left == book.orders[key].qty - fill
        book1 == [book EXCEPT !.orders[key].qty = left]
    IN  IF left = 0 THEN removeOrder(book1, key) ELSE book1
=============================================================================
