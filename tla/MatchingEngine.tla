--------------------------- MODULE MatchingEngine ---------------------------
(***************************************************************************)
(* The thread of the matching engine (Chapter10/exchange/matcher/          *)
(* matching_engine.cpp) with the methods of its order books that send      *)
(* messages (me_order_book.cpp: add, checkForMatch, match, cancel).        *)
(*                                                                         *)
(* A NEW request is several steps, one for every group of messages it      *)
(* sends: other threads consume what was sent while the loop of            *)
(* checkForMatch goes on.  The steps of a request follow each other; no    *)
(* other request is taken in between.                                      *)
(***************************************************************************)
EXTENDS MEOrderBook

CONSTANTS
    Clients,     \* client ids, 0 .. n
    Tickers,     \* ticker ids, 0 .. n: there is one book for each
    BuyPrices,   \* prices clients bid
    SellPrices,  \* prices clients ask
    Qtys,        \* quantities of new orders
    MaxOrders    \* bound: orders a client sends

ASSUME TickersAssumption == Tickers \subseteq Nat
\* ticker_order_book_ is indexed by client id, so that a client id that is
\* not a ticker id reads outside the array.
ASSUME ClientsAssumption == Clients \subseteq Tickers
ASSUME OrdersAssumption ==
    /\ BuyPrices \subseteq Nat /\ SellPrices \subseteq Nat
    /\ Qtys \subseteq Nat \ {0} /\ MaxOrders \in Nat

Sides == {"BUY", "SELL"}
OrderIds == 0 .. MaxOrders - 1
Keys == Clients \X OrderIds
PricesOf(side) == IF side = "BUY" THEN BuyPrices ELSE SellPrices
Prices == BuyPrices \cup SellPrices

\* MEOrder, MEOrdersAtPrice and MEOrderBook; the arguments of add().
OrderRecords == [ticker : Tickers, side : Sides, price : Prices, qty : Nat,
                 priority : Nat \ {0}, market_order_id : Nat \ {0}]
LevelRecords == [side : Sides, price : Prices, orders : Seq(Keys),
                 prev : LevelIndices, next : LevelIndices]
Books == [orders : [Keys -> OrderRecords \cup {Null}],
          levels : [LevelIndices -> LevelRecords \cup {Null}],
          bids : LevelIndices \cup {Null}, asks : LevelIndices \cup {Null},
          next_market_order_id_ : Nat \ {0}, fault : BOOLEAN]
Takers == [key : Keys, book : Tickers, ticker : Tickers, side : Sides, price : Prices,
           qty : Nat, market_order_id : Nat \ {0}]
Asked == [ticker : Tickers, qty : Qtys]
\* An order, without what only the engine knows of it.
PlainOrders == [id : OrderIds, side : Sides, price : Prices, qty : Nat]

\* nullptr is the address of nothing.
ASSUME NullAssumption ==
    /\ Null \notin LevelIndices /\ Null \notin Keys /\ Null \notin OrderRecords
    /\ Null \notin LevelRecords /\ Null \notin Takers /\ Null \notin Asked
    /\ Null \notin PlainOrders

VARIABLES
    ticker_order_book_,  \* the books
    taker,               \* the NEW request being matched, or Null
    responses,           \* the responses sent by the last step
    updates,             \* the market updates sent by the last step
    next_order_id,       \* the clients: the id each will use next
    asked,               \* history: the ticker and quantity of every order sent
    view,                \* history: what each client was told of its orders
    spoiled              \* history: the books whose levels were once misplaced

vars == <<ticker_order_book_, taker, responses, updates, next_order_id, asked, view, spoiled>>

\* The values of OrderId_INVALID, Price_INVALID, ...: the largest ones.
Invalid == "INVALID"

Response(type, key, ticker, market_id, side, price, exec, leaves) ==
    [type |-> type, client |-> key[1], order_id |-> key[2], ticker |-> ticker,
     market_order_id |-> market_id, side |-> side, price |-> price,
     exec_qty |-> exec, leaves_qty |-> leaves]

Update(type, market_id, ticker, side, price, qty, priority) ==
    [type |-> type, order_id |-> market_id, ticker |-> ticker, side |-> side,
     price |-> price, qty |-> qty, priority |-> priority]

\* What a client knows of an order: how much was filled, and what is left.
Unknown == [filled |-> 0, leaves |-> 0]

Told(known, response) ==
    IF response.type \in {"ACCEPTED", "FILLED"}
    THEN [filled |-> known.filled + response.exec_qty, leaves |-> response.leaves_qty]
    ELSE known

Tell(sent) ==
    view' = [k \in Keys |->
                IF \E i \in DOMAIN sent : <<sent[i].client, sent[i].order_id>> = k
                THEN Told(view[k], sent[CHOOSE i \in DOMAIN sent :
                                        <<sent[i].client, sent[i].order_id>> = k])
                ELSE view[k]]

Send(sent, published) ==
    /\ responses' = sent
    /\ updates' = published
    /\ Tell(sent)

Init ==
    /\ ticker_order_book_ = [t \in Tickers |-> EmptyBook(Keys)]
    /\ taker = Null
    /\ responses = << >>
    /\ updates = << >>
    /\ next_order_id = [c \in Clients |-> 0]
    /\ asked = [k \in Keys |-> Null]
    /\ view = [k \in Keys |-> Unknown]
    /\ spoiled = [t \in Tickers |-> FALSE]

\* The book a request is given to: ticker_order_book_[client_id_].
BookOf(client) == client

SetBook(index, book) == ticker_order_book_' = [ticker_order_book_ EXCEPT ![index] = book]

Sound(index) == ~ticker_order_book_[index].fault

-----------------------------------------------------------------------------
(* NEW: the order is accepted, matched fill by fill, and what is left      *)
(* rests in the book.                                                      *)

add(client, ticker, side, price, qty) ==
    LET index == BookOf(client)
        key   == <<client, next_order_id[client]>>
        id    == generateNewMarketOrderId(ticker_order_book_[index])
    IN  /\ taker = Null
        /\ Sound(index)
        /\ next_order_id[client] < MaxOrders
        /\ taker' = [key |-> key, book |-> index, ticker |-> ticker, side |-> side,
                     price |-> price, qty |-> qty, market_order_id |-> id]
        /\ Send(<<Response("ACCEPTED", key, ticker, id, side, price, 0, qty)>>, << >>)
        /\ next_order_id' = [next_order_id EXCEPT ![client] = @ + 1]
        /\ asked' = [asked EXCEPT ![key] = [ticker |-> ticker, qty |-> qty]]
        /\ SetBook(index, IdTaken(ticker_order_book_[index]))
        /\ UNCHANGED spoiled

\* The condition under which the loop of checkForMatch makes another fill.
CanMatch ==
    LET book  == ticker_order_book_[taker.book]
        maker == Maker(book, taker.side)
    IN  /\ taker.qty > 0
        /\ maker # Null
        /\ Crosses(taker.side, taker.price, book.orders[maker])

match ==
    /\ taker # Null
    /\ Sound(taker.book)
    /\ CanMatch
    /\ LET book   == ticker_order_book_[taker.book]
           key    == Maker(book, taker.side)
           order  == book.orders[key]
           fill   == FillQty(taker.qty, order)
           left   == order.qty - fill
           leaves == taker.qty - fill
       IN  /\ SetBook(taker.book, Fill(book, key, fill))
           /\ taker' = [taker EXCEPT !.qty = leaves]
           /\ Send(<<Response("FILLED", taker.key, taker.ticker, taker.market_order_id,
                              taker.side, order.price, fill, leaves),
                     Response("FILLED", key, taker.ticker, order.market_order_id,
                              order.side, order.price, fill, left)>>,
                   <<Update("TRADE", Invalid, taker.ticker, taker.side, order.price, fill,
                            Invalid),
                     IF left = 0
                     THEN Update("CANCEL", order.market_order_id, taker.ticker, order.side,
                                 order.price, order.qty, Invalid)
                     ELSE Update("MODIFY", order.market_order_id, taker.ticker, order.side,
                                 order.price, left, order.priority)>>)
    /\ UNCHANGED <<next_order_id, asked, spoiled>>

\* The end of add(): what was not filled becomes an order of the book.
rest ==
    /\ taker # Null
    /\ Sound(taker.book)
    /\ ~CanMatch
    /\ LET book     == ticker_order_book_[taker.book]
           priority == getNextPriority(book, taker.price)
           order    == [ticker |-> taker.ticker, side |-> taker.side, price |-> taker.price,
                        qty |-> taker.qty, priority |-> priority,
                        market_order_id |-> taker.market_order_id]
       IN  IF taker.qty = 0
           THEN UNCHANGED <<ticker_order_book_, spoiled>> /\ Send(<< >>, << >>)
           ELSE /\ SetBook(taker.book, addOrder(book, taker.key, order))
                /\ spoiled' = [spoiled EXCEPT ![taker.book] =
                                  @ \/ Spoils(book, taker.side, taker.price)]
                /\ Send(<< >>, <<Update("ADD", taker.market_order_id, taker.ticker, taker.side,
                                        taker.price, taker.qty, priority)>>)
    /\ taker' = Null
    /\ UNCHANGED <<next_order_id, asked>>

-----------------------------------------------------------------------------
(* CANCEL of an order the client has sent before, alive or not.            *)

\* Mutant: an order that is not in the book is reported as canceled.
CancelUnchecked(client, order_id) ==
    LET index == BookOf(client)
        key   == <<client, order_id>>
    IN  /\ taker = Null
        /\ Sound(index)
        /\ asked[key] # Null
        /\ Send(<<Response("CANCELED", key, asked[key].ticker, Invalid, Invalid, Invalid,
                           Invalid, Invalid)>>, << >>)
        /\ IF ticker_order_book_[index].orders[key] = Null
           THEN UNCHANGED ticker_order_book_
           ELSE SetBook(index, removeOrder(ticker_order_book_[index], key))
        /\ UNCHANGED <<taker, next_order_id, asked, spoiled>>

cancel(client, order_id) ==
    LET index  == BookOf(client)
        book   == ticker_order_book_[index]
        key    == <<client, order_id>>
        order  == book.orders[key]
        ticker == asked[key].ticker
    IN  /\ taker = Null
        /\ Sound(index)
        /\ asked[key] # Null
        /\ IF order = Null
           THEN /\ Send(<<Response("CANCEL_REJECTED", key, ticker, Invalid, Invalid, Invalid,
                                   Invalid, Invalid)>>, << >>)
                /\ UNCHANGED ticker_order_book_
           ELSE /\ SetBook(index, removeOrder(book, key))
                /\ Send(<<Response("CANCELED", key, ticker, order.market_order_id, order.side,
                                   order.price, Invalid, order.qty)>>,
                        <<Update("CANCEL", order.market_order_id, ticker, order.side,
                                 order.price, 0, order.priority)>>)
        /\ UNCHANGED <<taker, next_order_id, asked, spoiled>>

processClientRequest ==
    \E client \in Clients :
        \/ \E ticker \in Tickers, side \in Sides, qty \in Qtys :
              \E price \in PricesOf(side) : add(client, ticker, side, price, qty)
        \/ \E order_id \in OrderIds : cancel(client, order_id)

Next == processClientRequest \/ match \/ rest

Spec == Init /\ [][Next]_vars

\* A step on the request in progress, told by what it does to taker: a match
\* leaves less of it and rest ends it, and no other action begins with a taker.
GoesOn ==
    /\ taker # Null
    /\ Sound(taker.book)
    /\ taker' \in {Null} \cup {[taker EXCEPT !.qty = left] : left \in 0 .. taker.qty - 1}

\* The engine thread finishes the request it has begun.
FairSpec == Spec /\ WF_taker(GoesOn)

-----------------------------------------------------------------------------
(* Properties *)

TypeOK ==
    /\ ticker_order_book_ \in [Tickers -> Books]
    /\ taker \in Takers \cup {Null}
    /\ next_order_id \in [Clients -> 0 .. MaxOrders]
    /\ asked \in [Keys -> Asked \cup {Null}]
    /\ view \in [Keys -> [filled : Nat, leaves : Nat]]
    /\ spoiled \in [Tickers -> BOOLEAN]

SoundBooks == {ticker_order_book_[t] : t \in {u \in Tickers : Sound(u)}}

\* Those whose levels were never misplaced.
OrderlyBooks ==
    {ticker_order_book_[t] : t \in {u \in Tickers : Sound(u) /\ ~spoiled[u]}}

SidePrices(book, side) == {i \in Levels(book) : book.levels[i].side = side}

\* The levels met on the way from the head along next.
Walk(book, side) ==
    LET best == Best(book, side)
        n    == Cardinality(SidePrices(book, side))
    IN  IF best = Null THEN << >> ELSE [i \in 1 .. n |-> Hop(book, best)[i - 1]]

SideSorted(book, side) ==
    LET walk == Walk(book, side)
    IN  /\ {walk[i] : i \in DOMAIN walk} = SidePrices(book, side)
        /\ \A i \in 1 .. Len(walk) :
              LET follower == walk[(i % Len(walk)) + 1]
              IN  /\ book.levels[walk[i]].next = follower
                  /\ book.levels[follower].prev = walk[i]
                  /\ i < Len(walk) =>
                       GoesAfter(side, book.levels[follower].price, book.levels[walk[i]])

\* The links of the levels of a side, which addOrdersAtPrice() and
\* removeOrdersAtPrice() re-tie by hand, lead through every level of it once,
\* bids from the highest price down, asks from the lowest up.
LevelsSorted == \A book \in OrderlyBooks : \A side \in Sides : SideSorted(book, side)

\* What the validity check of toString() expects of the asks, otherwise "Bids/Asks
\* not sorted by ascending/descending prices" (me_order_book.cpp:240).
AsksSorted == \A book \in SoundBooks : SideSorted(book, "SELL")

\* cid_oid_to_order_ and the lists of the levels, which are kept up in
\* different methods, tell of the same orders: each is in one level only, at
\* its own price and side, and no level is empty.
LevelsFileOrders ==
    \A book \in OrderlyBooks :
        /\ \A k \in Live(book) :
              \E i \in Levels(book) : \E n \in DOMAIN book.levels[i].orders :
                  book.levels[i].orders[n] = k
        /\ \A i \in Levels(book) :
              LET orders == book.levels[i].orders
              IN  /\ orders # << >>
                  /\ \A n \in DOMAIN orders :
                        /\ orders[n] \in Live(book)
                        /\ book.orders[orders[n]].price = book.levels[i].price
                        /\ book.orders[orders[n]].side = book.levels[i].side

\* The orders of every level stand in its list in the order they came.
InTime(book) ==
    \A i \in Levels(book) :
        LET orders == book.levels[i].orders
        IN  \A m, n \in DOMAIN orders :
              m < n => /\ book.orders[orders[m]].priority < book.orders[orders[n]].priority
                       /\ orders[m][2] < orders[n][2]

\* Orders of a level are matched in the order they came: their priorities,
\* handed out by getNextPriority() from the last order alone, go up along the
\* list although orders leave from its front, its middle and its end.
TimePriority == \A book \in SoundBooks : InTime(book)

\* The methods that re-tie the lists by hand leave no head and no link on a
\* level that is gone, and no walk that cannot end: but for a book whose levels were
\* misplaced, the process aborts only when the pool of levels has no block left.
NothingDangles ==
    \A t \in Tickers : ~Sound(t) => spoiled[t] \/ Levels(ticker_order_book_[t]) = LevelIndices

\* The hash map of orders, the hash map of levels, the lists of the levels and
\* the circular lists of both sides, each re-tied by hand in methods of its
\* own, describe one book in price-time order after every step, and lead
\* nowhere else, until a level is misplaced by an index that two prices share or
\* by the first comparison of addOrdersAtPrice().
BookWellFormed ==
    TypeOK /\ NothingDangles /\ LevelsSorted /\ LevelsFileOrders /\ TimePriority

\* Between requests no bid that rests could trade with an ask that rests, as long as
\* no level was misplaced.
NotCrossed ==
    taker = Null =>
        \A book \in OrderlyBooks : \A k, l \in Live(book) :
            book.orders[k].side = "BUY" /\ book.orders[l].side = "SELL"
                => book.orders[k].price < book.orders[l].price

Resting(k) == ticker_order_book_[BookOf(k[1])].orders[k]

\* No quantity is made or lost: what a client was told was filled and what it
\* was told is left always add up to what it asked for, and what it was told
\* is left is what the book, or the request in progress, still offers.
QuantityConserved ==
    \A k \in Keys : asked[k] # Null =>
        /\ view[k].filled + view[k].leaves = asked[k].qty
        /\ Resting(k) # Null => Resting(k).qty = view[k].leaves /\ Resting(k).qty > 0
        /\ taker # Null /\ taker.key = k => taker.qty = view[k].leaves

Ended(k) == asked[k] # Null /\ Resting(k) = Null /\ (taker = Null \/ taker.key # k)

\* An order ends once: when it was filled or canceled it never rests or trades
\* again, and all its client still hears of it is that it cannot be canceled.
EndedOrdersStayEnded ==
    [][\A k \in Keys : Ended(k) =>
          /\ Ended(k)'
          /\ \A i \in DOMAIN responses' :
                <<responses'[i].client, responses'[i].order_id>> = k
                    => responses'[i].type = "CANCEL_REJECTED"]_vars

Observed == CHOOSE client \in Clients : TRUE

ObservedBook == ticker_order_book_[BookOf(Observed)]

\* What the promise knows of an order, of the orders of a book, and of the
\* order being matched.
Plain(key, order) ==
    [id |-> key[2], side |-> order.side, price |-> order.price, qty |-> order.qty]

Shown(book) == {Plain(k, book.orders[k]) : k \in Live(book)}

Coming ==
    IF taker = Null \/ taker.key[1] # Observed THEN Null ELSE Plain(taker.key, taker)

PriceTime == INSTANCE PriceTimeBook WITH
    resting  <- Shown(ObservedBook),
    incoming <- Coming,
    arrived  <- next_order_id[Observed]

\* A book, as a client's orders are kept in it, implements price-time priority, as
\* long as none of its levels was misplaced.
ImplementsPriceTime ==
    /\ PriceTime!Init
    /\ [][PriceTime!Next \/ spoiled[BookOf(Observed)]]_(PriceTime!vars)

\* A request that was accepted is worked off: the loop of checkForMatch ends, unless
\* it comes, in a book whose levels were misplaced, to a level that is gone.
MatchingEnds ==
    (taker # Null) ~> (taker = Null \/ (spoiled[taker.book] /\ ~Sound(taker.book)))
=============================================================================
