------------------------------ MODULE ClientBook ------------------------------
(***************************************************************************)
(* The client's copy of an order book (Chapter10/trading/strategy/         *)
(* market_order_book.{h,cpp}, market_order.h), kept from the market        *)
(* updates of the matching engine, and the best bid and offer that the     *)
(* strategies quote by.                                                    *)
(*                                                                         *)
(* The client handles the updates in the order they are published (module  *)
(* LFQueue, and module MarketData for the losses); its copy is a function  *)
(* of the updates handled so far.  It is compared with the engine's book   *)
(* as of the same update, which is why both are moved in one step.         *)
(*                                                                         *)
(* The copy is a record like MEOrderBook's.  Its orders are the MarketOrder *)
(* objects, which stay in the lists when the entry of oid_to_order_ that   *)
(* leads to them is overwritten; an object is known by the number of the   *)
(* order of the engine that it was made for.  CLEAR, which only a recovery *)
(* could send, is not here: a recovery passes nothing on (module           *)
(* MarketData).                                                            *)
(***************************************************************************)
EXTENDS MatchingEngine

\* One ticker, so that a book of the engine, which is chosen by client id,
\* is the book of a ticker: what the runs take and the theorems assume.
OneTicker == Tickers = {0}

VARIABLES
    replica,        \* MarketOrderBook: its orders and levels
    oid_to_order_,  \* MarketOrderBook: the object filed under a market order id
    bbo_,           \* MarketOrderBook: price and quantity of the best of each side
    overwritten     \* history: an ADD has come with an id under which an order
                    \* was filed

clientVars == <<vars, replica, oid_to_order_, bbo_, overwritten>>

MarketIds == 1 .. MaxOrders * Cardinality(Clients)
Objects == MarketIds

ObjectOf(key) == key[2] + 1

\* MarketOrder and MarketOrdersAtPrice.
ClientOrderRecords == [side : Sides, price : Prices, qty : Nat, priority : Nat \ {0}]
ClientLevelRecords == [side : Sides, price : Prices, orders : Seq(Nat),
                       prev : LevelIndices, next : LevelIndices]

\* nullptr is the address of nothing.
ASSUME ClientNullAssumption ==
    Null \notin ClientOrderRecords /\ Null \notin ClientLevelRecords /\ Null \notin Objects

\* Price_INVALID and Qty_INVALID.
NoQuote == Null

ClientInit ==
    /\ Init
    /\ replica = EmptyBook(Objects)
    /\ oid_to_order_ = [id \in MarketIds |-> Null]
    /\ bbo_ = [s \in Sides |-> NoQuote]
    /\ overwritten = FALSE

-----------------------------------------------------------------------------
(* The list of levels: as in MEOrderBook, with the side tested throughout.  *)

addClientOrdersAtPrice(book, level) ==
    InsertLevel(book, level,
                GoesAfter(level.side, level.price, book.levels[Best(book, level.side)]))

addClientOrder(book, object, order) ==
    LET filed == [book EXCEPT !.orders[object] = order]
        grown == addClientOrdersAtPrice(filed,
                     [side |-> order.side, price |-> order.price, orders |-> <<object>>,
                      prev |-> Null, next |-> Null])
    IN  IF getOrdersAtPrice(book, order.price) # Null
        THEN [filed EXCEPT !.levels[priceToIndex(order.price)].orders = Append(@, object)]
        ELSE [grown EXCEPT !.fault = @ \/ Levels(grown) = LevelIndices]

-----------------------------------------------------------------------------
(* Updates.                                                                *)

\* The object an update is about: a new one for an ADD, and for the others the one
\* that is filed under its id.
ObjectFor(update) ==
    IF update.type = "ADD" THEN ObjectOf(taker.key) ELSE oid_to_order_[update.order_id]

\* Mutant: quantities are not followed.
FollowedWithoutModify(book, update, object) ==
    IF update.type = "ADD"
    THEN addClientOrder(book, object,
             [side |-> update.side, price |-> update.price, qty |-> update.qty,
              priority |-> update.priority])
    ELSE IF object = Null THEN [book EXCEPT !.fault = TRUE]
    ELSE IF update.type = "MODIFY" THEN book
    ELSE removeOrder(book, object)

\* The book after an update; one about an id that nothing is filed under is a null
\* pointer that is followed.
Followed(book, update, object) ==
    IF update.type = "ADD"
    THEN addClientOrder(book, object,
             [side |-> update.side, price |-> update.price, qty |-> update.qty,
              priority |-> update.priority])
    ELSE IF object = Null THEN [book EXCEPT !.fault = TRUE]
    ELSE IF update.type = "MODIFY" THEN [book EXCEPT !.orders[object].qty = update.qty]
    ELSE removeOrder(book, object)

\* oid_to_order_ after an update.
Refiled(update, object) ==
    [oid_to_order_ EXCEPT ![update.order_id] =
        IF update.type = "ADD" THEN object
        ELSE IF update.type = "CANCEL" THEN Null ELSE @]

\* Mutant: an update at the best price is not one of the best.
QuoteUpdatedStrictly(book, side, update) ==
    LET best == Best(book, side)
    IN  /\ best # Null
        /\ update.side = side
        /\ GoesAfter(Opposite(side), update.price, book.levels[best])

\* bid_updated and ask_updated: found before the update is applied, from the
\* best level of that moment.
QuoteUpdated(book, side, update) ==
    LET best == Best(book, side)
    IN  /\ best # Null
        /\ update.side = side
        /\ ~GoesAfter(side, update.price, book.levels[best])

LevelQtys(book, index) ==
    [i \in DOMAIN book.levels[index].orders |-> book.orders[book.levels[index].orders[i]].qty]

Total(quantities) ==
    LET sum[n \in 0 .. Len(quantities)] == IF n = 0 THEN 0 ELSE sum[n - 1] + quantities[n]
    IN  sum[Len(quantities)]

Quote(book, side) ==
    LET best == Best(book, side)
    IN  IF best = Null THEN NoQuote
        ELSE [price |-> book.levels[best].price, qty |-> Total(LevelQtys(book, best))]

updateBBO(book, update, next) ==
    [s \in Sides |-> IF QuoteUpdated(book, s, update) THEN Quote(next, s) ELSE bbo_[s]]

\* A TRADE goes to the strategy and changes nothing; at most one other update
\* is published in a step of the engine.
onMarketUpdate ==
    LET about == {i \in DOMAIN updates' : updates'[i].type # "TRADE"}
    IN  IF about = {} \/ replica.fault
        THEN UNCHANGED <<replica, oid_to_order_, bbo_, overwritten>>
        ELSE LET update == updates'[CHOOSE i \in about : TRUE]
                 object == ObjectFor(update)
                 next   == Followed(replica, update, object)
             IN  /\ replica' = next
                 /\ oid_to_order_' = Refiled(update, object)
                 /\ bbo_' = IF next.fault THEN bbo_ ELSE updateBBO(replica, update, next)
                 /\ overwritten' = (\/ overwritten
                                    \/ /\ update.type = "ADD"
                                       /\ oid_to_order_[update.order_id] # Null)

ClientNext == Next /\ onMarketUpdate

ClientSpec ==
    /\ ClientInit /\ [][ClientNext]_clientVars
    /\ WF_taker(GoesOn)

-----------------------------------------------------------------------------
(* Properties *)

EngineBook == ticker_order_book_[0]

MarketId(k) == EngineBook.orders[k].market_order_id

OfClient(k) ==
    [side |-> EngineBook.orders[k].side, price |-> EngineBook.orders[k].price,
     qty |-> EngineBook.orders[k].qty, priority |-> EngineBook.orders[k].priority]

\* What the client makes of the updates is the engine's own book: the same
\* orders with the same quantities, in the same places of the same levels, and
\* the levels in the same order; and it finds each of them under its id.  Both
\* sides re-tie their lists by themselves.  It ends with an id that is given out
\* while it is in use, and with a level that the engine misplaces.
ReplicaIsBook ==
    Sound(0) /\ ~spoiled[0] /\ ~overwritten =>
        /\ ~replica.fault
        /\ Live(replica) = {ObjectOf(k) : k \in Live(EngineBook)}
        /\ \A k \in Live(EngineBook) :
              /\ replica.orders[ObjectOf(k)] = OfClient(k)
              /\ oid_to_order_[MarketId(k)] = ObjectOf(k)
        /\ \A s \in Sides : Walk(replica, s) = Walk(EngineBook, s)
        /\ \A i \in Levels(EngineBook) :
              replica.levels[i].orders = [n \in DOMAIN EngineBook.levels[i].orders |->
                                              ObjectOf(EngineBook.levels[i].orders[n])]

\* A quote the strategies can see is the "total quantity at best bid and ask
\* prices" (market_order.h:66).  (It may be missing: the first order of an empty
\* side does not set it.)
QuoteIsTotal ==
    ~replica.fault =>
        \A s \in Sides :
            LET best == Best(EngineBook, s)
            IN  bbo_[s] # NoQuote =>
                  /\ best # Null
                  /\ bbo_[s].price = EngineBook.levels[best].price
                  /\ bbo_[s].qty = Total(LevelQtys(EngineBook, best))

\* So it is, although it is computed anew only when an update is at or above the
\* best price of the moment before it, as long as no id was given out while it was
\* in use and no level misplaced.
QuoteIsBest == ~spoiled[0] /\ ~overwritten => QuoteIsTotal
=============================================================================
