---------------------------- MODULE TradingOrders ----------------------------
(***************************************************************************)
(* The strategy side of the trading client (Chapter10/trading/strategy):   *)
(* the TradeEngine thread with its OrderManager, PositionKeeper and        *)
(* RiskManager, driven by the market maker or the liquidity taker, and the *)
(* exchange its requests go to.  The queues between them are FIFOs (module *)
(* LFQueue) and the connection keeps order (module OrderEntry); fills are  *)
(* made at any time and race with cancels.                                 *)
(*                                                                         *)
(* One ticker: every table is indexed by ticker, and no operation touches  *)
(* two of them but for the counter of order ids.                           *)
(***************************************************************************)
EXTENDS Integers, Sequences, FiniteSets

CONSTANTS
    Prices,        \* the prices a strategy may quote
    Clip,          \* clip_ of the ticker's configuration: the size of orders
    MaxOrderSize,  \* max_order_size_ of its risk configuration
    MaxPosition,   \* max_position_ of its risk configuration
    MaxOrders,     \* bound: orders the manager makes
    SendsNew,      \* FALSE: newOrder() as written, which never sends the request
    SignedSides,   \* FALSE: addFill() as written, which takes an index for a sign
    Invalid        \* Price_INVALID, Side::INVALID

ASSUME InvalidAssumption == Invalid \notin Prices /\ Invalid \notin {"BUY", "SELL"}
ASSUME LimitsAssumption ==
    /\ Clip \in Nat \ {0} /\ MaxOrderSize \in Nat
    /\ MaxPosition \in Nat /\ MaxOrders \in Nat
ASSUME SwitchesAssumption == SendsNew \in BOOLEAN /\ SignedSides \in BOOLEAN

VARIABLES
    algo,            \* the strategy the engine was started with
    ticker_side_order_,  \* OrderManager: the order of each side
    next_order_id_,  \* OrderManager
    position_,       \* PositionInfo
    requests,        \* requests on their way to the matching engine
    responses,       \* responses on their way to the trade engine
    resting,         \* the exchange: this client's orders in the book
    filled,          \* history: what the exchange has filled of each side
    left             \* history: what the exchange has not filled of a side's order

vars == <<algo, ticker_side_order_, next_order_id_, position_, requests, responses,
          resting, filled, left>>

Sides == {"BUY", "SELL"}
States == {"INVALID", "PENDING_NEW", "LIVE", "PENDING_CANCEL", "DEAD"}
Pending == {"PENDING_NEW", "PENDING_CANCEL"}

Abs(n) == IF n < 0 THEN -n ELSE n

sideToValue(side) == IF side = "BUY" THEN 1 ELSE -1

\* sideToIndex(): 2 for a buy and 0 for a sell.
sideToIndex(side) == sideToValue(side) + 1

Init ==
    /\ algo \in {"MAKER", "TAKER"}
    /\ ticker_side_order_ = [s \in Sides |->
           [id |-> 0, price |-> Invalid, qty |-> 0, state |-> "INVALID"]]
    /\ next_order_id_ = 1
    /\ position_ = 0
    /\ requests = << >> /\ responses = << >>
    /\ resting = {}
    /\ filled = [s \in Sides |-> 0]
    /\ left = [s \in Sides |-> 0]

-----------------------------------------------------------------------------
(* OrderManager: a strategy wants an order at a price on either side.       *)

\* Mutant: the quantity is taken with the wrong sign.
RiskOfOtherSide(side, qty) ==
    /\ qty <= MaxOrderSize
    /\ Abs(position_ - sideToValue(side) * qty) <= MaxPosition

\* The test of the position reached.  open_vwap_ is never initialised and
\* total_pnl_ follows from it, so that the test of the loss may come out
\* either way: losing.
checkPreTradeRisk(side, qty) ==
    /\ qty <= MaxOrderSize
    /\ Abs(position_ + sideToValue(side) * qty) <= MaxPosition

\* Mutant: a new order replaces the one whose cancel is on its way.
MayPlaceEarly(order, side, price, losing) ==
    /\ order.state \in {"INVALID", "DEAD", "PENDING_CANCEL"}
    /\ price # Invalid
    /\ checkPreTradeRisk(side, Clip)
    /\ ~losing

\* moveOrder() makes a new order.
MayPlace(order, side, price, losing) ==
    /\ order.state \in {"INVALID", "DEAD"}
    /\ price # Invalid
    /\ checkPreTradeRisk(side, Clip)
    /\ ~losing

\* moveOrder() cancels the order it has.
MustCancel(order, price) == order.state = "LIVE" /\ (order.price # price \/ order.qty # Clip)

Request(type, id, side, price, qty) ==
    [type |-> type, id |-> id, side |-> side, price |-> price, qty |-> qty]

\* The order of side after moveOrder(), and the requests it sends.
moveOrder(side, price, id, losing) ==
    LET order == ticker_side_order_[side]
    IN  IF MayPlace(order, side, price, losing)
        THEN [order |-> [id |-> id, price |-> price, qty |-> Clip, state |-> "PENDING_NEW"],
              sent  |-> IF SendsNew THEN <<Request("NEW", id, side, price, Clip)>> ELSE << >>]
        ELSE IF MustCancel(order, price)
        THEN [order |-> [order EXCEPT !.state = "PENDING_CANCEL"],
              sent  |-> <<Request("CANCEL", order.id, side, order.price, order.qty)>>]
        ELSE [order |-> order, sent |-> << >>]

\* Bid and ask, in this order, with the ids next_order_id_ gives them.
moveOrders(bid_price, ask_price) ==
    \E losing \in BOOLEAN :
        LET bid    == moveOrder("BUY", bid_price, next_order_id_, losing)
            placed == MayPlace(ticker_side_order_["BUY"], "BUY", bid_price, losing)
            then   == IF placed THEN next_order_id_ + 1 ELSE next_order_id_
            ask    == moveOrder("SELL", ask_price, then, losing)
            moved  == [s \in Sides |-> IF s = "BUY" THEN bid.order ELSE ask.order]
            next   == IF MayPlace(ticker_side_order_["SELL"], "SELL", ask_price, losing)
                      THEN then + 1 ELSE then
        IN  /\ next <= MaxOrders + 1
            /\ ticker_side_order_' = moved
            /\ next_order_id_' = next
            /\ requests' = requests \o bid.sent \o ask.sent
            /\ left' = [s \in Sides |-> IF moved[s].id # ticker_side_order_[s].id
                                        THEN moved[s].qty ELSE left[s]]
            /\ UNCHANGED <<algo, position_, responses, resting, filled>>

\* MarketMaker: both sides of the book are there, and each quote is at the
\* best price or one below it.
onOrderBookUpdate ==
    /\ algo = "MAKER"
    /\ \E bid_price, ask_price \in Prices : moveOrders(bid_price, ask_price)

\* LiquidityTaker: a large trade is followed on its side, the other is given up.
onTradeUpdate ==
    /\ algo = "TAKER"
    /\ \E price \in Prices :
          moveOrders(price, Invalid) \/ moveOrders(Invalid, price)

-----------------------------------------------------------------------------
(* TradeEngine: a response.                                                *)

\* What a fill of one changes the position by.
FillSign(side) == IF SignedSides THEN sideToValue(side) ELSE sideToIndex(side)

\* PositionKeeper::addFill, before the strategy hears of the response.
addFill(response) ==
    position_' = IF response.type = "FILLED"
                 THEN position_ + response.exec_qty * FillSign(response.side)
                 ELSE position_

\* Mutant: the fill that ends an order does not end one that is being canceled.
UpdatedUnlessCanceling(order, response) ==
    CASE response.type = "ACCEPTED" -> [order EXCEPT !.state = "LIVE"]
      [] response.type = "CANCELED" -> [order EXCEPT !.state = "DEAD"]
      [] response.type = "FILLED" ->
             [order EXCEPT !.qty = response.leaves_qty,
                           !.state = IF response.leaves_qty = 0 /\ @ # "PENDING_CANCEL"
                                     THEN "DEAD" ELSE @]

\* Mutant: a partial fill leaves the quantity alone.
UpdatedAtEnd(order, response) ==
    CASE response.type = "ACCEPTED" -> [order EXCEPT !.state = "LIVE"]
      [] response.type = "CANCELED" -> [order EXCEPT !.state = "DEAD"]
      [] response.type = "FILLED" ->
             IF response.leaves_qty = 0 THEN [order EXCEPT !.qty = 0, !.state = "DEAD"]
             ELSE order

Updated(order, response) ==
    CASE response.type = "ACCEPTED" -> [order EXCEPT !.state = "LIVE"]
      [] response.type = "CANCELED" -> [order EXCEPT !.state = "DEAD"]
      [] response.type = "FILLED" ->
             [order EXCEPT !.qty = response.leaves_qty,
                           !.state = IF response.leaves_qty = 0 THEN "DEAD" ELSE @]

\* The order is found by the side of the response, never by its id.  The side
\* of a CANCEL_REJECTED is INVALID: it finds an entry that holds no order, and
\* nothing is done with it.
onOrderUpdate ==
    /\ responses # << >>
    /\ LET response == Head(responses)
       IN  /\ addFill(response)
           /\ IF response.side = Invalid
              THEN UNCHANGED ticker_side_order_
              ELSE ticker_side_order_' =
                       [ticker_side_order_ EXCEPT ![response.side] = Updated(@, response)]
    /\ responses' = Tail(responses)
    /\ UNCHANGED <<algo, next_order_id_, requests, resting, filled, left>>

-----------------------------------------------------------------------------
(* The exchange, as this client meets it (module MatchingEngine).          *)

Response(type, id, side, exec, leaves) ==
    [type |-> type, id |-> id, side |-> side, exec_qty |-> exec, leaves_qty |-> leaves]

AcceptNew ==
    /\ requests # << >>
    /\ LET new == Head(requests)
       IN  /\ new.type = "NEW"
           /\ resting' = resting \cup {[id |-> new.id, side |-> new.side, qty |-> new.qty]}
           /\ responses' = Append(responses,
                                  Response("ACCEPTED", new.id, new.side, 0, new.qty))
    /\ requests' = Tail(requests)
    /\ UNCHANGED <<algo, ticker_side_order_, next_order_id_, position_, filled, left>>

Cancel ==
    /\ requests # << >>
    /\ Head(requests).type = "CANCEL"
    /\ \/ \E order \in resting :
             /\ order.id = Head(requests).id
             /\ resting' = resting \ {order}
             /\ responses' = Append(responses,
                                    Response("CANCELED", order.id, order.side, 0, order.qty))
       \/ /\ \A order \in resting : order.id # Head(requests).id
          /\ responses' = Append(responses,
                                 Response("CANCEL_REJECTED", Head(requests).id, Invalid, 0, 0))
          /\ UNCHANGED resting
    /\ requests' = Tail(requests)
    /\ UNCHANGED <<algo, ticker_side_order_, next_order_id_, position_, filled, left>>

\* Another client trades with an order of this one.
Fill ==
    \E order \in resting : \E exec \in 1 .. order.qty :
        LET leaves == order.qty - exec
        IN  /\ resting' = (resting \ {order}) \cup
                          (IF leaves = 0 THEN {} ELSE {[order EXCEPT !.qty = leaves]})
            /\ responses' = Append(responses,
                                   Response("FILLED", order.id, order.side, exec, leaves))
            /\ filled' = [filled EXCEPT ![order.side] = @ + exec]
            /\ left' = [left EXCEPT ![order.side] = leaves]
            /\ UNCHANGED <<algo, ticker_side_order_, next_order_id_, position_, requests>>

Next == onOrderBookUpdate \/ onTradeUpdate \/ onOrderUpdate \/ AcceptNew \/ Cancel \/ Fill

Spec == Init /\ [][Next]_vars

\* The exchange works off its requests and the trade engine its responses; the
\* market owes nobody an update or a fill.
FairSpec == Spec /\ WF_vars(onOrderUpdate) /\ WF_vars(AcceptNew \/ Cancel)

-----------------------------------------------------------------------------
(* Properties *)

Queued(queue, side, types) ==
    {i \in DOMAIN queue : queue[i].side = side /\ queue[i].type \in types}

AboutOrder == {"ACCEPTED", "CANCELED", "FILLED"}

Exposed(side) == {requests[i].id : i \in Queued(requests, side, {"NEW"})}
                   \cup {o.id : o \in {r \in resting : r.side = side}}

Requests == [type : {"NEW", "CANCEL"}, id : Nat, side : Sides,
             price : Prices \cup {Invalid}, qty : Nat]
Responses ==
    [type : AboutOrder, id : Nat, side : Sides, exec_qty : Nat, leaves_qty : Nat]
      \cup [type : {"CANCEL_REJECTED"}, id : Nat, side : {Invalid}, exec_qty : Nat,
            leaves_qty : Nat]

TypeOK ==
    /\ algo \in {"MAKER", "TAKER"}
    /\ ticker_side_order_ \in [Sides -> [id : Nat, price : Prices \cup {Invalid},
                                        qty : Nat, state : States]]
    /\ next_order_id_ \in Nat
    /\ position_ \in Int /\ filled \in [Sides -> Nat]
    /\ requests \in Seq(Requests) /\ responses \in Seq(Responses)
    /\ resting \subseteq [id : Nat, side : Sides, qty : Nat]
    /\ left \in [Sides -> Nat]

\* What was bought less what was sold.
Traded == filled["BUY"] - filled["SELL"]

\* Whatever fills have overtaken cancels and whatever the trade engine has not
\* heard yet, no more than the limit is held: checkPreTradeRisk() tests against
\* a position that lags behind, and that counts a buy twice and a sell not at
\* all (position_keeper.h:33).
LongLimit == Traded <= MaxPosition

\* The limit as the names POSITION_TOO_LARGE and "max-position:" have it, for
\* both directions.  It is kept where fills count with their sign; as written,
\* sells leave position_ where it is, and no number of them is too large.
PositionLimit == Abs(Traded) <= MaxPosition

\* The exchange never has two orders of one side, resting or on their way,
\* although the manager forgets an order as soon as its own entry says DEAD.
OneOrderPerSide ==
    \A s \in Sides : \A i, j \in Exposed(s) : i = j

\* onOrderUpdate() files a response under the order of its side without
\* comparing ids: it is always the order the response is about.
ResponseMeetsItsOrder ==
    \A s \in Sides : \A i \in Queued(responses, s, AboutOrder) :
        responses[i].id = ticker_side_order_[s].id

\* With nothing on its way the manager's order of a side is the one in the
\* book, with what is left of it, no order of the book is unknown to it, and an
\* order that is still pending was never sent; and position_ has counted every
\* fill once, by whatever sign.
AgreesWhenQuiet ==
    requests = << >> /\ responses = << >> =>
        /\ position_ = filled["BUY"] * FillSign("BUY") + filled["SELL"] * FillSign("SELL")
        /\ \A s \in Sides :
              LET order == ticker_side_order_[s]
              IN  /\ {o \in resting : o.side = s}
                       = IF order.state \in {"LIVE", "PENDING_CANCEL"}
                         THEN {[id |-> order.id, side |-> s, qty |-> order.qty]} ELSE {}
                  /\ order.state = "PENDING_NEW" => ~SendsNew

\* An order whose request has been sent does not stay pending: it is answered,
\* or a fill that overtook the cancel has ended it.
SentEnds ==
    \A s \in Sides :
        (\E i \in DOMAIN requests : requests[i].id = ticker_side_order_[s].id)
            ~> ticker_side_order_[s].state \notin Pending

\* What order_manager.cpp:21 logs of every new order ("Sent new order") and the
\* state PENDING_NEW says: the exchange has been asked, and will answer.  It is not
\* so with SendsNew = FALSE, the code as written; then no state of the manager ever
\* changes again on a side that has had an order.
PendingEnds ==
    \A s \in Sides :
        ticker_side_order_[s].state \in Pending ~> ticker_side_order_[s].state \notin Pending

-----------------------------------------------------------------------------
(* The inductive invariant behind the safety properties.  A side's order is *)
(* a request on its way, or an order of the book, or what the responses on  *)
(* their way say of it.                                                     *)

New(queue, side) == Queued(queue, side, {"NEW"})
Heard(queue, side) == Queued(queue, side, AboutOrder)
Fills(queue, side) == Queued(queue, side, {"FILLED"})
RestIn(orders, side) == {o \in orders : o.side = side}

Ends(response) == \/ response.type = "CANCELED"
                  \/ response.type = "FILLED" /\ response.leaves_qty = 0
Ended(queue, side) == \E i \in Heard(queue, side) : Ends(queue[i])
Accepted(queue, side) == \E i \in Heard(queue, side) : queue[i].type = "ACCEPTED"

\* The responses about a side are about one order, and the one that ends it
\* comes last.
AboutOne(queue, side, id) ==
    \A i \in Heard(queue, side) :
        /\ queue[i].id = id
        /\ Ends(queue[i]) => \A j \in Heard(queue, side) : j <= i

\* The fills of a side on their way take a quantity from one value to another.
Chain(queue, side, from, to) ==
    /\ to <= from
    /\ Fills(queue, side) = {} => from = to
    /\ \A i \in Fills(queue, side) :
          LET before == queue[i].exec_qty + queue[i].leaves_qty
          IN  /\ to <= queue[i].leaves_qty
              /\ (\A k \in Fills(queue, side) : k >= i) => before = from
              /\ (\A k \in Fills(queue, side) : k <= i) => queue[i].leaves_qty = to
              /\ \A j \in Fills(queue, side) :
                    j < i /\ (\A k \in Fills(queue, side) : k <= j \/ k >= i)
                        => before = queue[j].leaves_qty

\* At most one request for a new order is on its way: for this one.
NewOnce(queue, side, id, qty) ==
    /\ \A i \in New(queue, side) : queue[i].id = id /\ queue[i].qty = qty
    /\ \A i, j \in New(queue, side) : i = j

\* The order of a side, of which the exchange has not filled n, is in one
\* place, and nothing of an order that has ended is anywhere.
OnePlace(side, order, n, reqs, resps, orders) ==
    /\ AboutOne(resps, side, order.id)
    /\ Chain(resps, side, order.qty, n)
    /\ NewOnce(reqs, side, order.id, n)
    /\ \A o \in RestIn(orders, side) : o.id = order.id /\ o.qty = n
    /\ \A o, p \in RestIn(orders, side) : o = p
    /\ New(reqs, side) # {} => RestIn(orders, side) = {} /\ Heard(resps, side) = {}
    /\ Ended(resps, side) => New(reqs, side) = {} /\ RestIn(orders, side) = {}
    /\ order.state \in {"INVALID", "DEAD"} =>
          New(reqs, side) = {} /\ RestIn(orders, side) = {} /\ Heard(resps, side) = {}

\* An order that the manager waits for or quotes with is somewhere.
Somewhere(side, order, reqs, resps, orders) ==
    /\ order.state \in {"LIVE", "PENDING_CANCEL"} \/ Accepted(resps, side) =>
          RestIn(orders, side) # {} \/ Ended(resps, side)
    /\ SendsNew /\ order.state = "PENDING_NEW" => New(reqs, side) # {} \/ Accepted(resps, side)

IdsBelow == \A s \in Sides : ticker_side_order_[s].id < next_order_id_

Places == \A s \in Sides :
    OnePlace(s, ticker_side_order_[s], left[s], requests, responses, resting)

Found == \A s \in Sides :
    Somewhere(s, ticker_side_order_[s], requests, responses, resting)

\* What the position lacks are the fills on their way.
PositionLags ==
    position_ = (filled["BUY"] - (ticker_side_order_["BUY"].qty - left["BUY"])) * FillSign("BUY")
              + (filled["SELL"] - (ticker_side_order_["SELL"].qty - left["SELL"])) * FillSign("SELL")

\* The limit has room for what is left of the orders at the exchange.  As long
\* as sells do not count, they make no room for buys.
Out(side) == New(requests, side) # {} \/ RestIn(resting, side) # {}
Sold == IF SignedSides THEN filled["SELL"] ELSE 0
RoomLeft ==
    /\ filled["BUY"] - Sold <= MaxPosition
    /\ Out("BUY") => filled["BUY"] - Sold + left["BUY"] <= MaxPosition
    /\ SignedSides => /\ filled["SELL"] - filled["BUY"] <= MaxPosition
                      /\ Out("SELL") => filled["SELL"] - filled["BUY"] + left["SELL"] <= MaxPosition

\* As long as newOrder() sends nothing, nothing is ever asked of the exchange.
NothingSent ==
    ~SendsNew => /\ requests = << >> /\ responses = << >> /\ resting = {}
                 /\ \A s \in Sides : ticker_side_order_[s].state \in {"INVALID", "PENDING_NEW"}

TradingInv ==
    /\ TypeOK /\ IdsBelow /\ Places /\ Found /\ NothingSent
    /\ PositionLags /\ RoomLeft
=============================================================================
