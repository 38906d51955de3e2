---------------------------- MODULE PriceTimeBook ----------------------------
(***************************************************************************)
(* What an order book promises: an incoming order trades with the resting  *)
(* order of the other side that has the best price, and among those with   *)
(* the one that came first, for as long as prices cross; what is left of   *)
(* it rests.  Orders are numbered in the order they come.                  *)
(***************************************************************************)
EXTENDS Integers

CONSTANTS BuyPrices, SellPrices, Qtys, Null

VARIABLES
    resting,   \* the orders in the book
    incoming,  \* the order being matched, or Null
    arrived    \* how many orders have come

vars == <<resting, incoming, arrived>>

Init == resting = {} /\ incoming = Null /\ arrived = 0

Arrive ==
    /\ incoming = Null
    /\ \E side \in {"BUY", "SELL"}, qty \in Qtys :
          \E price \in IF side = "BUY" THEN BuyPrices ELSE SellPrices :
              incoming' = [id |-> arrived, side |-> side, price |-> price, qty |-> qty]
    /\ arrived' = arrived + 1
    /\ UNCHANGED resting

Tradable == {o \in resting :
                /\ o.side # incoming.side
                /\ IF incoming.side = "BUY" THEN o.price <= incoming.price
                   ELSE o.price >= incoming.price}

\* o is served before p.
Before(o, p) ==
    \/ IF o.side = "SELL" THEN o.price < p.price ELSE o.price > p.price
    \/ o.price = p.price /\ o.id < p.id

Trade ==
    /\ incoming # Null
    /\ incoming.qty > 0
    /\ \E o \in Tradable :
          LET fill == IF o.qty < incoming.qty THEN o.qty ELSE incoming.qty
              left == [o EXCEPT !.qty = @ - fill]
          IN  /\ \A p \in Tradable \ {o} : Before(o, p)
              /\ resting' = (resting \ {o}) \cup (IF left.qty > 0 THEN {left} ELSE {})
              /\ incoming' = [incoming EXCEPT !.qty = @ - fill]
    /\ UNCHANGED arrived

Settle ==
    /\ incoming # Null
    /\ incoming.qty = 0 \/ Tradable = {}
    /\ resting' = resting \cup (IF incoming.qty > 0 THEN {incoming} ELSE {})
    /\ incoming' = Null
    /\ UNCHANGED arrived

Cancel ==
    /\ incoming = Null
    /\ \E o \in resting : resting' = resting \ {o}
    /\ UNCHANGED <<incoming, arrived>>

Next == Arrive \/ Trade \/ Settle \/ Cancel

Spec == Init /\ [][Next]_vars
=============================================================================
