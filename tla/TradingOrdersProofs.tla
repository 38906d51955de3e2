------------------------- MODULE TradingOrdersProofs -------------------------
(***************************************************************************)
(* Proofs about TradingOrders, for every set of prices, every clip and     *)
(* every limit.  The responses on their way are the state that the two     *)
(* ends do not share: the lemmas of the first half say what one response   *)
(* more at the end, or one less at the front, does to what they tell.      *)
(***************************************************************************)
EXTENDS TradingOrders, SequenceTheorems, TLAPS

-----------------------------------------------------------------------------
(* Queues *)

\* What is left of a queue moves one place to the front.
LEMMA TailParts ==
    ASSUME NEW S, NEW q \in Seq(S), q # << >>
    PROVE  /\ Tail(q) \in Seq(S)
           /\ 1 \in DOMAIN q /\ Head(q) = q[1]
           /\ \A i \in DOMAIN q : i \in Nat /\ i >= 1
           /\ \A i \in DOMAIN Tail(q) : /\ i \in Nat /\ i >= 1
                                        /\ i + 1 \in DOMAIN q /\ Tail(q)[i] = q[i + 1]
           /\ \A i \in DOMAIN q : i = 1 \/ (i - 1 \in DOMAIN Tail(q) /\ Tail(q)[i - 1] = q[i])
OBVIOUS

\* A queue grows at its end.
LEMMA AppendParts ==
    ASSUME NEW S, NEW q \in Seq(S), NEW e \in S
    PROVE  /\ Append(q, e) \in Seq(S)
           /\ Len(q) \in Nat
           /\ \A i \in DOMAIN q : i \in 1 .. Len(q) /\ Append(q, e)[i] = q[i]
           /\ DOMAIN Append(q, e) = DOMAIN q \cup {Len(q) + 1}
           /\ Append(q, e)[Len(q) + 1] = e
           /\ Len(q) + 1 \notin DOMAIN q
OBVIOUS

\* The places that Queued finds in the rest of a queue.
LEMMA QueuedTail ==
    ASSUME NEW S, NEW q \in Seq(S), q # << >>, NEW s, NEW T
    PROVE  /\ \A i \in Queued(Tail(q), s, T) :
                 i \in Nat /\ i >= 1 /\ i + 1 \in Queued(q, s, T) /\ Tail(q)[i] = q[i + 1]
           /\ \A i \in Queued(q, s, T) :
                 /\ i \in Nat /\ i >= 1
                 /\ i = 1 \/ (i - 1 \in Queued(Tail(q), s, T) /\ Tail(q)[i - 1] = q[i])
           /\ 1 \in Queued(q, s, T) <=> Head(q).side = s /\ Head(q).type \in T
BY TailParts DEF Queued

-----------------------------------------------------------------------------
(* What the responses tell of one side *)

\* A response less at the front.
LEMMA AboutOneTail ==
    ASSUME NEW q \in Seq(Responses), q # << >>, NEW s, NEW id, AboutOne(q, s, id)
    PROVE  /\ AboutOne(Tail(q), s, id)
           /\ Ended(Tail(q), s) => Ended(q, s)
           /\ Accepted(Tail(q), s) => Accepted(q, s)
           /\ Heard(q, s) = {} => Heard(Tail(q), s) = {}
           /\ ~(Head(q).side = s /\ Ends(Head(q))) => (Ended(q, s) => Ended(Tail(q), s))
           /\ ~(Head(q).side = s /\ Head(q).type = "ACCEPTED") =>
                 (Accepted(q, s) => Accepted(Tail(q), s))
           /\ Head(q).side = s /\ Ends(Head(q)) => /\ Ended(q, s)
                                                   /\ Heard(Tail(q), s) = {}
<1> DEFINE H == Heard(q, s)
           R == Heard(Tail(q), s)
<1>1. /\ \A i \in R : i \in Nat /\ i >= 1 /\ i + 1 \in H /\ Tail(q)[i] = q[i + 1]
      /\ \A i \in H : /\ i \in Nat /\ i >= 1
                      /\ i = 1 \/ (i - 1 \in R /\ Tail(q)[i - 1] = q[i])
      /\ 1 \in H <=> Head(q).side = s /\ Head(q).type \in AboutOrder
  <2> DEFINE T == AboutOrder
  <2> HIDE DEF T
  <2>1. /\ \A i \in Queued(Tail(q), s, T) :
              i \in Nat /\ i >= 1 /\ i + 1 \in Queued(q, s, T) /\ Tail(q)[i] = q[i + 1]
        /\ \A i \in Queued(q, s, T) :
              /\ i \in Nat /\ i >= 1
              /\ i = 1 \/ (i - 1 \in Queued(Tail(q), s, T) /\ Tail(q)[i - 1] = q[i])
        /\ 1 \in Queued(q, s, T) <=> Head(q).side = s /\ Head(q).type \in T
    BY QueuedTail, Zenon
  <2>2. QED BY <2>1, Zenon DEF Heard, T
<1>2. Head(q) = q[1]
  BY TailParts
<1>3. \A i \in H : q[i].id = id /\ (Ends(q[i]) => \A j \in H : j <= i)
  BY DEF AboutOne
<1>4. Ends(Head(q)) => Head(q).type \in AboutOrder
  BY DEF Ends, AboutOrder
<1> HIDE DEF H, R
<1>5. \A i \in R : Tail(q)[i].id = id /\ (Ends(Tail(q)[i]) => \A j \in R : j <= i)
  <2> SUFFICES ASSUME NEW i \in R
               PROVE  Tail(q)[i].id = id /\ (Ends(Tail(q)[i]) => \A j \in R : j <= i)
    OBVIOUS
  <2>1. i \in Nat /\ i + 1 \in H /\ Tail(q)[i] = q[i + 1]
    BY <1>1
  <2>2. ASSUME Ends(q[i + 1]), NEW j \in R PROVE j <= i
    <3>1. j \in Nat /\ j + 1 \in H
      BY <1>1
    <3>2. j + 1 <= i + 1
      BY <1>3, <2>1, <2>2, <3>1
    <3>3. QED BY <2>1, <3>1, <3>2
  <2>3. QED BY <1>3, <2>1, <2>2
<1>6. (\E i \in R : Ends(Tail(q)[i])) => \E i \in H : Ends(q[i])
  BY <1>1
<1>7. (\E i \in R : Tail(q)[i].type = "ACCEPTED") => \E i \in H : q[i].type = "ACCEPTED"
  BY <1>1
<1>8. H = {} => R = {}
  BY <1>1
<1>9. ASSUME ~(Head(q).side = s /\ Ends(Head(q))), NEW i \in H, Ends(q[i])
      PROVE  \E k \in R : Ends(Tail(q)[k])
  BY <1>1, <1>2, <1>9
<1>10. ASSUME ~(Head(q).side = s /\ Head(q).type = "ACCEPTED"),
              NEW i \in H, q[i].type = "ACCEPTED"
       PROVE  \E k \in R : Tail(q)[k].type = "ACCEPTED"
  BY <1>1, <1>2, <1>10
<1>11. ASSUME Head(q).side = s, Ends(Head(q))
       PROVE  (\E i \in H : Ends(q[i])) /\ R = {}
  <2>1. 1 \in H
    BY <1>1, <1>4, <1>11
  <2>2. \A j \in H : j <= 1
    BY <1>2, <1>3, <1>11, <2>1
  <2>3. R = {}
    BY <1>1, <2>2
  <2>4. QED BY <1>2, <1>11, <2>1, <2>3
<1>12. QED
  BY <1>5, <1>6, <1>7, <1>8, <1>9, <1>10, <1>11 DEF AboutOne, Ended, Accepted, H, R

\* A response more at the end, about an order that has not ended.
LEMMA AboutOneAppend ==
    ASSUME NEW q \in Seq(Responses), NEW e \in Responses, NEW s, NEW id, AboutOne(q, s, id),
           e.side = s => e.id = id /\ ~Ended(q, s) /\ e.type \in AboutOrder
    PROVE  /\ AboutOne(Append(q, e), s, id)
           /\ e.side # s => Heard(Append(q, e), s) = Heard(q, s)
           /\ Ended(Append(q, e), s) <=> (Ended(q, s) \/ (e.side = s /\ Ends(e)))
           /\ Accepted(Append(q, e), s) <=>
                 (Accepted(q, s) \/ (e.side = s /\ e.type = "ACCEPTED"))
<1> DEFINE H == Heard(q, s)
           G == Heard(Append(q, e), s)
<1>1. /\ \A i \in H : i \in Nat /\ i <= Len(q) /\ Append(q, e)[i] = q[i]
      /\ Append(q, e)[Len(q) + 1] = e
      /\ Len(q) \in Nat
      /\ e.side = s => G = H \cup {Len(q) + 1}
      /\ e.side # s => G = H
  <2>1. /\ \A i \in H : i \in Nat /\ i <= Len(q) /\ Append(q, e)[i] = q[i]
        /\ Append(q, e)[Len(q) + 1] = e
        /\ Len(q) \in Nat
    BY AppendParts DEF Heard, Queued
  <2>2. ASSUME e.side = s PROVE G = H \cup {Len(q) + 1}
    BY AppendParts, <2>2 DEF Heard, Queued
  <2>3. ASSUME e.side # s PROVE G = H
    BY AppendParts, <2>3 DEF Heard, Queued
  <2>4. QED BY <2>1, <2>2, <2>3
<1>2. \A i \in H : q[i].id = id /\ (Ends(q[i]) => \A j \in H : j <= i)
  BY DEF AboutOne
<1>3. e.side = s => ~\E i \in H : Ends(q[i])
  BY DEF Ended
<1> HIDE DEF H, G
<1>4. \A i \in G : /\ Append(q, e)[i].id = id
                   /\ Ends(Append(q, e)[i]) => \A j \in G : j <= i
  <2>1. CASE e.side # s
    BY <1>1, <1>2, <2>1
  <2>2. CASE e.side = s
    <3> SUFFICES ASSUME NEW i \in G
                 PROVE  /\ Append(q, e)[i].id = id
                        /\ Ends(Append(q, e)[i]) => \A j \in G : j <= i
      OBVIOUS
    <3>1. CASE i = Len(q) + 1
      BY <1>1, <2>2, <3>1
    <3>2. CASE i \in H
      BY <1>1, <1>2, <1>3, <2>2, <3>2
    <3>3. i = Len(q) + 1 \/ i \in H
      BY <1>1, <2>2
    <3>4. QED BY <3>1, <3>2, <3>3
  <2>3. QED BY <2>1, <2>2
<1>5. (\E i \in G : Ends(Append(q, e)[i])) <=> (\E i \in H : Ends(q[i])) \/ (e.side = s /\ Ends(e))
  BY <1>1
<1>6. (\E i \in G : Append(q, e)[i].type = "ACCEPTED")
        <=> (\E i \in H : q[i].type = "ACCEPTED") \/ (e.side = s /\ e.type = "ACCEPTED")
  BY <1>1
<1>7. e.side # s => G = H
  BY <1>1
<1>8. QED
  BY <1>4, <1>5, <1>6, <1>7 DEF AboutOne, Ended, Accepted, H, G

\* Fills that are heard leave a shorter chain.
LEMMA ChainTail ==
    ASSUME NEW q \in Seq(Responses), q # << >>, NEW s, NEW a \in Nat, NEW b \in Nat,
           Chain(q, s, a, b)
    PROVE  LET e == Head(q)
           IN  IF e.side = s /\ e.type = "FILLED"
               THEN e.exec_qty + e.leaves_qty = a /\ Chain(Tail(q), s, e.leaves_qty, b)
               ELSE Chain(Tail(q), s, a, b)
<1> DEFINE F == Fills(q, s)
           R == Fills(Tail(q), s)
           L(i) == q[i].leaves_qty
           B(i) == q[i].exec_qty + q[i].leaves_qty
<1>1. /\ \A i \in R : i \in Nat /\ i >= 1 /\ i + 1 \in F
      /\ \A i \in F : i \in Nat /\ i >= 1 /\ (i = 1 \/ i - 1 \in R)
      /\ 1 \in F <=> Head(q).side = s /\ Head(q).type = "FILLED"
  BY TailParts DEF Fills, Queued
<1>2. Head(q) = q[1] /\ \A i \in R : Tail(q)[i] = q[i + 1]
  BY TailParts DEF Fills, Queued
<1>3. \A i \in F : L(i) \in Nat /\ B(i) \in Nat
  <2>1. \A i \in F : q[i] \in Responses
    BY DEF Fills, Queued
  <2>2. QED BY <2>1 DEF Responses
<1>4. /\ b <= a
      /\ F = {} => a = b
      /\ \A i \in F :
            /\ b <= L(i)
            /\ (\A k \in F : k >= i) => B(i) = a
            /\ (\A k \in F : k <= i) => L(i) = b
            /\ \A j \in F : j < i /\ (\A k \in F : k <= j \/ k >= i) => B(i) = L(j)
  BY DEF Chain
<1> HIDE DEF F, R, L, B
<1>5. ASSUME NEW c \in Nat, c = IF 1 \in F THEN L(1) ELSE a
      PROVE  Chain(Tail(q), s, c, b)
  <2>1. b <= c
    BY <1>4, <1>5
  <2>2. ASSUME R = {} PROVE c = b
    <3>1. \A k \in F : k <= 1
      BY <1>1, <2>2
    <3>2. QED BY <1>1, <1>4, <1>5, <2>2, <3>1
  <2>3. ASSUME NEW i \in R
        PROVE  /\ b <= L(i + 1)
               /\ (\A k \in R : k >= i) => B(i + 1) = c
               /\ (\A k \in R : k <= i) => L(i + 1) = b
               /\ \A j \in R : j < i /\ (\A k \in R : k <= j \/ k >= i)
                                => B(i + 1) = L(j + 1)
    <3>1. i \in Nat /\ i >= 1 /\ i + 1 \in F
      BY <1>1
    <3>2. b <= L(i + 1)
      BY <1>4, <3>1
    <3>3. ASSUME \A k \in R : k >= i PROVE B(i + 1) = c
      <4>1. \A k \in F : k = 1 \/ k >= i + 1
        BY <1>1, <3>1, <3>3
      <4>2. CASE 1 \in F
        BY <1>1, <1>4, <1>5, <3>1, <4>1, <4>2
      <4>3. CASE 1 \notin F
        BY <1>1, <1>4, <1>5, <3>1, <4>1, <4>3
      <4>4. QED BY <4>2, <4>3
    <3>4. ASSUME \A k \in R : k <= i PROVE L(i + 1) = b
      <4>1. \A k \in F : k <= i + 1
        BY <1>1, <3>1, <3>4
      <4>2. QED BY <1>4, <3>1, <4>1
    <3>5. ASSUME NEW j \in R, j < i, \A k \in R : k <= j \/ k >= i
          PROVE  B(i + 1) = L(j + 1)
      <4>1. j \in Nat /\ j >= 1 /\ j + 1 \in F
        BY <1>1
      <4>2. \A k \in F : k <= j + 1 \/ k >= i + 1
        <5> SUFFICES ASSUME NEW k \in F PROVE k <= j + 1 \/ k >= i + 1
          OBVIOUS
        <5>1. k \in Nat /\ (k = 1 \/ k - 1 \in R)
          BY <1>1
        <5>2. k - 1 \in R => k - 1 <= j \/ k - 1 >= i
          BY <3>5
        <5>3. QED BY <3>1, <4>1, <5>1, <5>2
      <4>3. QED BY <1>4, <3>1, <3>5, <4>1, <4>2
    <3>6. QED BY <3>2, <3>3, <3>4, <3>5
  <2>4. \A i \in R : Tail(q)[i] = q[i + 1]
    BY <1>2
  <2>5. QED BY ZenonT(60), <2>1, <2>2, <2>3, <2>4 DEF Chain, R, L, B
<1>6. ASSUME 1 \in F PROVE B(1) = a
  <2>1. \A k \in F : k >= 1
    BY <1>1
  <2>2. QED BY <1>4, <1>6, <2>1
<1>7. CASE 1 \in F
  BY <1>1, <1>2, <1>3, <1>5, <1>6, <1>7 DEF L, B
<1>8. CASE 1 \notin F
  BY <1>1, <1>5, <1>8
<1>9. QED BY <1>7, <1>8

\* A fill of what was left lengthens the chain.
LEMMA ChainAppend ==
    ASSUME NEW q \in Seq(Responses), NEW e \in Responses, NEW s, NEW a \in Nat, NEW b \in Nat,
           Chain(q, s, a, b),
           e.side = s /\ e.type = "FILLED" => e.exec_qty + e.leaves_qty = b
    PROVE  Chain(Append(q, e), s, a,
                 IF e.side = s /\ e.type = "FILLED" THEN e.leaves_qty ELSE b)
<1> DEFINE F == Fills(q, s)
           G == Fills(Append(q, e), s)
           n == Len(q) + 1
           L(i) == q[i].leaves_qty
           B(i) == q[i].exec_qty + q[i].leaves_qty
<1>1. /\ \A i \in F : i \in Nat /\ i < n /\ Append(q, e)[i] = q[i]
      /\ Append(q, e)[n] = e
      /\ n \in Nat
  BY AppendParts DEF Fills, Queued
<1>2. \A i \in F : L(i) \in Nat /\ B(i) \in Nat
  <2>1. \A i \in F : q[i] \in Responses
    BY DEF Fills, Queued
  <2>2. QED BY <2>1 DEF Responses
<1>3. /\ b <= a
      /\ F = {} => a = b
      /\ \A i \in F :
            /\ b <= L(i)
            /\ (\A k \in F : k >= i) => B(i) = a
            /\ (\A k \in F : k <= i) => L(i) = b
            /\ \A j \in F : j < i /\ (\A k \in F : k <= j \/ k >= i) => B(i) = L(j)
  BY DEF Chain
<1>4. CASE ~(e.side = s /\ e.type = "FILLED")
  <2>1. G = F
    BY AppendParts, <1>4 DEF Fills, Queued
  <2>2. \A i \in F : Append(q, e)[i] = q[i]
    BY <1>1
  <2> DEFINE M(i) == Append(q, e)[i].leaves_qty
             A(i) == Append(q, e)[i].exec_qty + Append(q, e)[i].leaves_qty
  <2>3. \A i \in F : M(i) = L(i) /\ A(i) = B(i)
    BY <2>2
  <2> HIDE DEF F, G, L, B, M, A
  <2>4. ASSUME NEW i \in G
        PROVE  /\ b <= M(i)
               /\ (\A k \in G : k >= i) => A(i) = a
               /\ (\A k \in G : k <= i) => M(i) = b
               /\ \A j \in G : j < i /\ (\A k \in G : k <= j \/ k >= i) => A(i) = M(j)
    BY <1>3, <2>1, <2>3
  <2>5. b <= a /\ (G = {} => a = b)
    BY <1>3, <2>1
  <2>6. Chain(Append(q, e), s, a, b)
    BY <2>4, <2>5 DEF Chain, G, M, A
  <2>7. QED BY <1>4, <2>6
<1>5. CASE e.side = s /\ e.type = "FILLED"
  <2>1. G = F \cup {n}
    BY AppendParts, <1>5 DEF Fills, Queued
  <2>2. e.exec_qty \in Nat /\ e.leaves_qty \in Nat /\ e.exec_qty + e.leaves_qty = b
    BY <1>5 DEF Responses
  <2> DEFINE c == e.leaves_qty
             M(i) == Append(q, e)[i].leaves_qty
             A(i) == Append(q, e)[i].exec_qty + Append(q, e)[i].leaves_qty
  <2>3. /\ \A i \in F : M(i) = L(i) /\ A(i) = B(i)
        /\ M(n) = c /\ A(n) = b
    BY <1>1, <2>2
  <2> HIDE DEF F, G, n, L, B, c, M, A
  <2>4. c \in Nat /\ c <= b
    BY <2>2 DEF c
  <2>5. ASSUME NEW i \in G
        PROVE  /\ c <= M(i)
               /\ (\A k \in G : k >= i) => A(i) = a
               /\ (\A k \in G : k <= i) => M(i) = c
               /\ \A j \in G : j < i /\ (\A k \in G : k <= j \/ k >= i) => A(i) = M(j)
    <3>1. CASE i = n
      <4>1. c <= M(i) /\ M(i) = c
        BY <2>3, <2>4, <3>1
      <4>2. ASSUME \A k \in G : k >= i PROVE A(i) = a
        BY <1>1, <1>3, <2>1, <2>3, <3>1, <4>2
      <4>3. ASSUME NEW j \in G, j < i, \A k \in G : k <= j \/ k >= i PROVE A(i) = M(j)
        <5>1. j \in F
          BY <1>1, <2>1, <3>1, <4>3
        <5>2. \A k \in F : k <= j
          BY <1>1, <2>1, <3>1, <4>3
        <5>3. QED BY <1>3, <2>3, <3>1, <5>1, <5>2
      <4>4. QED BY <4>1, <4>2, <4>3
    <3>2. CASE i \in F
      <4>1. c <= M(i)
        BY <1>2, <1>3, <2>3, <2>4, <3>2 DEF L
      <4>2. ASSUME \A k \in G : k >= i PROVE A(i) = a
        BY <1>3, <2>1, <2>3, <3>2, <4>2
      <4>3. ~\A k \in G : k <= i
        BY <1>1, <2>1, <3>2
      <4>4. ASSUME NEW j \in G, j < i, \A k \in G : k <= j \/ k >= i PROVE A(i) = M(j)
        <5>1. j \in F
          BY <1>1, <2>1, <3>2, <4>4
        <5>2. QED BY <1>3, <2>1, <2>3, <3>2, <4>4, <5>1
      <4>5. QED BY <4>1, <4>2, <4>3, <4>4
    <3>3. QED BY <2>1, <3>1, <3>2
  <2>6. c <= a /\ G # {}
    BY <1>3, <2>1, <2>4
  <2>7. QED BY <1>5, <2>5, <2>6 DEF Chain, G, c, M, A
<1>6. QED BY <1>4, <1>5

-----------------------------------------------------------------------------
(* What moveOrder() sends *)

\* A request more at the end.
LEMMA NewAppend ==
    ASSUME NEW q \in Seq(Requests), NEW e \in Requests, NEW s
    PROVE  /\ e.side = s /\ e.type = "NEW" => New(Append(q, e), s) = New(q, s) \cup {Len(q) + 1}
           /\ ~(e.side = s /\ e.type = "NEW") => New(Append(q, e), s) = New(q, s)
<1>1. ASSUME e.side = s, e.type = "NEW"
      PROVE  New(Append(q, e), s) = New(q, s) \cup {Len(q) + 1}
  BY AppendParts, <1>1 DEF New, Queued
<1>2. ASSUME ~(e.side = s /\ e.type = "NEW")
      PROVE  New(Append(q, e), s) = New(q, s)
  BY AppendParts, <1>2 DEF New, Queued
<1>3. QED BY <1>1, <1>2

OrderRecords == [id : Nat, price : Prices \cup {Invalid}, qty : Nat, state : States]

\* moveOrder() behind the requests q: the requests, and the order of its side.
SentBy(q, side, price, id, losing) == q \o moveOrder(side, price, id, losing).sent
OrderBy(side, price, id, losing) == moveOrder(side, price, id, losing).order

\* Either it makes a new order, with one request, or it keeps the order it
\* has, with no request for a new one.
PlacesOrKeeps(q, side, price, id, losing) ==
    LET sent  == SentBy(q, side, price, id, losing)
        order == OrderBy(side, price, id, losing)
        old   == ticker_side_order_[side]
    IN  /\ sent \in Seq(Requests) /\ order \in OrderRecords
        /\ \A t : t # side => New(sent, t) = New(q, t)
        /\ \A t : \A i \in New(q, t) : sent[i] = q[i]
        /\ IF MayPlace(old, side, price, losing)
           THEN /\ order.id = id /\ order.qty = Clip /\ order.state = "PENDING_NEW"
                /\ \/ ~SendsNew /\ New(sent, side) = New(q, side)
                   \/ \E n : /\ New(sent, side) = New(q, side) \cup {n}
                            /\ sent[n].id = id /\ sent[n].qty = Clip
           ELSE /\ order.id = old.id /\ order.qty = old.qty
                /\ \/ order.state = old.state
                   \/ old.state = "LIVE" /\ order.state = "PENDING_CANCEL"
                /\ New(sent, side) = New(q, side)

\* So does moveOrder(), for either side.
LEMMA MoveOne ==
    ASSUME TypeOK, NEW q \in Seq(Requests), NEW side \in Sides,
           NEW price \in Prices \cup {Invalid}, NEW id \in Nat, NEW losing
    PROVE  PlacesOrKeeps(q, side, price, id, losing)
<1> DEFINE sent  == SentBy(q, side, price, id, losing)
           order == OrderBy(side, price, id, losing)
           old   == ticker_side_order_[side]
<1>1. old \in OrderRecords
  BY DEF TypeOK, OrderRecords
<1>2. Clip \in Nat
  BY LimitsAssumption
<1>3. CASE MayPlace(old, side, price, losing)
  <2> DEFINE r == Request("NEW", id, side, price, Clip)
  <2>1. order = [id |-> id, price |-> price, qty |-> Clip, state |-> "PENDING_NEW"]
    BY <1>3 DEF OrderBy, moveOrder
  <2>2. order \in OrderRecords
    BY <1>2, <2>1 DEF OrderRecords, States
  <2>3. r \in Requests /\ r.id = id /\ r.side = side /\ r.type = "NEW" /\ r.qty = Clip
    BY <1>2 DEF Request, Requests
  <2>4. CASE SendsNew
    <3>1. sent = q \o <<r>>
      BY <1>3, <2>4 DEF SentBy, moveOrder
    <3> HIDE DEF r
    <3>2. sent = Append(q, r)
      BY <2>3, <3>1, AppendIsConcat
    <3>3. sent \in Seq(Requests)
      BY <2>3, <3>2, AppendParts
    <3>4. /\ \A t : t # side => New(sent, t) = New(q, t)
          /\ \A t : \A i \in New(q, t) : sent[i] = q[i]
          /\ New(sent, side) = New(q, side) \cup {Len(q) + 1}
          /\ sent[Len(q) + 1] = r
      <4>1. \A t : t # side => New(Append(q, r), t) = New(q, t)
        BY <2>3, NewAppend
      <4>2. New(Append(q, r), side) = New(q, side) \cup {Len(q) + 1}
        BY <2>3, NewAppend
      <4>3. \A t : \A i \in New(q, t) : Append(q, r)[i] = q[i]
        BY <2>3, AppendParts DEF New, Queued
      <4>4. Append(q, r)[Len(q) + 1] = r
        BY <2>3, AppendParts
      <4>5. QED BY <3>2, <4>1, <4>2, <4>3, <4>4
    <3>5. QED BY <1>3, <2>1, <2>2, <2>3, <3>3, <3>4 DEF PlacesOrKeeps
  <2>5. CASE ~SendsNew
    <3>1. sent = q \o << >>
      BY <1>3, <2>5 DEF SentBy, moveOrder
    <3>2. sent = q
      BY <3>1, ConcatEmptySeq
    <3>3. QED BY <1>3, <2>1, <2>2, <2>5, <3>2 DEF PlacesOrKeeps
  <2>6. QED BY <2>4, <2>5
<1>4. CASE ~MayPlace(old, side, price, losing) /\ MustCancel(old, price)
  <2> DEFINE r == Request("CANCEL", old.id, side, old.price, old.qty)
  <2>1. order = [old EXCEPT !.state = "PENDING_CANCEL"] /\ sent = q \o <<r>>
    BY <1>4 DEF SentBy, OrderBy, moveOrder
  <2>2. r \in Requests /\ r.side = side /\ r.type = "CANCEL"
    BY <1>1 DEF Request, Requests, OrderRecords
  <2>3. /\ order \in OrderRecords /\ order.id = old.id /\ order.qty = old.qty
        /\ old.state = "LIVE" /\ order.state = "PENDING_CANCEL"
    BY <1>1, <1>4, <2>1 DEF OrderRecords, States, MustCancel
  <2> HIDE DEF r
  <2>4. sent = Append(q, r)
    BY <2>1, <2>2, AppendIsConcat
  <2>5. sent \in Seq(Requests)
    BY <2>2, <2>4, AppendParts
  <2>6. /\ \A t : New(sent, t) = New(q, t)
        /\ \A t : \A i \in New(q, t) : sent[i] = q[i]
    <3>1. \A t : New(Append(q, r), t) = New(q, t)
      BY <2>2, NewAppend
    <3>2. \A t : \A i \in New(q, t) : Append(q, r)[i] = q[i]
      BY <2>2, AppendParts DEF New, Queued
    <3>3. QED BY <2>4, <3>1, <3>2
  <2>7. QED BY <1>4, <2>3, <2>5, <2>6 DEF PlacesOrKeeps
<1>5. CASE ~MayPlace(old, side, price, losing) /\ ~MustCancel(old, price)
  <2>1. order = old /\ sent = q \o << >>
    BY <1>5 DEF SentBy, OrderBy, moveOrder
  <2>2. sent = q
    BY <2>1, ConcatEmptySeq
  <2>3. QED BY <1>1, <1>5, <2>1, <2>2 DEF PlacesOrKeeps
<1>6. QED BY <1>3, <1>4, <1>5

\* What a step of the manager does to one side: a new order in place of one
\* that has ended, or the order it had.
Replaced(s) ==
    LET old == ticker_side_order_[s]
        new == ticker_side_order_'[s]
    IN  /\ old.state \in {"INVALID", "DEAD"}
        /\ checkPreTradeRisk(s, Clip)
        /\ new.qty = Clip /\ new.state = "PENDING_NEW" /\ left'[s] = Clip
        /\ \/ ~SendsNew /\ New(requests', s) = New(requests, s)
           \/ \E n : /\ New(requests', s) = New(requests, s) \cup {n}
                    /\ requests'[n].id = new.id /\ requests'[n].qty = Clip

Kept(s) ==
    LET old == ticker_side_order_[s]
        new == ticker_side_order_'[s]
    IN  /\ new.id = old.id /\ new.qty = old.qty /\ left'[s] = left[s]
        /\ \/ new.state = old.state
           \/ old.state = "LIVE" /\ new.state = "PENDING_CANCEL"
        /\ New(requests', s) = New(requests, s)
        /\ \A i \in New(requests, s) : requests'[i] = requests[i]

\* moveOrders() does one or the other to each side.
LEMMA Moved ==
    ASSUME TypeOK, IdsBelow, NEW b \in Prices \cup {Invalid}, NEW a \in Prices \cup {Invalid},
           moveOrders(b, a)
    PROVE  /\ TypeOK' /\ IdsBelow'
           /\ UNCHANGED <<position_, responses, resting, filled>>
           /\ \A s \in Sides : Replaced(s) \/ Kept(s)
<1> DEFINE oldB == ticker_side_order_["BUY"]
           oldS == ticker_side_order_["SELL"]
           id1 == next_order_id_
           pb(l) == MayPlace(oldB, "BUY", b, l)
           id2(l) == IF pb(l) THEN id1 + 1 ELSE id1
           pa(l) == MayPlace(oldS, "SELL", a, l)
           id3(l) == IF pa(l) THEN id2(l) + 1 ELSE id2(l)
           bo(l) == OrderBy("BUY", b, id1, l)
           ao(l) == OrderBy("SELL", a, id2(l), l)
           mid(l) == SentBy(requests, "BUY", b, id1, l)
           fin(l) == SentBy(mid(l), "SELL", a, id2(l), l)
<1>1. PICK l \in BOOLEAN :
        /\ ticker_side_order_' = [s \in Sides |-> IF s = "BUY" THEN bo(l) ELSE ao(l)]
        /\ next_order_id_' = id3(l)
        /\ requests' = fin(l)
        /\ left' = [s \in Sides |->
               IF (IF s = "BUY" THEN bo(l) ELSE ao(l)).id # ticker_side_order_[s].id
               THEN (IF s = "BUY" THEN bo(l) ELSE ao(l)).qty ELSE left[s]]
        /\ UNCHANGED <<algo, position_, responses, resting, filled>>
  BY DEF moveOrders, SentBy, OrderBy, Sides
<1>2. /\ requests \in Seq(Requests) /\ id1 \in Nat /\ id2(l) \in Nat /\ id3(l) \in Nat
      /\ id1 <= id2(l) /\ id2(l) <= id3(l)
      /\ oldB.id < id1 /\ oldS.id < id1 /\ oldB.id \in Nat /\ oldS.id \in Nat
      /\ "BUY" \in Sides /\ "SELL" \in Sides /\ "BUY" # "SELL"
  BY DEF TypeOK, IdsBelow, Sides
<1> HIDE DEF bo, ao, mid, fin, pb, pa, oldB, oldS
<1>3. /\ mid(l) \in Seq(Requests) /\ bo(l) \in OrderRecords
      /\ New(mid(l), "SELL") = New(requests, "SELL")
      /\ \A t : \A i \in New(requests, t) : mid(l)[i] = requests[i]
      /\ IF pb(l)
         THEN /\ bo(l).id = id1 /\ bo(l).qty = Clip /\ bo(l).state = "PENDING_NEW"
              /\ \/ ~SendsNew /\ New(mid(l), "BUY") = New(requests, "BUY")
                 \/ \E n : /\ New(mid(l), "BUY") = New(requests, "BUY") \cup {n}
                          /\ mid(l)[n].id = id1 /\ mid(l)[n].qty = Clip
         ELSE /\ bo(l).id = oldB.id /\ bo(l).qty = oldB.qty
              /\ \/ bo(l).state = oldB.state
                 \/ oldB.state = "LIVE" /\ bo(l).state = "PENDING_CANCEL"
              /\ New(mid(l), "BUY") = New(requests, "BUY")
  <2>1. PlacesOrKeeps(requests, "BUY", b, id1, l)
    BY <1>2, MoveOne
  <2>2. QED BY <1>2, <2>1 DEF PlacesOrKeeps, bo, mid, pb, oldB
<1>4. /\ fin(l) \in Seq(Requests) /\ ao(l) \in OrderRecords
      /\ New(fin(l), "BUY") = New(mid(l), "BUY")
      /\ \A t : \A i \in New(mid(l), t) : fin(l)[i] = mid(l)[i]
      /\ IF pa(l)
         THEN /\ ao(l).id = id2(l) /\ ao(l).qty = Clip /\ ao(l).state = "PENDING_NEW"
              /\ \/ ~SendsNew /\ New(fin(l), "SELL") = New(mid(l), "SELL")
                 \/ \E n : /\ New(fin(l), "SELL") = New(mid(l), "SELL") \cup {n}
                          /\ fin(l)[n].id = id2(l) /\ fin(l)[n].qty = Clip
         ELSE /\ ao(l).id = oldS.id /\ ao(l).qty = oldS.qty
              /\ \/ ao(l).state = oldS.state
                 \/ oldS.state = "LIVE" /\ ao(l).state = "PENDING_CANCEL"
              /\ New(fin(l), "SELL") = New(mid(l), "SELL")
  <2>1. mid(l) \in Seq(Requests)
    BY <1>3
  <2> HIDE DEF id2
  <2>2. PlacesOrKeeps(mid(l), "SELL", a, id2(l), l)
    BY <1>2, <2>1, MoveOne
  <2>3. QED BY <1>2, <2>2 DEF PlacesOrKeeps, ao, fin, pa, oldS
<1>5. /\ ticker_side_order_'["BUY"] = bo(l) /\ ticker_side_order_'["SELL"] = ao(l)
      /\ left'["BUY"] = IF bo(l).id # oldB.id THEN bo(l).qty ELSE left["BUY"]
      /\ left'["SELL"] = IF ao(l).id # oldS.id THEN ao(l).qty ELSE left["SELL"]
  BY <1>1, <1>2 DEF oldB, oldS
<1>6. Replaced("BUY") \/ Kept("BUY")
  <2>1. CASE pb(l)
    <3>1. oldB.state \in {"INVALID", "DEAD"} /\ checkPreTradeRisk("BUY", Clip)
      BY <2>1 DEF pb, MayPlace
    <3>2. bo(l).id # oldB.id
      BY <1>2, <1>3, <2>1
    <3>3. CASE ~SendsNew /\ New(mid(l), "BUY") = New(requests, "BUY")
      BY <1>1, <1>3, <1>4, <1>5, <2>1, <3>1, <3>2, <3>3 DEF Replaced, oldB
    <3>4. ASSUME NEW n, New(mid(l), "BUY") = New(requests, "BUY") \cup {n},
                 mid(l)[n].id = id1, mid(l)[n].qty = Clip
          PROVE  Replaced("BUY")
      <4>1. fin(l)[n] = mid(l)[n]
        BY <1>4, <3>4
      <4>2. New(requests', "BUY") = New(requests, "BUY") \cup {n}
        BY <1>1, <1>4, <3>4
      <4>3. requests'[n].id = bo(l).id /\ requests'[n].qty = Clip
        BY <1>1, <1>3, <2>1, <3>4, <4>1
      <4>4. left'["BUY"] = Clip /\ bo(l).qty = Clip /\ bo(l).state = "PENDING_NEW"
        BY <1>3, <1>5, <2>1, <3>2
      <4>5. QED BY <1>5, <3>1, <4>2, <4>3, <4>4 DEF Replaced, oldB
    <3>5. QED BY <1>3, <2>1, <3>3, <3>4
  <2>2. CASE ~pb(l)
    BY <1>1, <1>3, <1>4, <1>5, <2>2 DEF Kept, oldB
  <2>3. QED BY <2>1, <2>2
<1>7. Replaced("SELL") \/ Kept("SELL")
  <2>1. CASE pa(l)
    <3>1. oldS.state \in {"INVALID", "DEAD"} /\ checkPreTradeRisk("SELL", Clip)
      BY <2>1 DEF pa, MayPlace
    <3>2. ao(l).id # oldS.id
      BY <1>2, <1>4, <2>1
    <3>3. left'["SELL"] = Clip /\ ao(l).qty = Clip /\ ao(l).state = "PENDING_NEW"
      BY <1>4, <1>5, <2>1, <3>2
    <3>4. QED BY <1>1, <1>3, <1>4, <1>5, <2>1, <3>1, <3>3 DEF Replaced, oldS
  <2>2. CASE ~pa(l)
    BY <1>1, <1>3, <1>4, <1>5, <2>2 DEF Kept, oldS
  <2>3. QED BY <2>1, <2>2
<1>8. TypeOK'
  <2>1. left' \in [Sides -> Nat]
    BY <1>1, <1>3, <1>4 DEF TypeOK, OrderRecords
  <2>2. ticker_side_order_' \in [Sides -> OrderRecords]
    BY <1>1, <1>3, <1>4
  <2>3. QED BY <1>1, <1>2, <1>4, <2>1, <2>2 DEF TypeOK, OrderRecords
<1>9. IdsBelow'
  BY <1>1, <1>2, <1>3, <1>4, <1>5 DEF IdsBelow, Sides
<1>10. QED BY <1>1, <1>6, <1>7, <1>8, <1>9 DEF Sides

-----------------------------------------------------------------------------
(* Requests that the exchange has not taken yet *)

\* A request less at the front.
LEMMA NewTail ==
    ASSUME NEW q \in Seq(Requests), q # << >>, NEW s, NEW id, NEW qty, NewOnce(q, s, id, qty)
    PROVE  /\ NewOnce(Tail(q), s, id, qty)
           /\ IF Head(q).side = s /\ Head(q).type = "NEW"
              THEN /\ New(Tail(q), s) = {} /\ New(q, s) # {}
                   /\ Head(q).id = id /\ Head(q).qty = qty
              ELSE New(Tail(q), s) = {} <=> New(q, s) = {}
<1> DEFINE H == New(q, s)
           R == New(Tail(q), s)
<1>1. /\ \A i \in R : i \in Nat /\ i >= 1 /\ i + 1 \in H
      /\ \A i \in H : i \in Nat /\ i >= 1 /\ (i = 1 \/ i - 1 \in R)
      /\ 1 \in H <=> Head(q).side = s /\ Head(q).type = "NEW"
  BY TailParts DEF New, Queued
<1>2. Head(q) = q[1] /\ \A i \in R : Tail(q)[i] = q[i + 1]
  BY TailParts DEF New, Queued
<1>3. /\ \A i \in H : q[i].id = id /\ q[i].qty = qty
      /\ \A i, j \in H : i = j
  BY DEF NewOnce
<1> HIDE DEF H, R
<1>4. \A i \in R : Tail(q)[i].id = id /\ Tail(q)[i].qty = qty
  BY <1>1, <1>2, <1>3
<1>5. ASSUME NEW i \in R, NEW j \in R PROVE i = j
  <2>1. i + 1 = j + 1 /\ i \in Nat /\ j \in Nat
    BY <1>1, <1>3
  <2>2. QED BY <2>1
<1>6. ASSUME 1 \in H PROVE R = {}
  <2>1. \A i \in R : i + 1 = 1 /\ i \in Nat /\ i >= 1
    BY <1>1, <1>3, <1>6
  <2>2. QED BY <2>1
<1>7. ASSUME 1 \notin H PROVE R = {} <=> H = {}
  BY <1>1, <1>7
<1>8. NewOnce(Tail(q), s, id, qty)
  BY <1>4, <1>5 DEF NewOnce, R
<1>9. CASE 1 \in H
  <2>1. q[1].id = id /\ q[1].qty = qty /\ R = {} /\ H # {}
    BY <1>3, <1>6, <1>9
  <2>2. QED BY <1>1, <1>2, <1>8, <1>9, <2>1 DEF H, R
<1>10. CASE 1 \notin H
  <2>1. ~(Head(q).side = s /\ Head(q).type = "NEW")
    BY <1>1, <1>10
  <2>2. QED BY <1>7, <1>8, <1>10, <2>1 DEF H, R
<1>11. QED BY <1>9, <1>10

-----------------------------------------------------------------------------
(* Every step preserves what is known of a side *)

\* A step of the manager, seen from one side.
LEMMA PlaceMoved ==
    ASSUME NEW s, NEW o, NEW n, NEW reqs, NEW resps, NEW orders,
           OnePlace(s, o, n, reqs, resps, orders),
           NEW p, NEW m, NEW reqs2,
           \/ /\ o.state \in {"INVALID", "DEAD"}
              /\ p.qty = Clip /\ p.state = "PENDING_NEW" /\ m = Clip
              /\ \/ ~SendsNew /\ New(reqs2, s) = New(reqs, s)
                 \/ \E k : /\ New(reqs2, s) = New(reqs, s) \cup {k}
                          /\ reqs2[k].id = p.id /\ reqs2[k].qty = Clip
           \/ /\ p.id = o.id /\ p.qty = o.qty /\ m = n
              /\ p.state = o.state \/ (o.state = "LIVE" /\ p.state = "PENDING_CANCEL")
              /\ New(reqs2, s) = New(reqs, s)
              /\ \A i \in New(reqs, s) : reqs2[i] = reqs[i]
    PROVE  /\ OnePlace(s, p, m, reqs2, resps, orders)
           /\ Somewhere(s, o, reqs, resps, orders) =>
                 Somewhere(s, p, reqs2, resps, orders)
<1>1. CASE /\ o.state \in {"INVALID", "DEAD"}
           /\ p.qty = Clip /\ p.state = "PENDING_NEW" /\ m = Clip
           /\ \/ ~SendsNew /\ New(reqs2, s) = New(reqs, s)
              \/ \E k : /\ New(reqs2, s) = New(reqs, s) \cup {k}
                       /\ reqs2[k].id = p.id /\ reqs2[k].qty = Clip
  <2>1. New(reqs, s) = {} /\ RestIn(orders, s) = {} /\ Heard(resps, s) = {}
    BY <1>1 DEF OnePlace
  <2>2. Fills(resps, s) = {}
    BY <2>1 DEF Fills, Heard, Queued, AboutOrder
  <2>3. AboutOne(resps, s, p.id) /\ ~Ended(resps, s) /\ ~Accepted(resps, s)
    BY <2>1 DEF AboutOne, Ended, Accepted
  <2>4. Chain(resps, s, p.qty, m)
    BY <1>1, <2>2, LimitsAssumption DEF Chain
  <2>5. NewOnce(reqs2, s, p.id, m)
    BY <1>1, <2>1 DEF NewOnce
  <2>6. SendsNew => New(reqs2, s) # {}
    BY <1>1
  <2>7. QED BY <1>1, <2>1, <2>3, <2>4, <2>5, <2>6 DEF OnePlace, Somewhere
<1>2. CASE /\ p.id = o.id /\ p.qty = o.qty /\ m = n
           /\ p.state = o.state \/ (o.state = "LIVE" /\ p.state = "PENDING_CANCEL")
           /\ New(reqs2, s) = New(reqs, s)
           /\ \A i \in New(reqs, s) : reqs2[i] = reqs[i]
  <2>1. NewOnce(reqs2, s, p.id, m)
    BY <1>2 DEF OnePlace, NewOnce
  <2>2. QED BY <1>2, <2>1 DEF OnePlace, Somewhere
<1>3. QED BY <1>1, <1>2

\* The trade engine hears the next response: the side it is about, or another.
LEMMA PlaceHeard ==
    ASSUME NEW s \in Sides, NEW o \in OrderRecords, NEW n \in Nat, NEW reqs,
           NEW q \in Seq(Responses), q # << >>, NEW orders,
           OnePlace(s, o, n, reqs, q, orders),
           NEW e, e = Head(q), NEW p, p = IF e.side = s THEN Updated(o, e) ELSE o
    PROVE  /\ OnePlace(s, p, n, reqs, Tail(q), orders)
           /\ Somewhere(s, o, reqs, q, orders) => Somewhere(s, p, reqs, Tail(q), orders)
           /\ p \in OrderRecords /\ p.id = o.id
           /\ p.qty = o.qty - (IF e.side = s /\ e.type = "FILLED" THEN e.exec_qty ELSE 0)
<1> DEFINE r == Tail(q)
<1>1. e \in Responses
  BY TailParts
<1>2. o.qty \in Nat
  BY DEF OrderRecords
<1>3. /\ AboutOne(r, s, o.id)
      /\ Ended(r, s) => Ended(q, s)
      /\ Accepted(r, s) => Accepted(q, s)
      /\ Heard(q, s) = {} => Heard(r, s) = {}
      /\ ~(e.side = s /\ Ends(e)) => (Ended(q, s) => Ended(r, s))
      /\ ~(e.side = s /\ e.type = "ACCEPTED") => (Accepted(q, s) => Accepted(r, s))
      /\ e.side = s /\ Ends(e) => Ended(q, s) /\ Heard(r, s) = {}
  BY AboutOneTail DEF OnePlace
<1>4. IF e.side = s /\ e.type = "FILLED"
      THEN e.exec_qty + e.leaves_qty = o.qty /\ Chain(r, s, e.leaves_qty, n)
      ELSE Chain(r, s, o.qty, n)
  BY <1>2, ChainTail DEF OnePlace
<1>5. e.side = s /\ e.type = "ACCEPTED" => Accepted(q, s)
  <2>1. 1 \in DOMAIN q /\ q[1] = e
    BY TailParts
  <2>2. QED BY <2>1 DEF Accepted, Heard, Queued, AboutOrder
<1> HIDE DEF r
<1>6. CASE e.side # s
  <2>1. p = o
    BY <1>6
  <2>2. OnePlace(s, o, n, reqs, r, orders)
    BY <1>3, <1>4, <1>6 DEF OnePlace
  <2>3. Somewhere(s, o, reqs, q, orders) => Somewhere(s, o, reqs, r, orders)
    BY <1>3, <1>6 DEF Somewhere
  <2>4. QED BY <1>2, <1>6, <2>1, <2>2, <2>3 DEF r
<1>7. CASE e.side = s /\ e.type = "ACCEPTED"
  <2>1. p = [o EXCEPT !.state = "LIVE"]
    BY <1>7 DEF Updated
  <2>2. p \in OrderRecords /\ p.id = o.id /\ p.qty = o.qty /\ p.state = "LIVE"
    BY <2>1 DEF OrderRecords, States
  <2>3. ~Ends(e)
    BY <1>7 DEF Ends
  <2>4. OnePlace(s, p, n, reqs, r, orders)
    BY <1>3, <1>4, <1>7, <2>2 DEF OnePlace
  <2>5. Somewhere(s, o, reqs, q, orders) => Somewhere(s, p, reqs, r, orders)
    BY <1>3, <1>5, <1>7, <2>2, <2>3 DEF Somewhere
  <2>6. QED BY <1>2, <1>7, <2>2, <2>4, <2>5 DEF r
<1>8. CASE e.side = s /\ e.type # "ACCEPTED" /\ Ends(e)
  <2>1. e.type = "CANCELED" \/ (e.type = "FILLED" /\ e.leaves_qty = 0)
    BY <1>8 DEF Ends
  <2>2. /\ p \in OrderRecords /\ p.id = o.id /\ p.state = "DEAD"
        /\ p.qty = IF e.type = "FILLED" THEN e.leaves_qty ELSE o.qty
    <3>1. CASE e.type = "CANCELED"
      <4>1. p = [o EXCEPT !.state = "DEAD"]
        BY <1>8, <3>1 DEF Updated
      <4>2. QED BY <3>1, <4>1 DEF OrderRecords, States
    <3>2. CASE e.type = "FILLED" /\ e.leaves_qty = 0
      <4>1. p = [o EXCEPT !.qty = 0, !.state = "DEAD"]
        BY <1>8, <3>2 DEF Updated
      <4>2. p.id = o.id /\ p.state = "DEAD" /\ p.qty = 0 /\ p.price = o.price
        BY <4>1 DEF OrderRecords
      <4>3. p \in OrderRecords
        <5>1. p = [[o EXCEPT !.qty = 0] EXCEPT !.state = "DEAD"]
          BY <4>1
        <5>2. [o EXCEPT !.qty = 0] \in OrderRecords
          BY DEF OrderRecords
        <5>3. QED BY <5>1, <5>2 DEF OrderRecords, States
      <4>4. QED BY <3>2, <4>2, <4>3
    <3>3. QED BY <2>1, <3>1, <3>2
  <2>3. Heard(r, s) = {} /\ New(reqs, s) = {} /\ RestIn(orders, s) = {}
    BY <1>3, <1>8 DEF OnePlace
  <2>4. ~Ended(r, s) /\ ~Accepted(r, s)
    BY <2>3 DEF Ended, Accepted
  <2>5. Chain(r, s, p.qty, n)
    BY <1>4, <1>8, <2>2
  <2>6. OnePlace(s, p, n, reqs, r, orders)
    BY <1>3, <2>2, <2>3, <2>4, <2>5 DEF OnePlace
  <2>7. Somewhere(s, p, reqs, r, orders)
    BY <2>2, <2>4 DEF Somewhere
  <2>8. p.qty = o.qty - (IF e.side = s /\ e.type = "FILLED" THEN e.exec_qty ELSE 0)
    BY <1>1, <1>2, <1>4, <1>8, <2>2 DEF Responses
  <2>9. QED BY <2>2, <2>6, <2>7, <2>8 DEF r
<1>9. CASE e.side = s /\ e.type # "ACCEPTED" /\ ~Ends(e)
  <2>1. e.type = "FILLED" /\ e.leaves_qty # 0 /\ e.leaves_qty \in Nat /\ e.exec_qty \in Nat
    BY <1>1, <1>9, InvalidAssumption DEF Ends, Responses, AboutOrder, Sides
  <2>2. p = [o EXCEPT !.qty = e.leaves_qty]
    BY <1>9, <2>1 DEF Updated, OrderRecords
  <2>3. p \in OrderRecords /\ p.id = o.id /\ p.qty = e.leaves_qty /\ p.state = o.state
    BY <2>1, <2>2 DEF OrderRecords
  <2>4. OnePlace(s, p, n, reqs, r, orders)
    BY <1>3, <1>4, <1>9, <2>1, <2>3 DEF OnePlace
  <2>5. Somewhere(s, o, reqs, q, orders) => Somewhere(s, p, reqs, r, orders)
    BY <1>3, <1>9, <2>3 DEF Somewhere
  <2>6. p.qty = o.qty - e.exec_qty
    BY <1>2, <1>4, <1>9, <2>1, <2>3
  <2>7. QED BY <1>9, <2>1, <2>3, <2>4, <2>5, <2>6 DEF r
<1>10. QED BY <1>6, <1>7, <1>8, <1>9

\* The exchange answers, and the answer is about another side or about none.
LEMMA PlaceOther ==
    ASSUME NEW s, NEW o, o \in OrderRecords, NEW n \in Nat, NEW reqs \in Seq(Requests),
           NEW resps \in Seq(Responses), NEW orders,
           OnePlace(s, o, n, reqs, resps, orders),
           NEW reqs2,
           \/ reqs2 = reqs
           \/ /\ reqs # << >> /\ reqs2 = Tail(reqs)
              /\ ~(Head(reqs).side = s /\ Head(reqs).type = "NEW"),
           NEW e \in Responses, e.side # s,
           NEW orders2, RestIn(orders2, s) = RestIn(orders, s)
    PROVE  /\ OnePlace(s, o, n, reqs2, Append(resps, e), orders2)
           /\ Somewhere(s, o, reqs, resps, orders) =>
                 Somewhere(s, o, reqs2, Append(resps, e), orders2)
<1> DEFINE q == Append(resps, e)
<1>1. o.qty \in Nat
  BY DEF OrderRecords
<1>2. /\ AboutOne(q, s, o.id)
      /\ Heard(q, s) = Heard(resps, s)
      /\ Ended(q, s) <=> Ended(resps, s)
      /\ Accepted(q, s) <=> Accepted(resps, s)
  BY AboutOneAppend DEF OnePlace
<1>3. Chain(q, s, o.qty, n)
  BY <1>1, ChainAppend DEF OnePlace
<1>4. NewOnce(reqs2, s, o.id, n) /\ (New(reqs2, s) = {} <=> New(reqs, s) = {})
  BY NewTail DEF OnePlace
<1> HIDE DEF q
<1>5. QED BY <1>2, <1>3, <1>4 DEF OnePlace, Somewhere, q

\* The exchange takes the request for this side's new order.
LEMMA PlaceAccepted ==
    ASSUME NEW s, NEW o, o \in OrderRecords, NEW n \in Nat, NEW reqs \in Seq(Requests),
           NEW resps \in Seq(Responses), NEW orders,
           OnePlace(s, o, n, reqs, resps, orders),
           reqs # << >>, Head(reqs).side = s, Head(reqs).type = "NEW",
           NEW e \in Responses, e.side = s, e.type = "ACCEPTED", e.id = Head(reqs).id,
           NEW r, r.id = Head(reqs).id, r.qty = Head(reqs).qty,
           NEW orders2, RestIn(orders2, s) = RestIn(orders, s) \cup {r}
    PROVE  /\ OnePlace(s, o, n, Tail(reqs), Append(resps, e), orders2)
           /\ Somewhere(s, o, reqs, resps, orders) =>
                 Somewhere(s, o, Tail(reqs), Append(resps, e), orders2)
<1> DEFINE q == Append(resps, e)
<1>1. o.qty \in Nat
  BY DEF OrderRecords
<1>2. /\ NewOnce(Tail(reqs), s, o.id, n)
      /\ New(Tail(reqs), s) = {} /\ New(reqs, s) # {}
      /\ Head(reqs).id = o.id /\ Head(reqs).qty = n
  BY NewTail DEF OnePlace
<1>3. RestIn(orders, s) = {} /\ Heard(resps, s) = {}
  BY <1>2 DEF OnePlace
<1>4. ~Ended(resps, s) /\ ~Ends(e)
  BY <1>3 DEF Ended, Ends
<1>5. /\ AboutOne(q, s, o.id)
      /\ Ended(q, s) <=> Ended(resps, s)
      /\ Accepted(q, s)
  BY <1>2, <1>4, AboutOneAppend DEF OnePlace, AboutOrder
<1>6. Chain(q, s, o.qty, n)
  BY <1>1, ChainAppend DEF OnePlace
<1>7. RestIn(orders2, s) = {r}
  BY <1>3
<1>8. o.state \notin {"INVALID", "DEAD"}
  BY <1>2 DEF OnePlace
<1> HIDE DEF q
<1>9. QED BY <1>2, <1>4, <1>5, <1>6, <1>7, <1>8 DEF OnePlace, Somewhere, q

\* The exchange cancels this side's order.
LEMMA PlaceCanceled ==
    ASSUME NEW s, NEW o, o \in OrderRecords, NEW n \in Nat, NEW reqs \in Seq(Requests),
           NEW resps \in Seq(Responses), NEW orders,
           OnePlace(s, o, n, reqs, resps, orders),
           reqs # << >>, Head(reqs).type = "CANCEL",
           NEW r \in RestIn(orders, s),
           NEW e \in Responses, e.side = s, e.type = "CANCELED", e.id = r.id,
           NEW orders2, RestIn(orders2, s) = RestIn(orders, s) \ {r}
    PROVE  /\ OnePlace(s, o, n, Tail(reqs), Append(resps, e), orders2)
           /\ Somewhere(s, o, reqs, resps, orders) =>
                 Somewhere(s, o, Tail(reqs), Append(resps, e), orders2)
<1> DEFINE q == Append(resps, e)
<1>1. o.qty \in Nat
  BY DEF OrderRecords
<1>2. NewOnce(Tail(reqs), s, o.id, n) /\ (New(Tail(reqs), s) = {} <=> New(reqs, s) = {})
  BY NewTail DEF OnePlace
<1>3. /\ New(reqs, s) = {} /\ ~Ended(resps, s) /\ r.id = o.id
      /\ o.state \notin {"INVALID", "DEAD"}
  BY DEF OnePlace
<1>4. Ends(e)
  BY DEF Ends
<1>5. /\ AboutOne(q, s, o.id)
      /\ Ended(q, s)
      /\ Accepted(q, s) <=> Accepted(resps, s)
  BY <1>3, <1>4, AboutOneAppend DEF OnePlace, AboutOrder
<1>6. Chain(q, s, o.qty, n)
  BY <1>1, ChainAppend DEF OnePlace
<1>7. RestIn(orders2, s) = {}
  BY DEF OnePlace
<1> HIDE DEF q
<1>8. QED BY <1>2, <1>3, <1>5, <1>6, <1>7 DEF OnePlace, Somewhere, q

\* Another client trades with this side's order.
LEMMA PlaceFilled ==
    ASSUME NEW s, NEW o, o \in OrderRecords, NEW n \in Nat, NEW reqs,
           NEW resps \in Seq(Responses), NEW orders,
           OnePlace(s, o, n, reqs, resps, orders),
           NEW r \in RestIn(orders, s), NEW m \in Nat,
           NEW e \in Responses, e.side = s, e.type = "FILLED", e.id = r.id,
           e.leaves_qty = m, e.exec_qty + m = r.qty,
           NEW r2, r2.id = r.id, r2.qty = m,
           NEW orders2,
           RestIn(orders2, s) = (RestIn(orders, s) \ {r}) \cup (IF m = 0 THEN {} ELSE {r2})
    PROVE  /\ OnePlace(s, o, m, reqs, Append(resps, e), orders2)
           /\ Somewhere(s, o, reqs, resps, orders) =>
                 Somewhere(s, o, reqs, Append(resps, e), orders2)
<1> DEFINE q == Append(resps, e)
<1>1. o.qty \in Nat
  BY DEF OrderRecords
<1>2. /\ New(reqs, s) = {} /\ ~Ended(resps, s) /\ r.id = o.id /\ r.qty = n
      /\ o.state \notin {"INVALID", "DEAD"}
  BY DEF OnePlace
<1>3. Ends(e) <=> m = 0
  BY DEF Ends
<1>4. /\ AboutOne(q, s, o.id)
      /\ Ended(q, s) <=> m = 0
      /\ Accepted(q, s) <=> Accepted(resps, s)
  BY <1>2, <1>3, AboutOneAppend DEF OnePlace, AboutOrder
<1>5. Chain(q, s, o.qty, m)
  BY <1>1, <1>2, ChainAppend DEF OnePlace
<1>6. RestIn(orders2, s) = IF m = 0 THEN {} ELSE {r2}
  BY DEF OnePlace
<1>7. NewOnce(reqs, s, o.id, m)
  BY <1>2 DEF NewOnce
<1> HIDE DEF q
<1>8. QED BY <1>2, <1>4, <1>5, <1>6, <1>7 DEF OnePlace, Somewhere, q

-----------------------------------------------------------------------------
(* The steps *)

Structure == TypeOK /\ IdsBelow /\ Places /\ Found

\* moveOrders() on behalf of either strategy.
LEMMA MoveStep ==
    ASSUME Structure, NEW b \in Prices \cup {Invalid}, NEW a \in Prices \cup {Invalid},
           moveOrders(b, a)
    PROVE  Structure'
<1>1. /\ TypeOK' /\ IdsBelow'
      /\ responses' = responses /\ resting' = resting
      /\ \A s \in Sides : Replaced(s) \/ Kept(s)
  BY Moved DEF Structure
<1>2. ASSUME NEW s \in Sides
      PROVE  /\ OnePlace(s, ticker_side_order_'[s], left'[s], requests', responses, resting)
             /\ Somewhere(s, ticker_side_order_'[s], requests', responses, resting)
  <2> DEFINE o == ticker_side_order_[s]
             p == ticker_side_order_'[s]
             n == left[s]
             m == left'[s]
  <2>1. /\ OnePlace(s, o, n, requests, responses, resting)
        /\ Somewhere(s, o, requests, responses, resting)
    BY DEF Structure, Places, Found
  <2>2. \/ /\ o.state \in {"INVALID", "DEAD"}
           /\ p.qty = Clip /\ p.state = "PENDING_NEW" /\ m = Clip
           /\ \/ ~SendsNew /\ New(requests', s) = New(requests, s)
              \/ \E k : /\ New(requests', s) = New(requests, s) \cup {k}
                       /\ requests'[k].id = p.id /\ requests'[k].qty = Clip
        \/ /\ p.id = o.id /\ p.qty = o.qty /\ m = n
           /\ p.state = o.state \/ (o.state = "LIVE" /\ p.state = "PENDING_CANCEL")
           /\ New(requests', s) = New(requests, s)
           /\ \A i \in New(requests, s) : requests'[i] = requests[i]
    BY <1>1 DEF Replaced, Kept
  <2> HIDE DEF o, p, n, m
  <2>3. /\ OnePlace(s, p, m, requests', responses, resting)
        /\ Somewhere(s, o, requests, responses, resting) =>
              Somewhere(s, p, requests', responses, resting)
    BY <2>1, <2>2, PlaceMoved
  <2>4. QED BY <2>1, <2>3 DEF p, m
<1>3. QED BY <1>1, <1>2 DEF Structure, Places, Found

\* onOrderUpdate() of TradeEngine.
LEMMA HeardStep ==
    ASSUME Structure, onOrderUpdate
    PROVE  /\ Structure'
           /\ \A s \in Sides :
                 ticker_side_order_'[s].qty = ticker_side_order_[s].qty
                   - (IF Head(responses).side = s /\ Head(responses).type = "FILLED"
                      THEN Head(responses).exec_qty ELSE 0)
<1> DEFINE e == Head(responses)
<1>1. /\ responses \in Seq(Responses) /\ responses # << >>
      /\ ticker_side_order_ \in [Sides -> OrderRecords] /\ left \in [Sides -> Nat]
      /\ position_ \in Int
  BY DEF Structure, TypeOK, onOrderUpdate, OrderRecords
<1>2. e \in Responses /\ Tail(responses) \in Seq(Responses)
  BY <1>1, TailParts
<1>3. /\ responses' = Tail(responses)
      /\ UNCHANGED <<algo, next_order_id_, requests, resting, filled, left>>
  BY DEF onOrderUpdate
<1>4. /\ DOMAIN ticker_side_order_' = Sides
      /\ ticker_side_order_' = [s \in Sides |-> ticker_side_order_'[s]]
      /\ \A s \in Sides : ticker_side_order_'[s] =
            IF e.side = s THEN Updated(ticker_side_order_[s], e) ELSE ticker_side_order_[s]
  BY <1>1, InvalidAssumption DEF onOrderUpdate, Sides
<1>5. position_' \in Int
  BY <1>1, <1>2 DEF onOrderUpdate, addFill, FillSign, sideToValue, sideToIndex, Responses
<1> HIDE DEF e
<1>6. ASSUME NEW s \in Sides
      PROVE  LET o == ticker_side_order_[s]
                 p == ticker_side_order_'[s]
             IN  /\ OnePlace(s, p, left[s], requests, Tail(responses), resting)
                 /\ Somewhere(s, o, requests, responses, resting) =>
                       Somewhere(s, p, requests, Tail(responses), resting)
                 /\ p \in OrderRecords /\ p.id = o.id
                 /\ p.qty = o.qty
                      - (IF e.side = s /\ e.type = "FILLED" THEN e.exec_qty ELSE 0)
  <2>1. OnePlace(s, ticker_side_order_[s], left[s], requests, responses, resting)
    BY DEF Structure, Places
  <2>2. ticker_side_order_[s] \in OrderRecords /\ left[s] \in Nat
    BY <1>1
  <2>3. QED BY <1>1, <1>4, <2>1, <2>2, PlaceHeard DEF e
<1>7. ticker_side_order_' \in [Sides -> OrderRecords]
  BY <1>4, <1>6
<1>8. TypeOK'
  BY <1>2, <1>3, <1>5, <1>7 DEF Structure, TypeOK, OrderRecords
<1>9. IdsBelow'
  BY <1>3, <1>6 DEF Structure, IdsBelow
<1>10. Places' /\ Found'
  BY <1>3, <1>6 DEF Structure, Places, Found
<1>11. QED BY <1>6, <1>8, <1>9, <1>10 DEF Structure, e

\* The types an answer of the exchange needs, with its order.
LEMMA Answered ==
    ASSUME TypeOK, NEW s \in Sides
    PROVE  /\ requests \in Seq(Requests) /\ responses \in Seq(Responses)
           /\ ticker_side_order_[s] \in OrderRecords /\ left[s] \in Nat
BY DEF TypeOK, OrderRecords

\* MEOrderBook::add() for this client.
LEMMA AcceptStep ==
    ASSUME Structure, AcceptNew
    PROVE  Structure'
<1> DEFINE h == Head(requests)
           e == Response("ACCEPTED", h.id, h.side, 0, h.qty)
           r == [id |-> h.id, side |-> h.side, qty |-> h.qty]
<1>1. TypeOK /\ IdsBelow /\ Places /\ Found
  BY DEF Structure
<1>2. /\ requests # << >> /\ h.type = "NEW"
      /\ resting' = resting \cup {r} /\ responses' = Append(responses, e)
      /\ requests' = Tail(requests)
      /\ UNCHANGED <<algo, ticker_side_order_, next_order_id_, position_, filled, left>>
  BY DEF AcceptNew
<1>3. h \in Requests /\ Tail(requests) \in Seq(Requests)
  BY <1>1, <1>2, TailParts DEF TypeOK
<1>4. /\ e \in Responses /\ e.side = h.side /\ e.type = "ACCEPTED" /\ e.id = h.id
      /\ r \in [id : Nat, side : Sides, qty : Nat]
      /\ r.id = h.id /\ r.qty = h.qty /\ r.side = h.side /\ h.side \in Sides
  BY <1>3 DEF Response, Responses, Requests, AboutOrder
<1> HIDE DEF e, r
<1>5. TypeOK'
  BY <1>1, <1>2, <1>3, <1>4, AppendParts DEF TypeOK
<1>6. ASSUME NEW s \in Sides
      PROVE  LET o == ticker_side_order_[s]
             IN  /\ OnePlace(s, o, left[s], requests', responses', resting')
                 /\ Somewhere(s, o, requests, responses, resting) =>
                       Somewhere(s, o, requests', responses', resting')
  <2>1. OnePlace(s, ticker_side_order_[s], left[s], requests, responses, resting)
    BY <1>1 DEF Places
  <2>2. CASE h.side = s
    <3>1. RestIn(resting', s) = RestIn(resting, s) \cup {r}
      BY <1>2, <1>4, <2>2 DEF RestIn
    <3>2. QED BY <1>1, <1>2, <1>4, <2>1, <2>2, <3>1, Answered, PlaceAccepted
  <2>3. CASE h.side # s
    <3>1. RestIn(resting', s) = RestIn(resting, s)
      BY <1>2, <1>4, <2>3 DEF RestIn
    <3>2. QED BY <1>1, <1>2, <1>4, <2>1, <2>3, <3>1, Answered, PlaceOther
  <2>4. QED BY <2>2, <2>3
<1>7. QED BY <1>1, <1>2, <1>5, <1>6 DEF Structure, IdsBelow, Places, Found

\* MEOrderBook::cancel() for this client.
LEMMA CancelStep ==
    ASSUME Structure, Cancel
    PROVE  Structure'
<1> DEFINE h == Head(requests)
<1>1. TypeOK /\ IdsBelow /\ Places /\ Found
  BY DEF Structure
<1>2. /\ requests # << >> /\ h.type = "CANCEL"
      /\ requests' = Tail(requests)
      /\ UNCHANGED <<algo, ticker_side_order_, next_order_id_, position_, filled, left>>
  BY DEF Cancel
<1>3. h \in Requests /\ Tail(requests) \in Seq(Requests) /\ h.id \in Nat
  <2>1. h \in Requests /\ Tail(requests) \in Seq(Requests)
    BY <1>1, <1>2, TailParts DEF TypeOK
  <2>2. QED BY <2>1 DEF Requests
<1>4. ASSUME NEW r \in resting, resting' = resting \ {r}, NEW e,
             e = Response("CANCELED", r.id, r.side, 0, r.qty), responses' = Append(responses, e)
      PROVE  Structure'
  <2>1. /\ e \in Responses /\ e.side = r.side /\ e.type = "CANCELED" /\ e.id = r.id
        /\ r.side \in Sides
    BY <1>1, <1>4 DEF TypeOK, Response, Responses, AboutOrder
  <2>2. TypeOK'
    BY <1>1, <1>2, <1>3, <1>4, <2>1, AppendParts DEF TypeOK
  <2>3. ASSUME NEW s \in Sides
        PROVE  LET o == ticker_side_order_[s]
               IN  /\ OnePlace(s, o, left[s], requests', responses', resting')
                   /\ Somewhere(s, o, requests, responses, resting) =>
                         Somewhere(s, o, requests', responses', resting')
    <3>1. OnePlace(s, ticker_side_order_[s], left[s], requests, responses, resting)
      BY <1>1 DEF Places
    <3>2. CASE r.side = s
      <4>1. RestIn(resting', s) = RestIn(resting, s) \ {r} /\ r \in RestIn(resting, s)
        BY <1>4, <3>2 DEF RestIn
      <4>2. QED BY <1>1, <1>2, <1>4, <2>1, <3>1, <3>2, <4>1, Answered, PlaceCanceled
    <3>3. CASE r.side # s
      <4>1. RestIn(resting', s) = RestIn(resting, s)
        BY <1>4, <3>3 DEF RestIn
      <4>2. QED BY <1>1, <1>2, <1>4, <2>1, <3>1, <3>3, <4>1, Answered, PlaceOther
    <3>4. QED BY <3>2, <3>3
  <2>4. QED BY <1>1, <1>2, <2>2, <2>3 DEF Structure, IdsBelow, Places, Found
<1>5. ASSUME UNCHANGED resting, NEW e, e = Response("CANCEL_REJECTED", h.id, Invalid, 0, 0),
             responses' = Append(responses, e)
      PROVE  Structure'
  <2>1. e \in Responses /\ e.side = Invalid /\ \A s \in Sides : e.side # s
    BY <1>3, <1>5, InvalidAssumption DEF Response, Responses, Sides
  <2>2. TypeOK'
    BY <1>1, <1>2, <1>3, <1>5, <2>1, AppendParts DEF TypeOK
  <2>3. ASSUME NEW s \in Sides
        PROVE  LET o == ticker_side_order_[s]
               IN  /\ OnePlace(s, o, left[s], requests', responses', resting')
                   /\ Somewhere(s, o, requests, responses, resting) =>
                         Somewhere(s, o, requests', responses', resting')
    <3>1. OnePlace(s, ticker_side_order_[s], left[s], requests, responses, resting)
      BY <1>1 DEF Places
    <3>2. RestIn(resting', s) = RestIn(resting, s)
      BY <1>5
    <3>3. QED BY <1>1, <1>2, <1>5, <2>1, <3>1, <3>2, Answered, PlaceOther
  <2>4. QED BY <1>1, <1>2, <2>2, <2>3 DEF Structure, IdsBelow, Places, Found
<1>6. QED BY <1>4, <1>5 DEF Cancel

\* MEOrderBook::match() with an order of this client.
LEMMA FillStep ==
    ASSUME Structure, NEW r \in resting, NEW exec \in 1 .. r.qty, NEW m, m = r.qty - exec,
           resting' = (resting \ {r}) \cup (IF m = 0 THEN {} ELSE {[r EXCEPT !.qty = m]}),
           responses' = Append(responses, Response("FILLED", r.id, r.side, exec, m)),
           filled' = [filled EXCEPT ![r.side] = @ + exec],
           left' = [left EXCEPT ![r.side] = m],
           UNCHANGED <<algo, ticker_side_order_, next_order_id_, position_, requests>>
    PROVE  Structure'
<1> DEFINE e == Response("FILLED", r.id, r.side, exec, m)
           r2 == [r EXCEPT !.qty = m]
<1>1. TypeOK /\ IdsBelow /\ Places /\ Found
  BY DEF Structure
<1>2. r \in [id : Nat, side : Sides, qty : Nat] /\ r.side \in Sides /\ r.qty \in Nat
  BY <1>1 DEF TypeOK
<1>3. m \in Nat /\ exec \in Nat /\ exec + m = r.qty
  BY <1>2
<1>4. /\ e \in Responses /\ e.side = r.side /\ e.type = "FILLED" /\ e.id = r.id
      /\ e.leaves_qty = m /\ e.exec_qty = exec
  BY <1>2, <1>3 DEF Response, Responses, AboutOrder
<1>5. /\ r2 \in [id : Nat, side : Sides, qty : Nat]
      /\ r2.id = r.id /\ r2.qty = m /\ r2.side = r.side
  BY <1>2, <1>3
<1>6. /\ responses' = Append(responses, e)
      /\ resting' = (resting \ {r}) \cup (IF m = 0 THEN {} ELSE {r2})
  OBVIOUS
<1> HIDE DEF e, r2
<1>7. TypeOK'
  <2>1. filled' \in [Sides -> Nat] /\ left' \in [Sides -> Nat]
    <3>1. filled \in [Sides -> Nat] /\ left \in [Sides -> Nat]
      BY <1>1 DEF TypeOK
    <3>2. QED BY <1>2, <1>3, <3>1
  <2>2. responses' \in Seq(Responses)
    BY <1>1, <1>4, <1>6, AppendParts DEF TypeOK
  <2>3. resting' \subseteq [id : Nat, side : Sides, qty : Nat]
    BY <1>1, <1>5, <1>6 DEF TypeOK
  <2>4. QED BY <1>1, <2>1, <2>2, <2>3 DEF TypeOK
<1>8. ASSUME NEW s \in Sides
      PROVE  LET o == ticker_side_order_[s]
             IN  /\ OnePlace(s, o, left'[s], requests, responses', resting')
                 /\ Somewhere(s, o, requests, responses, resting) =>
                       Somewhere(s, o, requests, responses', resting')
  <2>1. OnePlace(s, ticker_side_order_[s], left[s], requests, responses, resting)
    BY <1>1 DEF Places
  <2>2. CASE r.side = s
    <3>1. /\ RestIn(resting', s) = (RestIn(resting, s) \ {r}) \cup (IF m = 0 THEN {} ELSE {r2})
          /\ r \in RestIn(resting, s)
      BY <1>5, <1>6, <2>2 DEF RestIn
    <3>2. left'[s] = m
      BY <1>1, <1>2, <2>2 DEF TypeOK
    <3> DEFINE o == ticker_side_order_[s]
    <3>3. /\ e.side = s /\ e.exec_qty + m = r.qty /\ m \in Nat
          /\ o \in OrderRecords /\ left[s] \in Nat /\ responses \in Seq(Responses)
      BY <1>1, <1>3, <1>4, <2>2, Answered
    <3> HIDE DEF o
    <3>4. /\ OnePlace(s, o, m, requests, Append(responses, e), resting')
          /\ Somewhere(s, o, requests, responses, resting) =>
                Somewhere(s, o, requests, Append(responses, e), resting')
      <4>1. OnePlace(s, o, left[s], requests, responses, resting)
        BY <2>1 DEF o
      <4> DEFINE rest2 == resting'
      <4>2. RestIn(rest2, s) = (RestIn(resting, s) \ {r}) \cup (IF m = 0 THEN {} ELSE {r2})
        BY <3>1
      <4> HIDE DEF rest2
      <4>3. /\ OnePlace(s, o, m, requests, Append(responses, e), rest2)
            /\ Somewhere(s, o, requests, responses, resting) =>
                  Somewhere(s, o, requests, Append(responses, e), rest2)
        BY <1>4, <1>5, <3>1, <3>3, <4>1, <4>2, PlaceFilled
      <4>4. QED BY <4>3 DEF rest2
    <3>5. QED BY <1>6, <3>2, <3>4 DEF o
  <2>3. CASE r.side # s
    <3>1. RestIn(resting', s) = RestIn(resting, s)
      BY <1>5, <1>6, <2>3 DEF RestIn
    <3>2. left'[s] = left[s]
      BY <1>1, <1>2, <2>3 DEF TypeOK
    <3>3. QED BY <1>1, <1>4, <1>6, <2>1, <2>3, <3>1, <3>2, Answered, PlaceOther
  <2>4. QED BY <2>2, <2>3
<1>9. QED BY <1>1, <1>7, <1>8 DEF Structure, IdsBelow, Places, Found

-----------------------------------------------------------------------------
(* The position and its limit *)

\* What the place of a side's order says of its quantities.
LEMMA Quantities ==
    ASSUME TypeOK, Places, NEW s \in Sides
    PROVE  /\ ticker_side_order_[s].qty \in Nat /\ left[s] \in Nat
           /\ left[s] <= ticker_side_order_[s].qty
           /\ ticker_side_order_[s].state \in {"INVALID", "DEAD"} =>
                 ticker_side_order_[s].qty = left[s]
<1>1. ticker_side_order_[s].qty \in Nat /\ left[s] \in Nat
  BY DEF TypeOK
<1>2. /\ Chain(responses, s, ticker_side_order_[s].qty, left[s])
      /\ ticker_side_order_[s].state \in {"INVALID", "DEAD"} => Heard(responses, s) = {}
  BY DEF Places, OnePlace
<1>3. Heard(responses, s) = {} => Fills(responses, s) = {}
  BY DEF Heard, Fills, Queued, AboutOrder
<1>4. QED BY <1>1, <1>2, <1>3 DEF Chain

\* What the two ways to count fills come to.
LEMMA Signs ==
    ASSUME NEW x \in Int, NEW y \in Int
    PROVE  x * FillSign("BUY") + y * FillSign("SELL") = IF SignedSides THEN x - y ELSE 2 * x
<1>1. CASE SignedSides
  <2>1. FillSign("BUY") = 1 /\ FillSign("SELL") = -1  BY <1>1 DEF FillSign, sideToValue
  <2>2. x * 1 = x /\ y * (-1) = -y  OBVIOUS
  <2>3. QED BY <1>1, <2>1, <2>2
<1>2. CASE ~SignedSides
  <2>1. FillSign("BUY") = 2 /\ FillSign("SELL") = 0
    BY <1>2 DEF FillSign, sideToIndex, sideToValue
  <2>2. x * 2 = 2 * x /\ y * 0 = 0  OBVIOUS
  <2>3. QED BY <1>2, <2>1, <2>2
<1>3. QED BY <1>1, <1>2

\* The quantities of both sides, and what the position says of them.
LEMMA Sums ==
    ASSUME Structure, PositionLags
    PROVE  LET oB == ticker_side_order_["BUY"].qty
               oS == ticker_side_order_["SELL"].qty
           IN  /\ oB \in Nat /\ oS \in Nat /\ left["BUY"] \in Nat /\ left["SELL"] \in Nat
               /\ left["BUY"] <= oB /\ left["SELL"] <= oS
               /\ filled["BUY"] \in Nat /\ filled["SELL"] \in Nat
               /\ position_ \in Int /\ MaxPosition \in Nat /\ Clip \in Nat
               /\ position_ = IF SignedSides
                              THEN (filled["BUY"] - (oB - left["BUY"]))
                                     - (filled["SELL"] - (oS - left["SELL"]))
                              ELSE 2 * (filled["BUY"] - (oB - left["BUY"]))
<1> DEFINE oB == ticker_side_order_["BUY"].qty
           oS == ticker_side_order_["SELL"].qty
           x == filled["BUY"] - (oB - left["BUY"])
           y == filled["SELL"] - (oS - left["SELL"])
<1>1. /\ oB \in Nat /\ oS \in Nat /\ left["BUY"] \in Nat /\ left["SELL"] \in Nat
      /\ left["BUY"] <= oB /\ left["SELL"] <= oS
      /\ filled["BUY"] \in Nat /\ filled["SELL"] \in Nat
      /\ position_ \in Int /\ MaxPosition \in Nat /\ Clip \in Nat
  BY Quantities, LimitsAssumption DEF Structure, TypeOK, Sides
<1>2. x \in Int /\ y \in Int  BY <1>1
<1>3. position_ = x * FillSign("BUY") + y * FillSign("SELL")  BY DEF PositionLags
<1> HIDE DEF x, y
<1>4. position_ = IF SignedSides THEN x - y ELSE 2 * x  BY <1>2, <1>3, Signs
<1>5. QED BY <1>1, <1>4 DEF x, y

\* A new order is tested against a position that is ahead of what was traded
\* by the other side's fills only, which make room, or that counts each buy
\* twice.
LEMMA MovePosition ==
    ASSUME Structure, PositionLags, RoomLeft,
           NEW b \in Prices \cup {Invalid}, NEW a \in Prices \cup {Invalid}, moveOrders(b, a)
    PROVE  PositionLags' /\ RoomLeft'
<1> DEFINE oB == ticker_side_order_["BUY"].qty
           oS == ticker_side_order_["SELL"].qty
           lB == left["BUY"]
           lS == left["SELL"]
           pB == ticker_side_order_'["BUY"].qty
           pS == ticker_side_order_'["SELL"].qty
           mB == left'["BUY"]
           mS == left'["SELL"]
           fB == filled["BUY"]
           fS == filled["SELL"]
<1>1. /\ UNCHANGED <<position_, resting, filled>>
      /\ \A s \in Sides : Replaced(s) \/ Kept(s)
  BY Moved DEF Structure
<1>2. /\ oB \in Nat /\ oS \in Nat /\ lB \in Nat /\ lS \in Nat /\ lB <= oB /\ lS <= oS
      /\ fB \in Nat /\ fS \in Nat
      /\ position_ \in Int /\ Clip \in Nat /\ MaxPosition \in Nat
      /\ position_ = IF SignedSides THEN (fB - (oB - lB)) - (fS - (oS - lS))
                     ELSE 2 * (fB - (oB - lB))
  BY Sums
<1>3. \/ oB = lB /\ pB = Clip /\ mB = Clip /\ checkPreTradeRisk("BUY", Clip)
      \/ pB = oB /\ mB = lB /\ Out("BUY")' = Out("BUY")
  <2>1. CASE Replaced("BUY")
    BY <2>1, Quantities DEF Replaced, Structure, Sides
  <2>2. CASE Kept("BUY")
    BY <1>1, <2>2 DEF Kept, Out
  <2>3. QED BY <1>1, <2>1, <2>2 DEF Sides
<1>4. \/ oS = lS /\ pS = Clip /\ mS = Clip /\ checkPreTradeRisk("SELL", Clip)
      \/ pS = oS /\ mS = lS /\ Out("SELL")' = Out("SELL")
  <2>1. CASE Replaced("SELL")
    BY <2>1, Quantities DEF Replaced, Structure, Sides
  <2>2. CASE Kept("SELL")
    BY <1>1, <2>2 DEF Kept, Out
  <2>3. QED BY <1>1, <2>1, <2>2 DEF Sides
<1>5. checkPreTradeRisk("BUY", Clip) => position_ + Clip <= MaxPosition
  BY <1>2 DEF checkPreTradeRisk, sideToValue, Abs
<1>6. checkPreTradeRisk("SELL", Clip) => Clip - position_ <= MaxPosition
  BY <1>2 DEF checkPreTradeRisk, sideToValue, Abs
<1>7. /\ fB - Sold <= MaxPosition /\ (Out("BUY") => fB - Sold + lB <= MaxPosition)
      /\ SignedSides => /\ fS - fB <= MaxPosition
                        /\ Out("SELL") => fS - fB + lS <= MaxPosition
      /\ Sold = (IF SignedSides THEN fS ELSE 0) /\ Sold' = Sold
  BY <1>1 DEF RoomLeft, Sold
<1>8. PositionLags'
  <2>1. pB - mB = oB - lB /\ pS - mS = oS - lS
    BY <1>2, <1>3, <1>4
  <2>2. QED BY <1>1, <2>1 DEF PositionLags, FillSign
<1> HIDE DEF oB, oS, lB, lS, pB, pS, mB, mS, fB, fS
<1>9. Out("BUY")' => fB - Sold + mB <= MaxPosition
  BY <1>2, <1>3, <1>5, <1>7
<1>10. SignedSides /\ Out("SELL")' => fS - fB + mS <= MaxPosition
  BY <1>2, <1>4, <1>6, <1>7
<1>11. QED BY <1>1, <1>7, <1>8, <1>9, <1>10 DEF RoomLeft, pB, pS, mB, mS, fB, fS

\* The position catches up with a fill as the order does.
LEMMA HeardPosition ==
    ASSUME Structure, PositionLags, RoomLeft, onOrderUpdate
    PROVE  PositionLags' /\ RoomLeft'
<1> DEFINE e == Head(responses)
           oB == ticker_side_order_["BUY"].qty
           oS == ticker_side_order_["SELL"].qty
           lB == left["BUY"]
           lS == left["SELL"]
           fB == filled["BUY"]
           fS == filled["SELL"]
           pB == ticker_side_order_'["BUY"].qty
           pS == ticker_side_order_'["SELL"].qty
<1>1. /\ UNCHANGED <<requests, resting, filled, left>>
      /\ responses \in Seq(Responses) /\ responses # << >>
  BY DEF onOrderUpdate, Structure, TypeOK
<1>2. e \in Responses
  BY <1>1, TailParts
<1>3. e.exec_qty \in Nat /\ (e.type = "FILLED" => e.side \in Sides)
  BY <1>2 DEF Responses, AboutOrder
<1>4. /\ oB \in Nat /\ oS \in Nat /\ lB \in Nat /\ lS \in Nat
      /\ fB \in Nat /\ fS \in Nat /\ position_ \in Int
      /\ position_ = IF SignedSides THEN (fB - (oB - lB)) - (fS - (oS - lS))
                     ELSE 2 * (fB - (oB - lB))
  BY Sums
<1>5. /\ pB = oB - (IF e.side = "BUY" /\ e.type = "FILLED" THEN e.exec_qty ELSE 0)
      /\ pS = oS - (IF e.side = "SELL" /\ e.type = "FILLED" THEN e.exec_qty ELSE 0)
  BY HeardStep DEF Sides
<1>6. position_' = IF e.type = "FILLED" THEN position_ + e.exec_qty * FillSign(e.side)
                   ELSE position_
  BY DEF onOrderUpdate, addFill
<1> DEFINE eB == e.exec_qty * FillSign("BUY")
           eS == e.exec_qty * FillSign("SELL")
<1>7. /\ eB = IF SignedSides THEN e.exec_qty ELSE 2 * e.exec_qty
      /\ eS = IF SignedSides THEN -e.exec_qty ELSE 0
  <2>1. CASE SignedSides
    BY <1>3, <2>1 DEF FillSign, sideToValue
  <2>2. CASE ~SignedSides
    BY <1>3, <2>2 DEF FillSign, sideToIndex, sideToValue
  <2>3. QED BY <2>1, <2>2
<1>8. /\ e.type = "FILLED" /\ e.side = "BUY" => position_' = position_ + eB
      /\ e.type = "FILLED" /\ e.side = "SELL" => position_' = position_ + eS
  BY <1>6
<1> HIDE DEF e, oB, oS, lB, lS, fB, fS, pB, pS, eB, eS
<1>9. /\ pB \in Int /\ pS \in Int
      /\ position_' = IF SignedSides THEN (fB - (pB - lB)) - (fS - (pS - lS))
                      ELSE 2 * (fB - (pB - lB))
  <2>1. CASE e.type = "FILLED" /\ e.side = "BUY"
    BY <1>3, <1>4, <1>5, <1>7, <1>8, <2>1
  <2>2. CASE e.type = "FILLED" /\ e.side = "SELL"
    BY <1>3, <1>4, <1>5, <1>7, <1>8, <2>2
  <2>3. CASE e.type # "FILLED"
    BY <1>4, <1>5, <1>6, <2>3
  <2>4. QED BY <1>3, <2>1, <2>2, <2>3 DEF Sides
<1> DEFINE x == fB - (pB - lB)
           y == fS - (pS - lS)
<1>10. position_' = x * FillSign("BUY") + y * FillSign("SELL")
  <2>1. x \in Int /\ y \in Int  BY <1>4, <1>9
  <2>2. position_' = IF SignedSides THEN x - y ELSE 2 * x  BY <1>9
  <2> HIDE DEF x, y
  <2>3. QED BY <2>1, <2>2, Signs
<1>11. PositionLags'
  BY <1>1, <1>10 DEF PositionLags, FillSign, fB, fS, pB, pS, lB, lS
<1>12. QED BY <1>1, <1>11 DEF RoomLeft, Sold, Out

\* What the exchange takes in or gives up puts nothing out that was not.
LEMMA AnswerPosition ==
    ASSUME Structure, PositionLags, RoomLeft, AcceptNew \/ Cancel
    PROVE  PositionLags' /\ RoomLeft'
<1>1. /\ requests' = Tail(requests) /\ requests # << >> /\ requests \in Seq(Requests)
      /\ UNCHANGED <<ticker_side_order_, position_, filled, left>>
  BY DEF AcceptNew, Cancel, Structure, TypeOK
<1>2. ASSUME NEW s \in Sides PROVE Out(s)' => Out(s)
  <2>1. NewOnce(requests, s, ticker_side_order_[s].id, left[s])
    BY DEF Structure, Places, OnePlace
  <2>2. /\ New(requests', s) # {} => New(requests, s) # {}
        /\ Head(requests).side = s /\ Head(requests).type = "NEW" => New(requests, s) # {}
    BY <1>1, <2>1, NewTail
  <2>3. CASE AcceptNew
    <3>1. Head(requests).type = "NEW" /\
          resting' = resting \cup {[id |-> Head(requests).id, side |-> Head(requests).side,
                                    qty |-> Head(requests).qty]}
      BY <2>3 DEF AcceptNew
    <3>2. \/ RestIn(resting', s) = RestIn(resting, s) 
          \/ Head(requests).side = s
      BY <3>1 DEF RestIn
    <3>3. QED BY <2>2, <3>1, <3>2 DEF Out
  <2>4. CASE Cancel
    <3>1. resting' \subseteq resting
      BY <2>4 DEF Cancel
    <3>2. RestIn(resting', s) \subseteq RestIn(resting, s)
      BY <3>1 DEF RestIn
    <3>3. QED BY <2>2, <3>2 DEF Out
  <2>5. QED BY <2>3, <2>4
<1>3. QED BY <1>1, <1>2 DEF PositionLags, RoomLeft, Sold, FillSign, Sides

\* A fill takes from the room that was left for it.
LEMMA FillPosition ==
    ASSUME Structure, PositionLags, RoomLeft, Fill
    PROVE  PositionLags' /\ RoomLeft'
<1>0. PICK r \in resting : \E exec \in 1 .. r.qty :
        /\ resting' = (resting \ {r}) \cup
              (IF r.qty - exec = 0 THEN {} ELSE {[r EXCEPT !.qty = r.qty - exec]})
        /\ filled' = [filled EXCEPT ![r.side] = @ + exec]
        /\ left' = [left EXCEPT ![r.side] = r.qty - exec]
        /\ UNCHANGED <<ticker_side_order_, position_, requests>>
  BY DEF Fill
<1>1. PICK exec \in 1 .. r.qty :
        /\ resting' = (resting \ {r}) \cup
              (IF r.qty - exec = 0 THEN {} ELSE {[r EXCEPT !.qty = r.qty - exec]})
        /\ filled' = [filled EXCEPT ![r.side] = @ + exec]
        /\ left' = [left EXCEPT ![r.side] = r.qty - exec]
        /\ UNCHANGED <<ticker_side_order_, position_, requests>>
  BY <1>0
<1>2. r \in [id : Nat, side : Sides, qty : Nat]
  BY DEF Structure, TypeOK
<1>3. r.side \in Sides /\ r.qty = left[r.side] /\ Out(r.side) /\ left \in [Sides -> Nat]
  <2>1. r.side \in Sides /\ r \in RestIn(resting, r.side)
    BY <1>2 DEF RestIn
  <2>2. OnePlace(r.side, ticker_side_order_[r.side], left[r.side], requests, responses, resting)
    BY <2>1 DEF Structure, Places
  <2>3. r.qty = left[r.side]
    BY <2>1, <2>2 DEF OnePlace
  <2>4. QED BY <2>1, <2>3 DEF Out, Structure, TypeOK
<1>4. ASSUME NEW s \in Sides, s # r.side PROVE left'[s] = left[s] /\ (Out(s)' => Out(s))
  <2>1. left'[s] = left[s]
    BY <1>1, <1>3, <1>4
  <2>2. RestIn(resting', s) \subseteq RestIn(resting, s)
    BY <1>1, <1>2, <1>4 DEF RestIn
  <2>3. QED BY <1>1, <2>1, <2>2 DEF Out
<1>5. /\ left'[r.side] = left[r.side] - exec
      /\ filled'[r.side] = filled[r.side] + exec
      /\ \A s \in Sides : s # r.side => filled'[s] = filled[s]
  BY <1>1, <1>3 DEF Structure, TypeOK
<1> DEFINE oB == ticker_side_order_["BUY"].qty
           oS == ticker_side_order_["SELL"].qty
           lB == left["BUY"]
           lS == left["SELL"]
           mB == left'["BUY"]
           mS == left'["SELL"]
           fB == filled["BUY"]
           fS == filled["SELL"]
           gB == filled'["BUY"]
           gS == filled'["SELL"]
<1>6. /\ oB \in Nat /\ oS \in Nat /\ lB \in Nat /\ lS \in Nat
      /\ fB \in Nat /\ fS \in Nat /\ exec \in Nat /\ MaxPosition \in Nat
  BY <1>2, Sums
<1>7. exec <= left[r.side]
  BY <1>2, <1>3
<1>8. \/ /\ gB = fB + exec /\ mB = lB - exec /\ gS = fS /\ mS = lS /\ exec <= lB
         /\ Out("BUY") /\ (Out("SELL")' => Out("SELL"))
      \/ /\ gS = fS + exec /\ mS = lS - exec /\ gB = fB /\ mB = lB /\ exec <= lS
         /\ Out("SELL") /\ (Out("BUY")' => Out("BUY"))
  <2>1. CASE r.side = "BUY"
    BY <1>3, <1>4, <1>5, <1>6, <1>7, <2>1 DEF Sides
  <2>2. CASE r.side = "SELL"
    BY <1>3, <1>4, <1>5, <1>6, <1>7, <2>2 DEF Sides
  <2>3. QED BY <1>3, <2>1, <2>2 DEF Sides
<1>9. PositionLags'
  <2>1. gB - (oB - mB) = fB - (oB - lB) /\ gS - (oS - mS) = fS - (oS - lS)
    BY <1>6, <1>8
  <2>2. QED BY <1>1, <2>1 DEF PositionLags, FillSign
<1>10. /\ fB - Sold <= MaxPosition /\ (Out("BUY") => fB - Sold + lB <= MaxPosition)
       /\ SignedSides => /\ fS - fB <= MaxPosition
                         /\ Out("SELL") => fS - fB + lS <= MaxPosition
       /\ Sold = (IF SignedSides THEN fS ELSE 0) /\ Sold' = (IF SignedSides THEN gS ELSE 0)
  BY DEF RoomLeft, Sold
<1> HIDE DEF oB, oS, lB, lS, mB, mS, fB, fS, gB, gS
<1>11. /\ gB - Sold' <= MaxPosition /\ (Out("BUY")' => gB - Sold' + mB <= MaxPosition)
       /\ SignedSides => /\ gS - gB <= MaxPosition
                         /\ Out("SELL")' => gS - gB + mS <= MaxPosition
  BY <1>6, <1>8, <1>10
<1>12. QED BY <1>9, <1>11 DEF RoomLeft, mB, mS, gB, gS

-----------------------------------------------------------------------------
(* The theorems *)

\* As written, no step of the engine asks the exchange for anything.
LEMMA NothingSentStep ==
    ASSUME NothingSent, TypeOK, Next
    PROVE  NothingSent'
<1> SUFFICES ASSUME ~SendsNew
             PROVE  /\ requests' = << >> /\ responses' = << >> /\ resting' = {}
                    /\ \A s \in Sides :
                          ticker_side_order_'[s].state \in {"INVALID", "PENDING_NEW"}
  BY DEF NothingSent
<1>1. /\ requests = << >> /\ responses = << >> /\ resting = {}
      /\ \A s \in Sides : ticker_side_order_[s].state \in {"INVALID", "PENDING_NEW"}
  BY DEF NothingSent
<1>2. ASSUME NEW s \in Sides, NEW p, NEW id, NEW l
      PROVE  /\ moveOrder(s, p, id, l).sent = << >>
             /\ moveOrder(s, p, id, l).order.state \in {"INVALID", "PENDING_NEW"}
  BY <1>1, <1>2 DEF moveOrder, MustCancel
<1>3. ASSUME NEW b, NEW a, moveOrders(b, a)
      PROVE  /\ requests' = << >> /\ responses' = << >> /\ resting' = {}
             /\ \A s \in Sides :
                   ticker_side_order_'[s].state \in {"INVALID", "PENDING_NEW"}
  <2> DEFINE then(l) == IF MayPlace(ticker_side_order_["BUY"], "BUY", b, l)
                        THEN next_order_id_ + 1 ELSE next_order_id_
  <2>1. PICK l \in BOOLEAN :
           /\ requests' = requests \o moveOrder("BUY", b, next_order_id_, l).sent
                                   \o moveOrder("SELL", a, then(l), l).sent
           /\ ticker_side_order_' =
                  [s \in Sides |-> IF s = "BUY"
                                   THEN moveOrder("BUY", b, next_order_id_, l).order
                                   ELSE moveOrder("SELL", a, then(l), l).order]
           /\ UNCHANGED <<responses, resting>>
    BY <1>3 DEF moveOrders
  <2>2. requests' = << >> \o << >> \o << >>
    BY <1>1, <1>2, <2>1 DEF Sides
  <2>3. QED BY <1>1, <1>2, <2>1, <2>2 DEF Sides
<1>4. ~onOrderUpdate /\ ~AcceptNew /\ ~Cancel /\ ~Fill
  BY <1>1 DEF onOrderUpdate, AcceptNew, Cancel, Fill
<1>5. QED BY <1>3, <1>4 DEF Next, onOrderBookUpdate, onTradeUpdate

\* An engine starts with no order anywhere.
LEMMA InvInit == Init => TradingInv
<1> SUFFICES ASSUME Init PROVE TradingInv
  OBVIOUS
<1> DEFINE o == [id |-> 0, price |-> Invalid, qty |-> 0, state |-> "INVALID"]
<1>1. /\ ticker_side_order_ = [s \in Sides |-> o] /\ left = [s \in Sides |-> 0]
      /\ next_order_id_ = 1 /\ position_ = 0 /\ filled = [s \in Sides |-> 0]
      /\ requests = << >> /\ responses = << >> /\ resting = {}
  BY DEF Init
<1>2. TypeOK
  BY <1>1 DEF Init, TypeOK, States
<1>3. \A s, T : Queued(<< >>, s, T) = {}
  BY DEF Queued
<1>4. \A s \in Sides : ticker_side_order_[s] = o /\ left[s] = 0
  BY <1>1
<1>5. o.id = 0 /\ o.qty = 0 /\ o.state = "INVALID"
  OBVIOUS
<1>6. IdsBelow
  BY <1>1, <1>4, <1>5 DEF IdsBelow
<1>7. ASSUME NEW s \in Sides
      PROVE  /\ New(requests, s) = {} /\ Heard(responses, s) = {} /\ Fills(responses, s) = {}
             /\ RestIn(resting, s) = {}
  BY <1>1, <1>3 DEF New, Heard, Fills, RestIn
<1> HIDE DEF o
<1>8. Places
  BY <1>4, <1>5, <1>7 DEF Places, OnePlace, AboutOne, Chain, NewOnce, Ended
<1>9. Found
  BY <1>4, <1>5, <1>7 DEF Found, Somewhere, Accepted
<1>10. PositionLags /\ RoomLeft
  <2>1. filled["BUY"] = 0 /\ filled["SELL"] = 0
    BY <1>1 DEF Sides
  <2>2. 0 * FillSign("BUY") + 0 * FillSign("SELL") = 0
    BY Signs
  <2>3. PositionLags
    BY <1>1, <1>4, <1>5, <2>1, <2>2 DEF PositionLags, Sides
  <2>4. QED BY <1>7, <2>1, <2>3, LimitsAssumption DEF RoomLeft, Sold, Out, Sides
<1>11. NothingSent
  BY <1>1, <1>4, <1>5 DEF NothingSent
<1>12. QED BY <1>2, <1>6, <1>8, <1>9, <1>10, <1>11 DEF TradingInv

\* Every step of the engine or of the exchange keeps the invariant.
LEMMA InvNext == TradingInv /\ [Next]_vars => TradingInv'
<1> SUFFICES ASSUME TradingInv, [Next]_vars PROVE TradingInv'
  OBVIOUS
<1>1. Structure /\ PositionLags /\ RoomLeft
  BY DEF TradingInv, Structure
<1>0. NothingSent'
  <2>1. CASE Next
    BY <2>1, NothingSentStep DEF TradingInv
  <2>2. CASE UNCHANGED vars
    BY <2>2 DEF vars, TradingInv, NothingSent
  <2>3. QED BY <2>1, <2>2
<1>2. SUFFICES Structure' /\ PositionLags' /\ RoomLeft'
  BY <1>0 DEF TradingInv, Structure
<1>3. ASSUME NEW b \in Prices \cup {Invalid}, NEW a \in Prices \cup {Invalid}, moveOrders(b, a)
      PROVE  Structure' /\ PositionLags' /\ RoomLeft'
  BY <1>1, <1>3, MoveStep, MovePosition
<1>4. CASE onOrderBookUpdate
  BY <1>3, <1>4 DEF onOrderBookUpdate
<1>5. CASE onTradeUpdate
  BY <1>3, <1>5 DEF onTradeUpdate
<1>6. CASE onOrderUpdate
  BY <1>1, <1>6, HeardStep, HeardPosition
<1>7. CASE AcceptNew
  BY <1>1, <1>7, AcceptStep, AnswerPosition
<1>8. CASE Cancel
  BY <1>1, <1>8, CancelStep, AnswerPosition
<1>9. CASE Fill
  <2>1. Structure'
    BY <1>1, <1>9, FillStep DEF Fill
  <2>2. QED BY <1>1, <1>9, <2>1, FillPosition
<1>10. CASE UNCHANGED vars
  BY <1>1, <1>10 DEF vars, Structure, TypeOK, IdsBelow, Places, Found, PositionLags, RoomLeft,
                     Sold, FillSign, Out
<1>11. QED BY <1>4, <1>5, <1>6, <1>7, <1>8, <1>9, <1>10 DEF Next

\* Every run of the trade engine and the exchange keeps the orders of a side
\* in one place, the position behind by the fills on their way, and the room of
\* the limit.
THEOREM TradingSafety == Spec => []TradingInv
<1>1. QED BY InvInit, InvNext, PTL DEF Spec

\* What the invariant says of the orders and the responses.
LEMMA InvOrders == TradingInv => OneOrderPerSide /\ ResponseMeetsItsOrder
<1> SUFFICES ASSUME TradingInv, NEW s \in Sides
             PROVE  /\ \A i, j \in Exposed(s) : i = j
                    /\ \A i \in Queued(responses, s, AboutOrder) :
                          responses[i].id = ticker_side_order_[s].id
  BY DEF OneOrderPerSide, ResponseMeetsItsOrder
<1>1. OnePlace(s, ticker_side_order_[s], left[s], requests, responses, resting)
  BY DEF TradingInv, Places
<1>2. /\ \A i \in New(requests, s) : requests[i].id = ticker_side_order_[s].id
      /\ \A o \in RestIn(resting, s) : o.id = ticker_side_order_[s].id
      /\ \A i \in Heard(responses, s) : responses[i].id = ticker_side_order_[s].id
  BY <1>1 DEF OnePlace, NewOnce, AboutOne
<1>3. QED BY <1>2 DEF Exposed, New, RestIn, Heard

\* The limit has room, so that it is kept.
LEMMA InvLimit == TradingInv => LongLimit /\ (SignedSides => PositionLimit)
<1> SUFFICES ASSUME TradingInv PROVE LongLimit /\ (SignedSides => PositionLimit)
  OBVIOUS
<1>1. /\ filled["BUY"] \in Nat /\ filled["SELL"] \in Nat /\ MaxPosition \in Nat
      /\ filled["BUY"] - Sold <= MaxPosition
      /\ SignedSides => filled["SELL"] - filled["BUY"] <= MaxPosition
      /\ Sold = IF SignedSides THEN filled["SELL"] ELSE 0
  BY LimitsAssumption DEF TradingInv, TypeOK, RoomLeft, Sides, Sold
<1>2. QED BY <1>1 DEF LongLimit, PositionLimit, Traded, Abs

\* With no message under way the two ends agree.
LEMMA InvQuiet == TradingInv => AgreesWhenQuiet
<1> SUFFICES ASSUME TradingInv, requests = << >>, responses = << >>
             PROVE  /\ position_ = filled["BUY"] * FillSign("BUY")
                                     + filled["SELL"] * FillSign("SELL")
                    /\ \A s \in Sides :
                         LET order == ticker_side_order_[s]
                         IN  /\ {o \in resting : o.side = s}
                                  = IF order.state \in {"LIVE", "PENDING_CANCEL"}
                                    THEN {[id |-> order.id, side |-> s, qty |-> order.qty]} ELSE {}
                             /\ order.state = "PENDING_NEW" => ~SendsNew
  BY DEF AgreesWhenQuiet
<1>1. \A s : New(requests, s) = {} /\ Heard(responses, s) = {} /\ Fills(responses, s) = {}
  BY DEF New, Heard, Fills, Queued
<1>2. ASSUME NEW s \in Sides
      PROVE  /\ ticker_side_order_[s].qty = left[s] /\ left[s] \in Nat
             /\ OnePlace(s, ticker_side_order_[s], left[s], requests, responses, resting)
             /\ Somewhere(s, ticker_side_order_[s], requests, responses, resting)
             /\ ticker_side_order_[s].state \in States
  <2>1. /\ OnePlace(s, ticker_side_order_[s], left[s], requests, responses, resting)
        /\ Somewhere(s, ticker_side_order_[s], requests, responses, resting)
    BY DEF TradingInv, Places, Found
  <2>2. left[s] \in Nat /\ ticker_side_order_[s].state \in States
    BY DEF TradingInv, TypeOK
  <2>3. QED BY <1>1, <2>1, <2>2 DEF OnePlace, Chain
<1>3. position_ = filled["BUY"] * FillSign("BUY") + filled["SELL"] * FillSign("SELL")
  <2>1. /\ filled["BUY"] - (ticker_side_order_["BUY"].qty - left["BUY"]) = filled["BUY"]
        /\ filled["SELL"] - (ticker_side_order_["SELL"].qty - left["SELL"]) = filled["SELL"]
    BY <1>2 DEF TradingInv, TypeOK, Sides
  <2>2. QED BY <2>1 DEF TradingInv, PositionLags
<1>4. ASSUME NEW s \in Sides
      PROVE  /\ RestIn(resting, s)
                  = IF ticker_side_order_[s].state \in {"LIVE", "PENDING_CANCEL"}
                    THEN {[id |-> ticker_side_order_[s].id, side |-> s,
                           qty |-> ticker_side_order_[s].qty]} ELSE {}
             /\ ticker_side_order_[s].state = "PENDING_NEW" => ~SendsNew
  <2> DEFINE o == ticker_side_order_[s]
  <2>1. ~Ended(responses, s) /\ ~Accepted(responses, s)
    BY <1>1 DEF Ended, Accepted
  <2>2. CASE o.state \in {"LIVE", "PENDING_CANCEL"}
    <3>1. PICK r \in RestIn(resting, s) : TRUE
      BY <1>2, <2>1, <2>2 DEF Somewhere
    <3>2. RestIn(resting, s) = {r} /\ r.id = o.id /\ r.qty = o.qty
      BY <1>2 DEF OnePlace
    <3>3. r \in [id : Nat, side : Sides, qty : Nat] /\ r.side = s
      BY DEF RestIn, TradingInv, TypeOK
    <3>4. r = [id |-> o.id, side |-> s, qty |-> o.qty]
      BY <3>2, <3>3
    <3>5. QED BY <2>2, <3>2, <3>4
  <2>3. CASE o.state \in {"INVALID", "DEAD"}
    BY <1>2, <2>3 DEF OnePlace
  <2>4. CASE o.state = "PENDING_NEW"
    <3>1. ~SendsNew
      BY <1>1, <1>2, <2>1, <2>4 DEF Somewhere
    <3>2. RestIn(resting, s) = {}
      BY <3>1 DEF TradingInv, NothingSent, RestIn
    <3>3. QED BY <2>4, <3>1, <3>2
  <2>5. QED BY <1>2, <2>2, <2>3, <2>4 DEF States
<1>5. QED BY <1>3, <1>4 DEF RestIn

\* OneOrderPerSide holds in every run: moveOrder() never has two orders of one
\* side at the exchange, whatever cancels and fills are on their way.
THEOREM OneOrder == Spec => []OneOrderPerSide
<1>1. QED BY TradingSafety, InvOrders, PTL

\* ResponseMeetsItsOrder holds in every run: to find the order of a response
\* by its side, as onOrderUpdate() does, finds the right one.
THEOREM ResponsesMatched == Spec => []ResponseMeetsItsOrder
<1>1. QED BY TradingSafety, InvOrders, PTL

\* LongLimit holds in every run, by whatever sign addFill() counts a fill:
\* checkPreTradeRisk() keeps the limit for buys although its position lags.
\* Where it counts them with their sign, the limit holds for sells too.
THEOREM LimitKept == Spec => [](LongLimit /\ (SignedSides => PositionLimit))
<1>1. QED BY InvLimit, TradingSafety, PTL

\* AgreesWhenQuiet holds in every run, whether or not newOrder() sends.
THEOREM QuietAgreement == Spec => []AgreesWhenQuiet
<1>1. QED BY InvQuiet, TradingSafety, PTL
=============================================================================
