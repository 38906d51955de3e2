--------------------------- MODULE MarketDataProofs ---------------------------
(***************************************************************************)
(* What the market data path keeps true for any number of orders, updates  *)
(* and losses.                                                             *)
(*                                                                         *)
(* An update is known by its number.  The invariant says where each number *)
(* may still be: what is on its way to the consumer is later than what it  *)
(* has passed on, what the synthesizer has still to read follows the       *)
(* number its book is at, and a snapshot never carries a number the        *)
(* synthesizer has not reached.                                            *)
(***************************************************************************)
EXTENDS MarketData, SequenceTheorems, WellFoundedInduction, TLAPS

-----------------------------------------------------------------------------
(* The inductive invariant, part by part.                                  *)

\* What the publisher numbers.
Updates == [seq : Nat, type : {"ADD", "MODIFY", "CANCEL"}, id : Orders, qty : Qtys]

\* The numbers of a datagram go up.
GoUp(list) == \A i, j \in DOMAIN list : i < j => list[i].seq < list[j].seq

\* Updates are numbered from 1.
NumbersCount ==
    /\ next_inc_seq_num_ = Len(published) + 1
    /\ \A i \in DOMAIN published : published[i] \in Updates /\ published[i].seq = i

LastReceived == IF received = << >> THEN 0 ELSE received[Len(received)].seq

\* A message that is still to reach the consumer: an update as it was published,
\* later than all that were passed on.
ToCome(m) ==
    /\ m.seq \in DOMAIN published /\ m = published[m.seq]
    /\ LastReceived < m.seq

\* The incremental updates on their way to the consumer go up.
IncrementalsGoUp ==
    /\ GoUp(inc_buffer)
    /\ \A i \in DOMAIN inc_buffer : ToCome(inc_buffer[i])
    /\ \A d \in DOMAIN inc_wire :
          /\ GoUp(inc_wire[d])
          /\ \A i \in DOMAIN inc_wire[d] :
                /\ ToCome(inc_wire[d][i])
                /\ \A j \in DOMAIN inc_buffer : inc_wire[d][i].seq < inc_buffer[j].seq
                /\ \A e \in DOMAIN inc_wire : \A j \in DOMAIN inc_wire[e] :
                      d < e => inc_wire[d][i].seq < inc_wire[e][j].seq

\* A snapshot ends with a number that the synthesizer has reached.
Reached(m) == m.type = "SNAPSHOT_END" => m.id <= last_inc_seq_num_

\* So do those under way, those the consumer has collected and those it has
\* recovered to.
SnapshotsReached ==
    /\ \A d \in DOMAIN snapshot : \A i \in DOMAIN snapshot[d] : Reached(snapshot[d][i])
    /\ \A d \in DOMAIN snapshot_wire : \A i \in DOMAIN snapshot_wire[d] :
          Reached(snapshot_wire[d][i])
    /\ \A m \in consumer.queued : Reached(m)
    /\ \A n \in adopted : n <= last_inc_seq_num_

\* The consumer's map has a last message.
Bounded(queued) == \E bound \in Nat : \A m \in queued : m.seq <= bound

\* The consumer waits for what follows the last update it has passed on, or the
\* last snapshot it has recovered to.
ConsumerWaits ==
    /\ consumer.next_exp = LastReceived + 1 \/ consumer.next_exp - 1 \in adopted
    /\ Bounded(consumer.queued)

\* What the synthesizer has still to read follows the number it is at.
SynthesizerLags ==
    /\ last_inc_seq_num_ + Len(snapshot_md_updates_) <= Len(published)
    /\ ~aborted =>
          /\ last_inc_seq_num_ + Len(snapshot_md_updates_) = Len(published)
          /\ \A i \in DOMAIN snapshot_md_updates_ :
                snapshot_md_updates_[i] = published[last_inc_seq_num_ + i]

\* The synthesizer's orders are those of a book of the engine, and no two orders of
\* this book share an id.
Follows(orders, book) ==
    /\ \A o, p \in Orders :
          book[o] > 0 /\ book[p] > 0
            /\ generateNewMarketOrderId(o) = generateNewMarketOrderId(p) => o = p
    /\ \A id \in Orders : orders[id] > 0 =>
          \E o \in Orders : generateNewMarketOrderId(o) = id /\ book[o] > 0
    /\ \A o \in Orders : book[o] > 0 => orders[generateNewMarketOrderId(o)] = book[o]

\* What an update says is what has happened to an order of the engine.
Tells(m, before, after) ==
    \E o \in Orders :
        /\ m.id = generateNewMarketOrderId(o)
        /\ after = [before EXCEPT ![o] = m.qty]
        /\ m.type = "ADD" <=> before[o] = 0

\* Every update tells of its change, and the synthesizer's orders are the book at
\* the number it is at: the ASSERTs let no other update through.  With ids of
\* their own they let every update through.
BooksFollow ==
    /\ Len(books) = Len(published) + 1 /\ books[Len(books)] = live
    /\ \A o \in Orders : o >= next_order => live[o] = 0
    /\ \A n \in DOMAIN published : Tells(published[n], books[n], books[n + 1])
    /\ Follows(ticker_orders_, books[last_inc_seq_num_ + 1])
    /\ DistinctIds => ~aborted

MarketDataInv ==
    /\ TypeOK /\ NumbersCount /\ IncrementalsGoUp /\ SnapshotsReached /\ ConsumerWaits
    /\ GapsOnlyByRecovery /\ SynthesizerLags /\ BooksFollow

-----------------------------------------------------------------------------
(* Induction, and recursive functions.                                     *)

\* Every set of numbers has a least one.
LEMMA Least == ASSUME NEW T \in SUBSET Nat, T # {} PROVE \E x \in T : \A y \in T : x <= y
<1>1. PICK x \in T : \A y \in T : ~ (<<y, x>> \in OpToRel(<, Nat))
  BY WFMin, NatLessThanWellFounded
<1>2. ASSUME NEW y \in T PROVE x <= y
  <2>1. <<y, x>> \notin {ss \in Nat \X Nat : ss[1] < ss[2]}
    BY <1>1 DEF OpToRel
  <2>2. <<y, x>> \in Nat \X Nat /\ <<y, x>>[1] = y /\ <<y, x>>[2] = x
    OBVIOUS
  <2>3. ~(y < x)
    BY <2>1, <2>2
  <2>4. QED BY <2>3
<1>3. QED BY <1>2

\* Induction over the numbers.
LEMMA Induction ==
  ASSUME NEW T, 0 \in T, \A n \in Nat : n \in T => n + 1 \in T
  PROVE  \A n \in Nat : n \in T
<1>1. SUFFICES ASSUME NEW n \in Nat, n \notin T PROVE FALSE
  OBVIOUS
<1>2. PICK x \in Nat \ T : \A y \in Nat \ T : x <= y
  BY <1>1, Least
<1>3. x # 0 /\ x - 1 \in Nat
  BY <1>2
<1>4. x - 1 \in T
  BY <1>2, <1>3
<1>5. x - 1 + 1 \in T
  BY <1>3, <1>4
<1>6. QED BY <1>2, <1>5

\* A function that starts with base and has each value from the one before it.
Steps(V, n) == [1 .. n -> [V -> V]]

Solves(f, V, base, n, step) ==
    n \in Nat /\ f \in [0 .. n -> V] /\ f[0] = base /\ \A k \in 1 .. n : f[k] = step[k][f[k - 1]]

Runs(g, V, base, n, step) ==
    g[0] = base /\ \A i \in 1 .. n : g[i - 1] \in V => g[i] = step[i][g[i - 1]]

\* Every recursion has a solution.
LEMMA Recursion ==
    ASSUME NEW V, NEW base \in V, NEW n \in Nat, NEW step \in Steps(V, n)
    PROVE  \E f : Solves(f, V, base, n, step)
<1>0. step \in [1 .. n -> [V -> V]]
  BY DEF Steps
<1> DEFINE Sol(m) == {f \in [0 .. m -> V] :
                      f[0] = base /\ \A k \in 1 .. m : f[k] = step[k][f[k - 1]]}
           T == {m \in Nat : m <= n => Sol(m) # {}}
<1>1. 0 \in T
  <2>1. [k \in 0 .. 0 |-> base] \in Sol(0)
    OBVIOUS
  <2>2. QED BY <2>1
<1>2. ASSUME NEW m \in Nat, m \in T PROVE m + 1 \in T
  <2>1. SUFFICES ASSUME m + 1 <= n PROVE Sol(m + 1) # {}
    OBVIOUS
  <2>2. PICK f \in Sol(m) : TRUE
    BY <1>2, <2>1
  <2>3. step[m + 1][f[m]] \in V
    BY <1>0, <2>1, <2>2
  <2> DEFINE g == [k \in 0 .. m + 1 |-> IF k = m + 1 THEN step[m + 1][f[m]] ELSE f[k]]
  <2>4. g \in [0 .. m + 1 -> V]
    BY <2>2, <2>3
  <2>5. g[0] = base
    BY <2>2
  <2>6. ASSUME NEW k \in 1 .. m + 1 PROVE g[k] = step[k][g[k - 1]]
    <3>1. CASE k = m + 1
      <4>1. g[k] = step[m + 1][f[m]] /\ g[k - 1] = f[m]
        BY <3>1
      <4>2. QED BY <3>1, <4>1
    <3>2. CASE k # m + 1
      <4>1. k \in 1 .. m /\ k - 1 \in 0 .. m
        BY <3>2
      <4>2. g[k] = f[k] /\ g[k - 1] = f[k - 1]
        BY <3>2, <4>1
      <4>3. QED BY <2>2, <4>1, <4>2
    <3>3. QED BY <3>1, <3>2
  <2>7. QED BY <2>4, <2>5, <2>6
<1>3. n \in T
  <2> HIDE DEF T
  <2>1. QED BY <1>1, <1>2, Induction
<1>4. PICK f \in Sol(n) : TRUE
  BY <1>3
<1>5. QED BY <1>4 DEF Solves

\* Induction up to n.
LEMMA UpTo ==
    ASSUME NEW n \in Nat, NEW T, 0 \in T, \A i \in 0 .. n - 1 : i \in T => i + 1 \in T
    PROVE  n \in T
<1> DEFINE U == {i \in Nat : i <= n => i \in T}
<1>1. 0 \in U
  OBVIOUS
<1>2. ASSUME NEW i \in Nat, i \in U PROVE i + 1 \in U
  <2>1. CASE i + 1 <= n
    <3>1. i \in 0 .. n - 1 /\ i <= n
      BY <2>1
    <3>2. QED BY <1>2, <3>1
  <2>2. CASE ~(i + 1 <= n)
    BY <2>2
  <2>3. QED BY <2>1, <2>2
<1> HIDE DEF U
<1>3. n \in U
  BY <1>1, <1>2, Induction
<1>4. QED BY <1>3 DEF U

\* What starts with the same value and goes on by the same steps is the same.
LEMMA SameRecursion ==
    ASSUME NEW V, NEW base, NEW n, NEW step, NEW f, Solves(f, V, base, n, step),
           NEW g, Runs(g, V, base, n, step)
    PROVE  g[n] = f[n]
<1>1. n \in Nat /\ f \in [0 .. n -> V] /\ f[0] = base
      /\ \A i \in 1 .. n : f[i] = step[i][f[i - 1]]
  BY DEF Solves
<1>0. g[0] = base /\ \A i \in 1 .. n : g[i - 1] \in V => g[i] = step[i][g[i - 1]]
  BY DEF Runs
<1> DEFINE T == {i \in 0 .. n : g[i] = f[i]}
<1>2. 0 \in T
  BY <1>0, <1>1
<1>3. ASSUME NEW i \in 0 .. n - 1, i \in T PROVE i + 1 \in T
  <2>1. i + 1 \in 1 .. n /\ (i + 1) - 1 = i /\ i \in 0 .. n
    BY <1>1
  <2>2. g[i] = f[i] /\ f[i] \in V
    BY <1>1, <1>3, <2>1
  <2>3. g[i + 1] = step[i + 1][g[i]] /\ f[i + 1] = step[i + 1][f[i]]
    BY <1>0, <1>1, <2>1, <2>2
  <2>4. QED BY <2>1, <2>2, <2>3
<1>4. n \in T
  <2> HIDE DEF T
  <2>1. QED BY <1>1, <1>2, <1>3, UpTo
<1>5. QED BY <1>4

-----------------------------------------------------------------------------
(* Books.                                                                   *)

Books == [Orders -> Qtys]
NoOrders == [o \in Orders |-> 0]

\* What an update does to a book.
Put(book, m) == [book EXCEPT ![m.id] = m.qty]

\* An update of a book gives a book.
LEMMA PutTypes == ASSUME NEW book \in Books, NEW m \in Updates PROVE Put(book, m) \in Books
BY DEF Put, Books, Updates

\* An update that the ASSERTs accept keeps the synthesizer with the engine's book.
LEMMA FollowsPut ==
    ASSUME NEW orders \in Books, NEW book \in Books, NEW o \in Orders, NEW qty \in Qtys,
           Follows(orders, book), book[o] = 0 <=> orders[generateNewMarketOrderId(o)] = 0
    PROVE  Follows([orders EXCEPT ![generateNewMarketOrderId(o)] = qty],
                   [book EXCEPT ![o] = qty])
<1> DEFINE id == generateNewMarketOrderId(o)
           new == [orders EXCEPT ![id] = qty]
           then == [book EXCEPT ![o] = qty]
<1>1. \A p \in Orders : generateNewMarketOrderId(p) \in Orders
  BY BoundsAssumption DEF generateNewMarketOrderId, Orders
<1>2. /\ \A i \in Orders : orders[i] \in Nat /\ new[i] = IF i = id THEN qty ELSE orders[i]
      /\ \A p \in Orders : book[p] \in Nat /\ then[p] = IF p = o THEN qty ELSE book[p]
      /\ qty \in Nat /\ id \in Orders
  BY <1>1 DEF Books, Qtys
<1>3. ASSUME NEW p \in Orders, book[p] > 0, generateNewMarketOrderId(p) = id PROVE p = o
  <2>1. orders[id] # 0
    BY <1>2, <1>3 DEF Follows
  <2>2. book[o] > 0
    BY <1>2, <2>1
  <2>3. QED BY <1>3, <2>2 DEF Follows
<1> HIDE DEF id, new, then
<1>4. ASSUME NEW p \in Orders, NEW q \in Orders, then[p] > 0, then[q] > 0,
             generateNewMarketOrderId(p) = generateNewMarketOrderId(q)
      PROVE  p = q
  BY <1>2, <1>3, <1>4 DEF Follows, id
<1>5. ASSUME NEW i \in Orders, new[i] > 0
      PROVE  \E p \in Orders : generateNewMarketOrderId(p) = i /\ then[p] > 0
  <2>1. CASE i = id
    BY <1>2, <1>5, <2>1 DEF id
  <2>2. CASE i # id
    <3>1. PICK p \in Orders : generateNewMarketOrderId(p) = i /\ book[p] > 0
      BY <1>2, <1>5, <2>2 DEF Follows
    <3>2. p # o
      BY <2>2, <3>1 DEF id
    <3>3. QED BY <1>2, <3>1, <3>2
  <2>3. QED BY <2>1, <2>2
<1>6. ASSUME NEW p \in Orders, then[p] > 0 PROVE new[generateNewMarketOrderId(p)] = then[p]
  <2>1. CASE p = o
    BY <1>2, <2>1 DEF id
  <2>2. CASE p # o
    <3>1. book[p] > 0 /\ orders[generateNewMarketOrderId(p)] = book[p]
      BY <1>2, <1>6, <2>2 DEF Follows
    <3>2. generateNewMarketOrderId(p) # id
      BY <1>3, <2>2, <3>1
    <3>3. QED BY <1>1, <1>2, <2>2, <3>1, <3>2
  <2>3. QED BY <2>1, <2>2
<1>7. QED BY <1>4, <1>5, <1>6 DEF Follows, new, then, id

-----------------------------------------------------------------------------
(* The datagrams of a snapshot.                                            *)

\* The ids with an order, each once.
LEMMA FilledIds ==
    ASSUME NEW orders \in Books
    PROVE  /\ Filled(orders) \in Seq(Orders)
           /\ \A i \in DOMAIN Filled(orders) : orders[Filled(orders)[i]] > 0
           /\ \A id \in Orders : orders[id] > 0 =>
                 \E i \in DOMAIN Filled(orders) : Filled(orders)[i] = id
           /\ \A i, j \in DOMAIN Filled(orders) : Filled(orders)[i] = Filled(orders)[j] => i = j
<1> DEFINE n == MaxOrders
           V == Seq(Orders)
           none == << >>
           More(v, id) == IF orders[id] > 0 THEN Append(v, id) ELSE v
           step == [id \in 1 .. n |-> [v \in V |-> More(v, id)]]
<1>0. n \in Nat
  BY BoundsAssumption
<1>1. none \in V
  OBVIOUS
<1>2. ASSUME NEW i \in 1 .. n, NEW v \in V PROVE More(v, i) \in V
  <2>1. i \in Orders
    BY DEF Orders
  <2>2. Append(v, i) \in V
    BY <2>1
  <2>3. QED BY <2>2
<1>3. step \in Steps(V, n)
  <2> HIDE DEF V, More
  <2>1. QED BY <1>2 DEF Steps
<1>4. PICK f : Solves(f, V, none, n, step)
  <2> HIDE DEF step, V, n, none
  <2>1. QED BY <1>0, <1>1, <1>3, Recursion
<1>5. /\ f \in [0 .. n -> V] /\ f[0] = << >>
      /\ \A i \in 1 .. n : f[i] = More(f[i - 1], i)
  <2> HIDE DEF V, More
  <2>1. /\ f \in [0 .. n -> V] /\ f[0] = << >>
        /\ \A k \in 1 .. n : f[k] = step[k][f[k - 1]]
    BY <1>4 DEF Solves
  <2>2. ASSUME NEW i \in 1 .. n PROVE f[i] = More(f[i - 1], i)
    <3>1. i - 1 \in 0 .. n
      BY <1>0
    <3>2. f[i - 1] \in V
      BY <2>1, <3>1
    <3>3. QED BY <2>1, <3>2
  <2>3. QED BY <2>1, <2>2
<1>6. f = [i \in 0 .. n |-> IF i = 0 THEN << >>
                            ELSE IF orders[i] > 0 THEN Append(f[i - 1], i) ELSE f[i - 1]]
  <2> HIDE DEF V, n
  <2>1. /\ f = [i \in 0 .. n |-> f[i]] /\ f[0] = << >>
        /\ \A i \in 0 .. n : i # 0 => i \in 1 .. n
    BY <1>0, <1>5
  <2>2. QED BY <1>5, <2>1
<1> DEFINE g == CHOOSE h : h = [i \in 0 .. n |->
                  IF i = 0 THEN << >>
                  ELSE IF orders[i] > 0 THEN Append(h[i - 1], i) ELSE h[i - 1]]
<1>7. g = [i \in 0 .. n |-> IF i = 0 THEN << >>
                            ELSE IF orders[i] > 0 THEN Append(g[i - 1], i) ELSE g[i - 1]]
  <2> HIDE DEF step, n, V
  <2>1. QED BY <1>6
<1>8. Filled(orders) = g[n]
  BY DEF Filled
<1> HIDE DEF g
<1>9. Runs(g, V, none, n, step)
  <2>1. 0 \in 0 .. n /\ \A i \in 1 .. n : i \in 0 .. n /\ i # 0
    BY <1>0
  <2> HIDE DEF V, n
  <2>2. g[0] = << >>
    BY <1>7, <2>1
  <2>3. ASSUME NEW i \in 1 .. n, g[i - 1] \in V PROVE g[i] = step[i][g[i - 1]]
    <3>1. g[i] = More(g[i - 1], i)
      BY <1>7, <2>1
    <3> HIDE DEF More
    <3>2. step[i][g[i - 1]] = More(g[i - 1], i)
      BY <2>3
    <3>3. QED BY <3>1, <3>2
  <2>4. QED BY <2>2, <2>3 DEF Runs
<1>10. g[n] = f[n]
  <2> HIDE DEF step, V, n, none
  <2>1. QED BY <1>4, <1>9, SameRecursion
<1>11. f[n] \in V
  BY <1>0, <1>5
<1> DEFINE Good(list, i) ==
               /\ \A a \in DOMAIN list : list[a] \in 1 .. i /\ orders[list[a]] > 0
               /\ \A id \in 1 .. i : orders[id] > 0 => \E a \in DOMAIN list : list[a] = id
               /\ \A a, b \in DOMAIN list : list[a] = list[b] => a = b
           T == {i \in 0 .. n : Good(f[i], i)}
<1>12. n \in T
  <2>1. 0 \in T
    BY <1>0, <1>5
  <2>2. ASSUME NEW i \in 0 .. n - 1, i \in T PROVE i + 1 \in T
    <3>1. /\ i + 1 \in 1 .. n /\ (i + 1) - 1 = i /\ i \in 0 .. n /\ i + 1 \in 0 .. n
          /\ i \in Nat /\ f[i] \in V /\ Good(f[i], i)
      BY <1>0, <1>5, <2>2
    <3> DEFINE old == f[i]
               new == f[i + 1]
    <3>2. new = IF orders[i + 1] > 0 THEN Append(old, i + 1) ELSE old
      BY <1>5, <3>1
    <3>3. \A x \in 1 .. i + 1 : x \in 1 .. i \/ x = i + 1
      BY <3>1
    <3>4. \A x \in 1 .. i : x \in 1 .. i + 1 /\ x # i + 1
      BY <3>1
    <3>5. CASE orders[i + 1] > 0
      <4>1. i + 1 \in Orders
        BY <3>1 DEF Orders
      <4>2. /\ Len(new) = Len(old) + 1 /\ new[Len(old) + 1] = i + 1
            /\ \A a \in 1 .. Len(old) : new[a] = old[a]
            /\ Len(old) \in Nat /\ DOMAIN old = 1 .. Len(old) /\ DOMAIN new = 1 .. Len(old) + 1
        BY <3>1, <3>2, <3>5, <4>1
      <4>3. \A a \in DOMAIN new : a \in DOMAIN old \/ a = Len(old) + 1
        BY <4>2
      <4>4. \A a \in DOMAIN old : a \in DOMAIN new /\ new[a] = old[a]
        BY <4>2
      <4>5. Len(old) + 1 \in DOMAIN new
        BY <4>2
      <4>6. Good(old, i)
        BY <3>1
      <4> HIDE DEF old, new
      <4>7. \A a \in DOMAIN new : new[a] \in 1 .. i + 1 /\ orders[new[a]] > 0
        BY <3>1, <3>4, <3>5, <4>2, <4>3, <4>4, <4>6
      <4>8. \A id \in 1 .. i + 1 : orders[id] > 0 => \E a \in DOMAIN new : new[a] = id
        BY <3>3, <4>2, <4>4, <4>5, <4>6
      <4>9. \A a, b \in DOMAIN new : new[a] = new[b] => a = b
        BY <3>4, <4>2, <4>3, <4>4, <4>6
      <4>10. Good(new, i + 1)
        BY <4>7, <4>8, <4>9
      <4>11. QED BY <3>1, <4>10 DEF new
    <3>6. CASE ~(orders[i + 1] > 0)
      BY <3>1, <3>2, <3>3, <3>4, <3>6
    <3>7. QED BY <3>5, <3>6
  <2> HIDE DEF T
  <2>3. QED BY <1>0, <2>1, <2>2, UpTo
<1>13. Good(f[n], n)
  BY <1>12
<1>14. QED BY <1>8, <1>10, <1>11, <1>13 DEF Orders

\* One element after a list.
LEMMA EndsWith ==
    ASSUME NEW S, NEW list \in Seq(S), NEW e \in S
    PROVE  /\ list \o <<e>> \in Seq(S) /\ Len(list \o <<e>>) \in DOMAIN (list \o <<e>>)
           /\ (list \o <<e>>)[Len(list \o <<e>>)] = e
           /\ \A i \in DOMAIN (list \o <<e>>) :
                 \/ i \in DOMAIN list /\ (list \o <<e>>)[i] = list[i]
                 \/ (list \o <<e>>)[i] = e
<1> DEFINE one == <<e>>
           all == list \o one
<1>1. one \in Seq(S) /\ Len(one) = 1 /\ one[1] = e /\ Len(list) \in Nat
      /\ DOMAIN list = 1 .. Len(list)
  OBVIOUS
<1> HIDE DEF one
<1>2. /\ all \in Seq(S) /\ Len(all) = Len(list) + Len(one)
      /\ \A i \in 1 .. Len(list) + Len(one) :
            all[i] = IF i <= Len(list) THEN list[i] ELSE one[i - Len(list)]
  BY <1>1, ConcatProperties
<1> HIDE DEF all
<1>3. /\ Len(all) = Len(list) + 1 /\ DOMAIN all = 1 .. Len(list) + 1
      /\ \A i \in 1 .. Len(list) + 1 : i <= Len(list) \/ i - Len(list) = 1
  BY <1>1, <1>2
<1>4. all[Len(all)] = e /\ Len(all) \in DOMAIN all
  BY <1>1, <1>2, <1>3
<1>5. ASSUME NEW i \in DOMAIN all
      PROVE  (i \in DOMAIN list /\ all[i] = list[i]) \/ all[i] = e
  BY <1>1, <1>2, <1>3
<1>6. QED BY <1>2, <1>4, <1>5 DEF all, one

\* Datagrams that end with the number of a book, show each of its orders, and show
\* nothing else.
Shows(list, orders, last) ==
    /\ LastMessage(list).id = last
    /\ \A m \in Within(list) : m.type = "ADD" =>
          m.id \in Orders /\ orders[m.id] > 0 /\ m.qty = orders[m.id]
    /\ \A id \in Orders : orders[id] > 0 =>
          \E m \in Within(list) : m.type = "ADD" /\ m.id = id
    /\ \A m, n \in Within(list) : m.type = "ADD" /\ n.type = "ADD" /\ m.id = n.id => m = n

\* A snapshot is made of messages, carries no other number than that of the book at
\* its end, and shows the book.
LEMMA DatagramsShow ==
    ASSUME NEW orders \in Books, NEW last \in Nat,
           NEW list, list = Datagrams(orders, last)
    PROVE  /\ list \in Seq(Seq({m \in Messages : m.type = "SNAPSHOT_END" => m.id = last}))
           /\ Shows(list, orders, last)
<1> DEFINE ids == Filled(orders)
           k == Len(ids)
           first == Message(0, "SNAPSHOT_START", last, 0)
           clear == Message(1, "CLEAR", 0, 0)
           final == Message(k + 2, "SNAPSHOT_END", last, 0)
           order(d) == Message(d + 1, "ADD", ids[d], orders[ids[d]])
           start == <<first, clear>>
           Fit == {m \in Messages : m.type = "SNAPSHOT_END" => m.id = last}
           pre(d) == IF d = 1 THEN start ELSE << >>
           e(d) == IF d <= k THEN order(d) ELSE final
<1>1. /\ ids \in Seq(Orders) /\ k \in Nat /\ DOMAIN ids = 1 .. k
      /\ \A i \in 1 .. k : ids[i] \in Orders /\ orders[ids[i]] > 0
      /\ \A id \in Orders : orders[id] > 0 => \E i \in 1 .. k : ids[i] = id
      /\ \A i, j \in 1 .. k : ids[i] = ids[j] => i = j
  BY FilledIds
<1> HIDE DEF ids, k
<1>2. /\ first \in Fit /\ clear \in Fit /\ final \in Fit /\ final.id = last
      /\ first.type # "ADD" /\ clear.type # "ADD" /\ final.type # "ADD"
  BY <1>1 DEF Message, Messages, Types, Qtys
<1>3. ASSUME NEW d \in 1 .. k
      PROVE  /\ order(d) \in Fit /\ order(d).type = "ADD" /\ order(d).id = ids[d]
             /\ order(d).qty = orders[ids[d]]
  <2>1. orders[ids[d]] \in Qtys /\ ids[d] \in Nat /\ d + 1 \in Nat
    BY <1>1, BoundsAssumption DEF Books, Orders
  <2>2. QED BY <2>1 DEF Message, Messages, Types
<1>4. list = [d \in 1 .. k + 1 |-> pre(d) \o <<e(d)>>]
  BY DEF Datagrams, ids, k
<1> HIDE DEF first, clear, final, order, Fit
<1>5. ASSUME NEW d
      PROVE  pre(d) \in Seq(Fit) /\ \A i \in DOMAIN pre(d) : pre(d)[i].type # "ADD"
  <2>1. start \in Seq(Fit) /\ \A i \in DOMAIN start : start[i].type # "ADD"
    BY <1>2
  <2>2. << >> \in Seq(Fit) /\ DOMAIN << >> = {}
    OBVIOUS
  <2> HIDE DEF start
  <2>3. QED BY <2>1, <2>2
<1> HIDE DEF pre
<1>6. ASSUME NEW d \in 1 .. k + 1
      PROVE  /\ e(d) \in Fit /\ list[d] \in Seq(Fit)
             /\ Len(list[d]) \in DOMAIN list[d] /\ list[d][Len(list[d])] = e(d)
             /\ \A i \in DOMAIN list[d] : list[d][i].type = "ADD" => list[d][i] = e(d)
  <2>1. e(d) \in Fit
    BY <1>1, <1>2, <1>3
  <2> HIDE DEF e
  <2>2. list[d] = pre(d) \o <<e(d)>>
    BY <1>4
  <2>3. QED BY <1>5, <2>1, <2>2, EndsWith
<1>7. list \in Seq(Seq(Fit)) /\ Len(list) = k + 1 /\ DOMAIN list = 1 .. k + 1
  <2> DEFINE n == k + 1
             datagram(d) == pre(d) \o <<e(d)>>
             Made == Seq(Fit)
  <2>1. n \in Nat
    BY <1>1
  <2>2. list = [d \in 1 .. n |-> datagram(d)]
    BY <1>4
  <2>3. \A d \in 1 .. n : list[d] \in Made
    BY <1>6
  <2> HIDE DEF n, datagram, Made
  <2>4. list \in [1 .. n -> Made]
    <3>1. \A d \in 1 .. n : datagram(d) \in Made
      BY <2>2, <2>3
    <3>2. QED BY <2>2, <3>1
  <2>5. list \in Seq(Made) /\ Len(list) = n /\ DOMAIN list = 1 .. n
    BY <2>1, <2>4
  <2>6. QED BY <2>5 DEF n, Made
<1>8. LastMessage(list).id = last
  <2>1. k + 1 \in 1 .. k + 1 /\ e(k + 1) = final
    BY <1>1
  <2>2. LastMessage(list) = final
    BY <1>6, <1>7, <2>1 DEF LastMessage
  <2>3. QED BY <1>2, <2>2
<1>9. ASSUME NEW m \in Within(list), m.type = "ADD"
      PROVE  \E d \in 1 .. k : m = order(d)
  <2>1. PICK d \in 1 .. k + 1 : \E i \in DOMAIN list[d] : m = list[d][i]
    BY <1>7 DEF Within
  <2>2. m = e(d)
    BY <1>6, <1>9, <2>1
  <2>3. d <= k
    BY <1>2, <1>9, <2>2
  <2>4. QED BY <1>1, <2>2, <2>3
<1>10. ASSUME NEW id \in Orders, orders[id] > 0
       PROVE  \E m \in Within(list) : m.type = "ADD" /\ m.id = id
  <2>1. PICK d \in 1 .. k : ids[d] = id
    BY <1>1, <1>10
  <2>2. d \in 1 .. k + 1 /\ e(d) = order(d)
    BY <1>1
  <2>3. /\ d \in DOMAIN list /\ Len(list[d]) \in DOMAIN list[d]
        /\ list[d][Len(list[d])] = order(d)
    <3> HIDE DEF e
    <3>1. QED BY <1>6, <1>7, <2>2
  <2>4. order(d) \in Within(list)
    <3>1. order(d) \in {list[d][i] : i \in DOMAIN list[d]}
      BY <2>3
    <3>2. QED BY <2>3, <3>1 DEF Within
  <2>5. QED BY <1>3, <2>1, <2>4
<1>11. ASSUME NEW m \in Within(list), m.type = "ADD"
       PROVE  m.id \in Orders /\ orders[m.id] > 0 /\ m.qty = orders[m.id]
  BY <1>1, <1>3, <1>9, <1>11
<1>12. ASSUME NEW m \in Within(list), NEW n \in Within(list), m.type = "ADD", n.type = "ADD",
              m.id = n.id
       PROVE  m = n
  <2>1. PICK c \in 1 .. k, d \in 1 .. k : m = order(c) /\ n = order(d)
    BY <1>9, <1>12
  <2>2. c = d
    BY <1>1, <1>3, <1>12, <2>1
  <2>3. QED BY <2>1, <2>2
<1>13. QED BY <1>7, <1>8, <1>10, <1>11, <1>12 DEF Fit, Shows

-----------------------------------------------------------------------------
(* The consumer in the course of recvCallback().                           *)

Consumers == [next_exp : Nat, in_recovery : BOOLEAN,
              queued : {queued \in SUBSET Messages : Bounded(queued)},
              joined : BOOLEAN, alive : BOOLEAN, out : Seq(Messages), ends : SUBSET Nat]

\* A message more leaves the map with a last message.
LEMMA QueuedGrows ==
    ASSUME NEW c \in Consumers, NEW is_snapshot, NEW m \in Messages,
           NEW queued, queued = Queued(c, is_snapshot, m)
    PROVE  /\ queued \in SUBSET Messages /\ queued # {} /\ Bounded(queued)
           /\ queued \subseteq c.queued \cup {m}
<1>1. c.queued \in SUBSET Messages /\ Bounded(c.queued)
  BY DEF Consumers
<1>2. queued \subseteq c.queued \cup {m} /\ m \in queued
  BY DEF Queued
<1>3. PICK bound \in Nat : \A q \in c.queued : q.seq <= bound
  BY <1>1 DEF Bounded
<1>4. m.seq \in Nat /\ \A q \in c.queued : q.seq \in Nat
  BY <1>1 DEF Messages
<1>5. bound + m.seq \in Nat /\ \A q \in queued : q.seq <= bound + m.seq
  BY <1>2, <1>3, <1>4
<1>6. QED BY <1>1, <1>2, <1>5 DEF Bounded

\* A map that is not empty has a first and a last message.
LEMMA QueuedEnds ==
    ASSUME NEW queued \in SUBSET Messages, queued # {}, Bounded(queued)
    PROVE  FirstQueued(queued) \in queued /\ LastQueued(queued) \in queued
<1>1. \A q \in queued : q.seq \in Nat
  BY DEF Messages
<1>2. \E q \in queued : \A p \in queued : q.seq <= p.seq
  <2> DEFINE T == {q.seq : q \in queued}
  <2>1. T \in SUBSET Nat /\ T # {}
    BY <1>1
  <2>2. PICK x \in T : \A y \in T : x <= y
    <3> HIDE DEF T
    <3>1. QED BY <2>1, Least
  <2>3. PICK q \in queued : q.seq = x
    BY <2>2
  <2>4. QED BY <2>2, <2>3
<1>3. \E q \in queued : \A p \in queued : q.seq >= p.seq
  <2>1. PICK bound \in Nat : \A q \in queued : q.seq <= bound
    BY DEF Bounded
  <2> DEFINE T == {bound - q.seq : q \in queued}
  <2>2. T \in SUBSET Nat /\ T # {}
    BY <1>1, <2>1
  <2>3. PICK x \in T : \A y \in T : x <= y
    <3> HIDE DEF T
    <3>1. QED BY <2>2, Least
  <2>4. PICK q \in queued : bound - q.seq = x
    BY <2>3
  <2>5. ASSUME NEW p \in queued PROVE q.seq >= p.seq
    <3>1. bound - q.seq <= bound - p.seq
      BY <2>3, <2>4
    <3>2. QED BY <1>1, <2>1, <3>1
  <2>6. QED BY <2>5
<1>4. FirstQueued(queued) \in queued
  BY <1>2 DEF FirstQueued
<1>5. LastQueued(queued) \in queued
  BY <1>3 DEF LastQueued
<1>6. QED BY <1>4, <1>5

\* A recovery that goes on changes the map only, and one that ends does so at the
\* number of a SNAPSHOT_END of the map.
RecoveryMoves(c, d, m) ==
    /\ d.out = c.out /\ d.queued \subseteq c.queued \cup {m}
    /\ \/ d.next_exp = c.next_exp /\ d.ends = c.ends
       \/ \E e \in c.queued \cup {m} :
             /\ e.type = "SNAPSHOT_END"
             /\ d.next_exp = e.id + 1 /\ d.ends = c.ends \cup {e.id}

\* queueMessage() with checkSnapshotSync() makes no move but these, on either stream.
LEMMA Recovering ==
    ASSUME NEW c \in Consumers, NEW is_snapshot, NEW m \in Messages,
           NEW d \in queueMessage(c, is_snapshot, m)
    PROVE  d \in Consumers /\ RecoveryMoves(c, d, m)
<1> DEFINE queued == Queued(c, is_snapshot, m)
           b == [c EXCEPT !.queued = queued]
           first == FirstQueued(queued)
           last == LastQueued(queued)
<1>1. /\ queued \in SUBSET Messages /\ queued # {} /\ Bounded(queued)
      /\ queued \subseteq c.queued \cup {m}
  BY QueuedGrows
<1>2. first \in queued /\ last \in queued
  <2> HIDE DEF queued
  <2>1. QED BY <1>1, QueuedEnds
<1> HIDE DEF queued
<1>3. /\ b \in Consumers /\ b.queued = queued /\ b.out = c.out /\ b.ends = c.ends
      /\ b.next_exp = c.next_exp
  BY <1>1 DEF Consumers
<1>4. d \in checkSnapshotSync(b)
  BY DEF queueMessage, queued
<1> HIDE DEF b
<1>5. CASE first.type # "SNAPSHOT_START"
  <2>1. d = [b EXCEPT !.queued = {}]
    BY <1>3, <1>4, <1>5 DEF checkSnapshotSync
  <2>2. Bounded({})
    BY DEF Bounded
  <2>3. d \in Consumers /\ d.queued = {} /\ d.out = b.out /\ d.ends = b.ends
        /\ d.next_exp = b.next_exp
    BY <1>3, <2>1, <2>2 DEF Consumers
  <2>4. QED BY <1>3, <2>3 DEF RecoveryMoves
<1>6. CASE first.type = "SNAPSHOT_START" /\ last.type # "SNAPSHOT_END"
  <2>1. d = b
    BY <1>3, <1>4, <1>6 DEF checkSnapshotSync
  <2>2. QED BY <1>1, <1>3, <2>1 DEF RecoveryMoves
<1>7. CASE first.type = "SNAPSHOT_START" /\ last.type = "SNAPSHOT_END"
  <2>1. PICK survives \in BOOLEAN :
          d = [b EXCEPT !.next_exp = ResumeAt(last), !.in_recovery = FALSE,
                        !.queued = {}, !.joined = FALSE, !.alive = survives,
                        !.ends = @ \cup {last.id}]
    BY <1>3, <1>4, <1>7 DEF checkSnapshotSync
  <2>2. Bounded({}) /\ ResumeAt(last) = last.id + 1 /\ last.id \in Nat
    BY <1>1, <1>2 DEF Bounded, ResumeAt, Messages
  <2> DEFINE n == last.id
             ends == b.ends \cup {n}
  <2> HIDE DEF n
  <2>3. d \in Consumers /\ d.queued = {} /\ d.out = b.out /\ d.ends = b.ends \cup {n}
        /\ d.next_exp = n + 1
    <3>1. ends \in SUBSET Nat /\ n + 1 \in Nat
      BY <1>3, <2>2 DEF Consumers, n
    <3>2. d = [b EXCEPT !.next_exp = n + 1, !.in_recovery = FALSE, !.queued = {},
                        !.joined = FALSE, !.alive = survives, !.ends = ends]
      BY <1>3, <2>1, <2>2 DEF Consumers, n
    <3> HIDE DEF ends
    <3>3. d \in Consumers /\ d.queued = {} /\ d.out = b.out /\ d.ends = ends
          /\ d.next_exp = n + 1
      BY <1>3, <2>2, <3>1, <3>2 DEF Consumers
    <3>4. QED BY <3>3 DEF ends
  <2>4. last \in c.queued \cup {m}
    BY <1>1, <1>2
  <2>5. QED BY <1>3, <1>7, <2>3, <2>4 DEF RecoveryMoves, n
<1>8. QED BY <1>5, <1>6, <1>7

\* What one message does to the consumer: it passes the message on, when that
\* is the incremental it waits for, or goes on recovering, or nothing happens.
PassesOn(c, d, m) ==
    /\ m.seq = c.next_exp /\ d.next_exp = m.seq + 1
    /\ d.out = Append(c.out, m)
    /\ d.queued = c.queued /\ d.ends = c.ends

\* Any message, on either stream, is passed on, or collected and perhaps
\* recovered to, or does nothing.
LEMMA OneMessage ==
    ASSUME NEW c \in Consumers, NEW is_snapshot \in BOOLEAN, NEW m \in Messages,
           NEW d \in OnMessage(c, is_snapshot, m)
    PROVE  /\ d \in Consumers
           /\ RecoveryMoves(c, d, m) \/ (~is_snapshot /\ PassesOn(c, d, m))
<1>1. CASE ~c.alive \/ (c.alive /\ ~c.in_recovery /\ ~Gap(c, m) /\ is_snapshot)
  <2>1. d = c
    BY <1>1 DEF OnMessage
  <2>2. QED BY <2>1 DEF RecoveryMoves
<1>2. CASE c.alive /\ c.in_recovery
  <2>1. d \in queueMessage(c, is_snapshot, m)
    BY <1>2 DEF OnMessage
  <2>2. QED BY <2>1, Recovering
<1>3. CASE c.alive /\ ~c.in_recovery /\ Gap(c, m)
  <2> DEFINE b == startSnapshotSync(c)
  <2>1. d \in queueMessage(b, is_snapshot, m)
    BY <1>3 DEF OnMessage
  <2>2. Bounded({})
    BY DEF Bounded
  <2>3. b \in Consumers /\ b.queued = {} /\ b.out = c.out /\ b.ends = c.ends
        /\ b.next_exp = c.next_exp
    BY <2>2 DEF startSnapshotSync, Consumers
  <2> HIDE DEF b
  <2>4. d \in Consumers /\ RecoveryMoves(b, d, m)
    BY <2>1, <2>3, Recovering
  <2>5. QED BY <2>3, <2>4 DEF RecoveryMoves
<1>4. CASE c.alive /\ ~c.in_recovery /\ ~Gap(c, m) /\ ~is_snapshot
  <2>1. d = [c EXCEPT !.next_exp = m.seq + 1, !.out = Append(@, m)]
    BY <1>4 DEF OnMessage
  <2>2. m.seq + 1 \in Nat /\ c.out \in Seq(Messages) /\ Append(c.out, m) \in Seq(Messages)
    BY DEF Messages, Consumers
  <2>3. d \in Consumers /\ d.next_exp = m.seq + 1 /\ d.out = Append(c.out, m)
        /\ d.queued = c.queued /\ d.ends = c.ends
    BY <2>1, <2>2 DEF Consumers
  <2>4. m.seq = c.next_exp
    BY <1>4 DEF Gap
  <2>5. QED BY <1>4, <2>3, <2>4 DEF PassesOn
<1>5. QED BY <1>1, <1>2, <1>3, <1>4

\* The consumer as recvCallback() finds it.
Found == [next_exp |-> consumer.next_exp, in_recovery |-> consumer.in_recovery,
          queued |-> consumer.queued, joined |-> consumer.joined,
          alive |-> consumer.alive, out |-> received, ends |-> adopted]

\* A datagram is handled message by message.
LEMMA HandledSteps ==
    ASSUME Found \in Consumers, NEW is_snapshot \in BOOLEAN, NEW datagram \in Seq(Messages),
           NEW n \in Nat, n = Len(datagram)
    PROVE  \E st \in [0 .. n -> SUBSET Consumers] :
              /\ st[0] = {Found}
              /\ \A i \in 1 .. n : \A d \in st[i] : \E c \in st[i - 1] :
                    d \in OnMessage(c, is_snapshot, datagram[i])
              /\ Handled(is_snapshot, datagram) = st[n]
<1> DEFINE V == SUBSET Consumers
           More(v, i) == UNION {OnMessage(c, is_snapshot, datagram[i]) : c \in v}
           step == [i \in 1 .. n |-> [v \in V |-> More(v, i)]]
           base == {Found}
<1>1. base \in V
  OBVIOUS
<1>2. ASSUME NEW i \in 1 .. n, NEW v \in V PROVE More(v, i) \in V
  <2>1. datagram[i] \in Messages
    OBVIOUS
  <2>2. ASSUME NEW c \in v, NEW d \in OnMessage(c, is_snapshot, datagram[i])
        PROVE  d \in Consumers
    BY <2>1, OneMessage
  <2>3. QED BY <2>2
<1>3. step \in Steps(V, n)
  <2> HIDE DEF V, More
  <2>1. QED BY <1>2 DEF Steps
<1>4. PICK f : Solves(f, V, base, n, step)
  <2> HIDE DEF step, V, base
  <2>1. QED BY <1>1, <1>3, Recursion
<1>5. /\ f \in [0 .. n -> V] /\ f[0] = base
      /\ \A i \in 1 .. n : f[i] = More(f[i - 1], i)
  <2> HIDE DEF V, More
  <2>1. /\ f \in [0 .. n -> V] /\ f[0] = base
        /\ \A k \in 1 .. n : f[k] = step[k][f[k - 1]]
    BY <1>4 DEF Solves
  <2>2. ASSUME NEW i \in 1 .. n PROVE f[i] = More(f[i - 1], i)
    <3>1. i - 1 \in 0 .. n
      OBVIOUS
    <3>2. f[i - 1] \in V
      BY <2>1, <3>1
    <3>3. QED BY <2>1, <3>2
  <2>3. QED BY <2>1, <2>2
<1>6. f = [i \in 0 .. n |-> IF i = 0 THEN base ELSE More(f[i - 1], i)]
  <2> HIDE DEF V, More, base
  <2>1. /\ f = [i \in 0 .. n |-> f[i]] /\ f[0] = base
        /\ \A i \in 0 .. n : i # 0 => i \in 1 .. n
    BY <1>5
  <2>2. QED BY <1>5, <2>1
<1> DEFINE g == CHOOSE h : h = [i \in 0 .. n |-> IF i = 0 THEN base ELSE More(h[i - 1], i)]
<1>7. g = [i \in 0 .. n |-> IF i = 0 THEN base ELSE More(g[i - 1], i)]
  <2> HIDE DEF step, V, More, base
  <2>1. QED BY <1>6
<1>8. Handled(is_snapshot, datagram) = g[n]
  BY DEF Handled, Found
<1> HIDE DEF g
<1>9. Runs(g, V, base, n, step)
  <2>1. 0 \in 0 .. n /\ \A i \in 1 .. n : i \in 0 .. n /\ i # 0
    OBVIOUS
  <2> HIDE DEF V, base, More
  <2>2. g[0] = base
    BY <1>7, <2>1
  <2>3. ASSUME NEW i \in 1 .. n, g[i - 1] \in V PROVE g[i] = step[i][g[i - 1]]
    <3>1. g[i] = More(g[i - 1], i)
      BY <1>7, <2>1
    <3>2. step[i][g[i - 1]] = More(g[i - 1], i)
      BY <2>3
    <3>3. QED BY <3>1, <3>2
  <2>4. QED BY <2>2, <2>3 DEF Runs
<1>10. g[n] = f[n]
  <2> HIDE DEF step, V, base
  <2>1. QED BY <1>4, <1>9, SameRecursion
<1>11. ASSUME NEW i \in 1 .. n, NEW d \in f[i]
       PROVE  \E c \in f[i - 1] : d \in OnMessage(c, is_snapshot, datagram[i])
  <2>1. d \in More(f[i - 1], i)
    BY <1>5, <1>11
  <2>2. QED BY <2>1
<1>12. QED BY <1>5, <1>8, <1>10, <1>11

-----------------------------------------------------------------------------
(* What a datagram leaves of the invariant.                                *)

LastOf(out) == IF out = << >> THEN 0 ELSE out[Len(out)].seq

\* The formula of GapsOnlyByRecovery, for the consumer in recvCallback().
CoveredBy(out, ends) ==
    \A i \in DOMAIN out :
        LET before == IF i = 1 THEN 0 ELSE out[i - 1].seq
            seq    == out[i].seq
        IN  /\ before < seq /\ seq <= Len(published)
            /\ out[i] = published[seq]
            /\ seq = before + 1 \/ seq - 1 \in ends

\* What holds of the consumer after i messages of a datagram.
Fine(c, datagram, i) ==
    /\ \A q \in c.queued : Reached(q)
    /\ \A n \in c.ends : n <= last_inc_seq_num_
    /\ CoveredBy(c.out, c.ends)
    /\ c.next_exp = LastOf(c.out) + 1 \/ c.next_exp - 1 \in c.ends
    /\ c.next_exp \in 1 .. MaxUpdates + 1
    /\ c.out = received \/ \E j \in 1 .. i : LastOf(c.out) = datagram[j].seq

\* The bounds of the numbers.
LEMMA Numbers ==
    ASSUME MarketDataInv
    PROVE  /\ MaxUpdates \in Nat /\ MaxOrders \in Nat
           /\ published \in Seq(Updates) /\ Len(published) \in 0 .. MaxUpdates
           /\ last_inc_seq_num_ \in 0 .. Len(published)
           /\ LastReceived \in 0 .. Len(published) /\ LastReceived = LastOf(received)
           /\ received \in Seq(Messages) /\ snapshot_md_updates_ \in Seq(Messages)
           /\ \A i \in DOMAIN received : received[i].seq \in Nat
           /\ Updates \subseteq Messages
<1>1. MaxUpdates \in Nat /\ MaxOrders \in Nat
  BY BoundsAssumption
<1>2. /\ next_inc_seq_num_ \in 1 .. MaxUpdates + 1 /\ last_inc_seq_num_ \in 0 .. MaxUpdates
      /\ published \in Seq(Messages) /\ received \in Seq(Messages)
      /\ snapshot_md_updates_ \in Seq(Messages)
  BY DEF MarketDataInv, TypeOK
<1>3. Updates \subseteq Messages
  BY <1>1 DEF Updates, Messages, Types, Orders
<1>4. published \in Seq(Updates) /\ Len(published) \in 0 .. MaxUpdates
  <2>1. \A i \in DOMAIN published : published[i] \in Updates
    BY DEF MarketDataInv, NumbersCount
  <2>2. published \in Seq(Updates)
    BY <1>2, <2>1
  <2>3. next_inc_seq_num_ = Len(published) + 1 /\ Len(published) \in Nat
    BY <1>2 DEF MarketDataInv, NumbersCount
  <2>4. QED BY <1>1, <1>2, <2>2, <2>3
<1>5. last_inc_seq_num_ \in 0 .. Len(published)
  <2>1. last_inc_seq_num_ + Len(snapshot_md_updates_) <= Len(published)
    BY DEF MarketDataInv, SynthesizerLags
  <2>2. Len(snapshot_md_updates_) \in Nat
    BY <1>2
  <2>3. QED BY <1>2, <1>4, <2>1, <2>2
<1>6. \A i \in DOMAIN received : received[i] \in Messages /\ received[i].seq \in Nat
  <2>1. \A i \in DOMAIN received : received[i] \in Messages
    BY <1>2
  <2>2. QED BY <2>1 DEF Messages
<1>7. LastReceived \in 0 .. Len(published) /\ LastReceived = LastOf(received)
  <2>1. CASE received = << >>
    BY <1>4, <2>1 DEF LastReceived, LastOf
  <2>2. CASE received # << >>
    <3>1. Len(received) \in DOMAIN received
      BY <1>2, <2>2
    <3>2. received[Len(received)].seq <= Len(published)
      BY <3>1 DEF MarketDataInv, GapsOnlyByRecovery
    <3>3. QED BY <1>4, <1>6, <2>2, <3>1, <3>2 DEF LastReceived, LastOf
  <2>3. QED BY <2>1, <2>2
<1>8. QED BY <1>1, <1>2, <1>3, <1>4, <1>5, <1>6, <1>7

\* The consumer is in a state that recvCallback() handles messages in.
LEMMA FoundFine ==
    ASSUME MarketDataInv, NEW datagram
    PROVE  Found \in Consumers /\ Fine(Found, datagram, 0)
<1>1. /\ consumer \in [next_exp : 1 .. MaxUpdates + 1, in_recovery : BOOLEAN,
                       queued : SUBSET Messages, joined : BOOLEAN, alive : BOOLEAN]
      /\ received \in Seq(Messages) /\ adopted \subseteq 0 .. MaxUpdates
  BY DEF MarketDataInv, TypeOK
<1>2. MaxUpdates \in Nat /\ LastReceived = LastOf(received)
  BY Numbers
<1>3. Bounded(consumer.queued)
  BY DEF MarketDataInv, ConsumerWaits
<1>4. adopted \in SUBSET Nat /\ consumer.next_exp \in Nat
  BY <1>1, <1>2
<1>5. Found \in Consumers
  BY <1>1, <1>3, <1>4 DEF Found, Consumers
<1>6. CoveredBy(received, adopted)
  BY DEF MarketDataInv, GapsOnlyByRecovery, CoveredBy
<1>7. /\ \A q \in consumer.queued : Reached(q)
      /\ \A n \in adopted : n <= last_inc_seq_num_
  BY DEF MarketDataInv, SnapshotsReached
<1>8. consumer.next_exp = LastOf(received) + 1 \/ consumer.next_exp - 1 \in adopted
  BY <1>2 DEF MarketDataInv, ConsumerWaits
<1>9. Fine(Found, datagram, 0)
  BY <1>1, <1>6, <1>7, <1>8 DEF Fine, Found
<1>10. QED BY <1>5, <1>9

\* What recvCallback() may be given: incrementals that are to come, in the order of
\* their numbers, or messages of a snapshot.
Deliverable(is_snapshot, datagram) ==
    /\ datagram \in Seq(Messages)
    /\ \A i \in DOMAIN datagram : Reached(datagram[i])
    /\ ~is_snapshot => GoUp(datagram) /\ \A i \in DOMAIN datagram : ToCome(datagram[i])

\* One message more that the consumer passes on is covered as well.
LEMMA PassedOn ==
    ASSUME MarketDataInv, NEW datagram, Deliverable(FALSE, datagram),
           NEW i \in 1 .. Len(datagram), NEW c \in Consumers, Fine(c, datagram, i - 1),
           NEW d \in Consumers, PassesOn(c, d, datagram[i])
    PROVE  Fine(d, datagram, i)
<1> DEFINE m == datagram[i]
           out == c.out
           k == Len(out) + 1
<1>1. /\ datagram \in Seq(Messages) /\ m \in Messages /\ m.seq \in Nat
      /\ \A j \in 1 .. Len(datagram) : datagram[j].seq \in Nat
  <2>1. datagram \in Seq(Messages)
    BY DEF Deliverable
  <2>2. \A j \in 1 .. Len(datagram) : datagram[j] \in Messages
    BY <2>1
  <2>3. QED BY <2>1, <2>2 DEF Messages
<1>2. m.seq \in DOMAIN published /\ m = published[m.seq] /\ LastReceived < m.seq
  BY <1>1 DEF Deliverable, ToCome
<1>3. m.seq \in 1 .. Len(published) /\ m.seq <= MaxUpdates /\ MaxUpdates \in Nat
  BY <1>2, Numbers
<1>4. out \in Seq(Messages) /\ Len(out) \in Nat /\ d.out = Append(out, m)
  BY DEF Consumers, PassesOn
<1>5. LastOf(out) < m.seq
  <2>1. CASE out = received
    BY <1>2, <2>1, Numbers
  <2>2. ASSUME NEW j \in 1 .. i - 1, LastOf(out) = datagram[j].seq PROVE LastOf(out) < m.seq
    <3>1. j \in DOMAIN datagram /\ i \in DOMAIN datagram /\ j < i
      BY <1>1
    <3>2. QED BY <2>2, <3>1 DEF Deliverable, GoUp
  <2>3. QED BY <2>1, <2>2 DEF Fine
<1> HIDE DEF m, out
<1>6. /\ d.out \in Seq(Messages) /\ Len(d.out) = k /\ d.out[k] = m /\ d.out # << >>
      /\ DOMAIN d.out = 1 .. k /\ DOMAIN out = 1 .. k - 1
      /\ \A j \in 1 .. k - 1 : d.out[j] = out[j]
  <2> DEFINE more == Append(out, m)
  <2>1. /\ more \in Seq(Messages) /\ Len(more) = Len(out) + 1 /\ more[Len(out) + 1] = m
        /\ \A j \in 1 .. Len(out) : more[j] = out[j]
    BY <1>1, <1>4
  <2> HIDE DEF more
  <2>2. DOMAIN more = 1 .. Len(out) + 1 /\ DOMAIN out = 1 .. Len(out) /\ more # << >>
    BY <1>4, <2>1
  <2>3. d.out = more /\ Len(out) = k - 1
    BY <1>4 DEF more
  <2>4. QED BY <2>1, <2>2, <2>3
<1>7. LastOf(d.out) = m.seq
  BY <1>6 DEF LastOf
<1>8. /\ m.seq = c.next_exp /\ d.next_exp = m.seq + 1
      /\ d.queued = c.queued /\ d.ends = c.ends
  BY DEF PassesOn, m
<1>9. CoveredBy(out, c.ends) /\ (c.next_exp = LastOf(out) + 1 \/ c.next_exp - 1 \in c.ends)
  BY DEF Fine, out
<1>10. ASSUME NEW j \in DOMAIN d.out
       PROVE  LET before == IF j = 1 THEN 0 ELSE d.out[j - 1].seq
                  seq    == d.out[j].seq
              IN  /\ before < seq /\ seq <= Len(published)
                  /\ d.out[j] = published[seq]
                  /\ seq = before + 1 \/ seq - 1 \in d.ends
  <2>1. CASE j = k
    <3>1. (IF j = 1 THEN 0 ELSE d.out[j - 1].seq) = LastOf(out)
      <4>1. CASE k = 1
        <5>1. out = << >>
          BY <1>4, <4>1
        <5>2. QED BY <2>1, <4>1, <5>1 DEF LastOf
      <4>2. CASE k # 1
        <5>1. k - 1 \in 1 .. k - 1 /\ k - 1 = Len(out) /\ out # << >>
          BY <1>4, <4>2
        <5>2. d.out[k - 1] = out[Len(out)]
          BY <1>6, <5>1
        <5>3. QED BY <2>1, <4>2, <5>1, <5>2 DEF LastOf
      <4>3. QED BY <4>1, <4>2
    <3>2. d.out[j] = m
      BY <1>6, <2>1
    <3>3. LastOf(out) < m.seq /\ m.seq <= Len(published) /\ m = published[m.seq]
      BY <1>2, <1>3, <1>5
    <3>4. m.seq = LastOf(out) + 1 \/ m.seq - 1 \in d.ends
      BY <1>8, <1>9
    <3>5. QED BY <3>1, <3>2, <3>3, <3>4
  <2>2. CASE j # k
    <3>1. j \in 1 .. k - 1 /\ (j # 1 => j - 1 \in 1 .. k - 1)
      BY <1>4, <1>6, <2>2
    <3>2. j \in DOMAIN out /\ d.out[j] = out[j] /\ (j # 1 => d.out[j - 1] = out[j - 1])
      BY <1>6, <3>1
    <3>3. QED BY <1>8, <1>9, <3>2 DEF CoveredBy
  <2>3. QED BY <2>1, <2>2
<1>11. CoveredBy(d.out, d.ends)
  BY <1>10 DEF CoveredBy
<1>12. /\ \A q \in d.queued : Reached(q)
       /\ \A n \in d.ends : n <= last_inc_seq_num_
  BY <1>8 DEF Fine
<1>13. d.next_exp = LastOf(d.out) + 1 /\ d.next_exp \in 1 .. MaxUpdates + 1
  BY <1>3, <1>7, <1>8
<1>14. \E j \in 1 .. i : LastOf(d.out) = datagram[j].seq
  BY <1>1, <1>7 DEF m
<1>15. QED BY <1>11, <1>12, <1>13, <1>14 DEF Fine

\* A message that a recovery takes in leaves the consumer fine.
LEMMA TakenIn ==
    ASSUME MarketDataInv, NEW datagram, NEW i \in Nat, Reached(datagram[i]),
           datagram[i] \in Messages,
           NEW c \in Consumers, Fine(c, datagram, i - 1),
           NEW d \in Consumers, RecoveryMoves(c, d, datagram[i])
    PROVE  Fine(d, datagram, i) /\ d.out = c.out
<1>1. d.out = c.out /\ d.queued \subseteq c.queued \cup {datagram[i]}
  BY DEF RecoveryMoves
<1>2. \A q \in c.queued \cup {datagram[i]} : Reached(q) /\ q \in Messages
  BY DEF Fine, Consumers
<1>3. \A q \in d.queued : Reached(q)
  BY <1>1, <1>2
<1>4. c.out = received \/ \E j \in 1 .. i : LastOf(c.out) = datagram[j].seq
  BY DEF Fine
<1>5. /\ \A n \in c.ends : n <= last_inc_seq_num_
      /\ CoveredBy(c.out, c.ends)
      /\ c.next_exp = LastOf(c.out) + 1 \/ c.next_exp - 1 \in c.ends
      /\ c.next_exp \in 1 .. MaxUpdates + 1
  BY DEF Fine
<1>6. CASE d.next_exp = c.next_exp /\ d.ends = c.ends
  BY <1>1, <1>3, <1>4, <1>5, <1>6 DEF Fine
<1>7. ASSUME NEW e \in c.queued \cup {datagram[i]}, e.type = "SNAPSHOT_END",
             d.next_exp = e.id + 1, d.ends = c.ends \cup {e.id}
      PROVE  Fine(d, datagram, i)
  <2>1. e.id \in Nat /\ e.id <= last_inc_seq_num_
    BY <1>2, <1>7 DEF Messages, Reached
  <2>2. last_inc_seq_num_ \in 0 .. Len(published) /\ Len(published) \in 0 .. MaxUpdates
        /\ MaxUpdates \in Nat
    BY Numbers
  <2>3. d.next_exp \in 1 .. MaxUpdates + 1 /\ d.next_exp - 1 = e.id
    BY <1>7, <2>1, <2>2
  <2>4. CoveredBy(c.out, d.ends)
    BY <1>5, <1>7 DEF CoveredBy
  <2>5. \A n \in d.ends : n <= last_inc_seq_num_
    BY <1>5, <1>7, <2>1
  <2>6. QED BY <1>1, <1>3, <1>4, <1>7, <2>3, <2>4, <2>5 DEF Fine
<1>8. QED BY <1>1, <1>6, <1>7 DEF RecoveryMoves

\* Whatever datagram arrives, the consumer is fine after it.
LEMMA HandledFine ==
    ASSUME MarketDataInv, NEW is_snapshot \in BOOLEAN, NEW datagram,
           Deliverable(is_snapshot, datagram),
           NEW d \in Handled(is_snapshot, datagram)
    PROVE  /\ d \in Consumers /\ Fine(d, datagram, Len(datagram))
           /\ is_snapshot => d.out = received
<1> DEFINE n == Len(datagram)
<1>1. datagram \in Seq(Messages) /\ n \in Nat
  BY DEF Deliverable
<1>2. Found \in Consumers /\ Fine(Found, datagram, 0) /\ Found.out = received
  BY FoundFine DEF Found
<1>3. PICK st \in [0 .. n -> SUBSET Consumers] :
         /\ st[0] = {Found}
         /\ \A i \in 1 .. n : \A b \in st[i] : \E c \in st[i - 1] :
               b \in OnMessage(c, is_snapshot, datagram[i])
         /\ Handled(is_snapshot, datagram) = st[n]
  BY <1>1, <1>2, HandledSteps
<1> DEFINE Kept(c, i) == Fine(c, datagram, i) /\ (is_snapshot => c.out = received)
           T == {i \in 0 .. n : \A c \in st[i] : Kept(c, i)}
<1>4. 0 \in T
  BY <1>1, <1>2, <1>3
<1>5. ASSUME NEW i \in 0 .. n - 1, i \in T PROVE i + 1 \in T
  <2> DEFINE j == i + 1
  <2>1. i \in 0 .. n /\ i = j - 1 /\ j \in 1 .. n /\ j \in 0 .. n /\ j \in Nat
    BY <1>1
  <2>2. datagram[j] \in Messages /\ Reached(datagram[j])
    BY <1>1, <2>1 DEF Deliverable
  <2> HIDE DEF j, n
  <2>3. ASSUME NEW b \in st[j] PROVE Kept(b, j)
    <3>1. PICK c \in st[j - 1] : b \in OnMessage(c, is_snapshot, datagram[j])
      BY <1>3, <2>1
    <3>2. c \in Consumers /\ Fine(c, datagram, j - 1) /\ (is_snapshot => c.out = received)
      BY <1>3, <1>5, <2>1
    <3>3. b \in Consumers /\ (RecoveryMoves(c, b, datagram[j])
                              \/ (~is_snapshot /\ PassesOn(c, b, datagram[j])))
      BY <2>2, <3>1, <3>2, OneMessage
    <3>4. CASE RecoveryMoves(c, b, datagram[j])
      <4>1. Fine(b, datagram, j) /\ b.out = c.out
        BY <2>1, <2>2, <3>2, <3>3, <3>4, TakenIn
      <4>2. QED BY <3>2, <4>1
    <3>5. CASE ~is_snapshot /\ PassesOn(c, b, datagram[j])
      <4>1. Deliverable(FALSE, datagram)
        BY <3>5 DEF Deliverable
      <4>2. j \in 1 .. Len(datagram)
        BY <2>1 DEF n
      <4>3. Fine(b, datagram, j)
        BY <3>2, <3>3, <3>5, <4>1, <4>2, PassedOn
      <4>4. QED BY <3>5, <4>3
    <3>6. QED BY <3>3, <3>4, <3>5
  <2>4. j \in T
    BY <2>1, <2>3
  <2>5. QED BY <2>4 DEF j
<1>6. n \in T
  <2> HIDE DEF T, n
  <2>1. QED BY <1>1, <1>4, <1>5, UpTo
<1>7. QED BY <1>1, <1>3, <1>6

-----------------------------------------------------------------------------
(* The steps.                                                              *)

\* The invariant holds before the first update.
LEMMA MarketDataInit == Init => MarketDataInv
<1> SUFFICES ASSUME Init PROVE MarketDataInv
  OBVIOUS
<1>1. MaxOrders \in Nat /\ MaxUpdates \in Nat /\ MaxLosses \in Nat
  BY BoundsAssumption
<1> DEFINE empty == << >>
<1>2. \A S : empty \in Seq(S) /\ Len(empty) = 0 /\ DOMAIN empty = {}
  OBVIOUS
<1>3. /\ inc_buffer = empty /\ snapshot_md_updates_ = empty /\ published = empty
      /\ received = empty /\ snapshot = empty /\ inc_wire = empty /\ snapshot_wire = empty
      /\ last_inc_seq_num_ = 0 /\ next_inc_seq_num_ = 1 /\ adopted = {} /\ ~aborted
      /\ consumer.queued = {} /\ consumer.next_exp = 1 /\ LastReceived = 0
  BY DEF Init, LastReceived
<1>4. TypeOK
  <2>1. NoOrders \in [Orders -> Qtys] /\ live = NoOrders /\ ticker_orders_ = NoOrders
    BY DEF Init, NoOrders, Qtys
  <2>2. next_order \in 1 .. MaxOrders + 1 /\ aborted \in BOOLEAN /\ losses \in 0 .. MaxLosses
    <3>1. next_order = 1 /\ losses = 0
      BY DEF Init
    <3>2. aborted \in BOOLEAN
      BY Zenon DEF Init
    <3>3. QED BY <1>1, <3>1, <3>2
  <2>3. consumer \in [next_exp : 1 .. MaxUpdates + 1, in_recovery : BOOLEAN,
                      queued : SUBSET Messages, joined : BOOLEAN, alive : BOOLEAN]
    <3>1. 1 \in 1 .. MaxUpdates + 1 /\ {} \in SUBSET Messages
      BY <1>1
    <3>2. QED BY <3>1 DEF Init
  <2> HIDE DEF empty
  <2>4. books \in Seq([Orders -> Qtys])
    <3>1. books = <<live>>
      BY DEF Init
    <3>2. QED BY <2>1, <3>1
  <2>5. QED BY <1>1, <1>2, <1>3, <2>1, <2>2, <2>3, <2>4 DEF TypeOK
<1> HIDE DEF empty
<1>5. NumbersCount /\ IncrementalsGoUp /\ SnapshotsReached /\ GapsOnlyByRecovery
  BY <1>2, <1>3 DEF NumbersCount, IncrementalsGoUp, SnapshotsReached, GapsOnlyByRecovery, GoUp
<1>6. ConsumerWaits
  <2>1. Bounded({})
    BY DEF Bounded
  <2>2. QED BY <1>3, <2>1 DEF ConsumerWaits
<1>7. SynthesizerLags
  BY <1>2, <1>3 DEF SynthesizerLags
<1>8. BooksFollow
  <2>1. /\ live = NoOrders /\ ticker_orders_ = NoOrders /\ books = <<NoOrders>>
        /\ \A o \in Orders : NoOrders[o] = 0
    BY DEF Init, NoOrders
  <2>2. Len(books) = 1 /\ books[1] = NoOrders
    BY <2>1
  <2>3. Follows(ticker_orders_, books[last_inc_seq_num_ + 1])
    BY <1>3, <2>1, <2>2 DEF Follows
  <2>4. QED BY <1>2, <1>3, <2>1, <2>2, <2>3 DEF BooksFollow
<1>9. QED BY <1>4, <1>5, <1>6, <1>7, <1>8 DEF MarketDataInv

\* An update more, whatever it is, as long as it is an ADD just when the order was
\* not live.
LEMMA PublishKeeps ==
    ASSUME MarketDataInv, NEW type \in {"ADD", "MODIFY", "CANCEL"}, NEW order \in Orders,
           NEW qty \in Qtys, Publish(type, order, qty),
           next_order' \in 1 .. MaxOrders + 1,
           type = "ADD" <=> live[order] = 0,
           \A o \in Orders : o >= next_order' => live[o] = 0 /\ o # order
    PROVE  MarketDataInv'
<1> DEFINE m == Message(next_inc_seq_num_, type, generateNewMarketOrderId(order), qty)
           n == Len(published) + 1
<1>1. /\ published \in Seq(Updates) /\ Len(published) \in 0 .. MaxUpdates
      /\ MaxUpdates \in Nat /\ MaxOrders \in Nat
      /\ last_inc_seq_num_ \in 0 .. Len(published) /\ LastReceived \in 0 .. Len(published)
      /\ received \in Seq(Messages) /\ snapshot_md_updates_ \in Seq(Messages)
      /\ Updates \subseteq Messages
  BY Numbers
<1>2. /\ TypeOK /\ NumbersCount /\ IncrementalsGoUp /\ SnapshotsReached /\ ConsumerWaits
      /\ GapsOnlyByRecovery /\ SynthesizerLags /\ BooksFollow
  BY DEF MarketDataInv
<1>3. /\ inc_buffer' = Append(inc_buffer, m)
      /\ snapshot_md_updates_' = Append(snapshot_md_updates_, m)
      /\ next_inc_seq_num_' = next_inc_seq_num_ + 1 /\ next_inc_seq_num_ <= MaxUpdates
      /\ published' = Append(published, m) /\ live' = [live EXCEPT ![order] = qty]
      /\ books' = Append(books, live')
      /\ UNCHANGED <<synthesizer, inc_wire, snapshot_wire, losses, consumer, history>>
      /\ ~aborted
  BY DEF Publish
<1>4. next_inc_seq_num_ = n /\ n \in Nat /\ Len(published) = n - 1
  BY <1>1, <1>2 DEF NumbersCount
<1>5. /\ m \in Updates /\ m \in Messages /\ m.seq = n /\ m.type = type /\ m.qty = qty
      /\ m.id = generateNewMarketOrderId(order)
  <2>1. generateNewMarketOrderId(order) \in Orders
    BY <1>1 DEF generateNewMarketOrderId, Orders
  <2>2. QED BY <1>1, <1>4, <2>1 DEF Message, Updates
<1> HIDE DEF m, n
<1>6. /\ published' \in Seq(Updates) /\ Len(published') = n /\ published'[n] = m
      /\ \A i \in 1 .. n - 1 : published'[i] = published[i]
      /\ DOMAIN published = 1 .. n - 1 /\ DOMAIN published' = 1 .. n
  <2>1. published' \in Seq(Updates) /\ Len(published') = Len(published) + 1
        /\ published'[Len(published) + 1] = m
        /\ \A i \in 1 .. Len(published) : published'[i] = published[i]
    BY <1>1, <1>3, <1>5, AppendProperties
  <2>2. DOMAIN published = 1 .. Len(published) /\ DOMAIN published' = 1 .. Len(published')
    BY <1>1, <2>1
  <2>3. Len(published) = n - 1 /\ Len(published) + 1 = n
    BY <1>4
  <2>4. QED BY <2>1, <2>2, <2>3
<1>7. /\ inc_buffer \in Seq(Messages) /\ inc_buffer' \in Seq(Messages)
      /\ Len(inc_buffer') = Len(inc_buffer) + 1 /\ inc_buffer'[Len(inc_buffer) + 1] = m
      /\ \A i \in 1 .. Len(inc_buffer) : inc_buffer'[i] = inc_buffer[i]
      /\ Len(inc_buffer) \in Nat
      /\ DOMAIN inc_buffer = 1 .. Len(inc_buffer) /\ DOMAIN inc_buffer' = 1 .. Len(inc_buffer')
  <2>1. inc_buffer \in Seq(Messages)
    BY <1>2 DEF TypeOK
  <2>2. inc_buffer' \in Seq(Messages) /\ Len(inc_buffer') = Len(inc_buffer) + 1
        /\ inc_buffer'[Len(inc_buffer) + 1] = m
        /\ \A i \in 1 .. Len(inc_buffer) : inc_buffer'[i] = inc_buffer[i]
    BY <1>3, <1>5, <2>1, AppendProperties
  <2>3. QED BY <2>1, <2>2
<1>8. /\ snapshot_md_updates_' \in Seq(Messages)
      /\ Len(snapshot_md_updates_) \in Nat
      /\ Len(snapshot_md_updates_') = Len(snapshot_md_updates_) + 1
      /\ snapshot_md_updates_'[Len(snapshot_md_updates_) + 1] = m
      /\ \A i \in 1 .. Len(snapshot_md_updates_) :
            snapshot_md_updates_'[i] = snapshot_md_updates_[i]
      /\ DOMAIN snapshot_md_updates_ = 1 .. Len(snapshot_md_updates_)
      /\ DOMAIN snapshot_md_updates_' = 1 .. Len(snapshot_md_updates_')
  <2>1. snapshot_md_updates_' \in Seq(Messages)
        /\ Len(snapshot_md_updates_') = Len(snapshot_md_updates_) + 1
        /\ snapshot_md_updates_'[Len(snapshot_md_updates_) + 1] = m
        /\ \A i \in 1 .. Len(snapshot_md_updates_) :
              snapshot_md_updates_'[i] = snapshot_md_updates_[i]
    BY <1>1, <1>3, <1>5, AppendProperties
  <2>2. QED BY <1>1, <2>1
<1>9. TypeOK'
  <2>1. live' \in [Orders -> Qtys]
    BY <1>2, <1>3 DEF TypeOK
  <2>2. next_inc_seq_num_' \in 1 .. MaxUpdates + 1
    BY <1>1, <1>2, <1>3 DEF TypeOK
  <2>3. published' \in Seq(Messages)
    BY <1>1, <1>6, SeqMonotonic
  <2>4. books' \in Seq([Orders -> Qtys])
    BY <1>2, <1>3, <2>1 DEF TypeOK
  <2>5. QED BY <1>2, <1>3, <1>7, <1>8, <2>1, <2>2, <2>3, <2>4
            DEF TypeOK, synthesizer, history
<1>10. NumbersCount'
  <2>1. next_inc_seq_num_' = n + 1
    BY <1>3, <1>4
  <2>2. ASSUME NEW i \in DOMAIN published'
        PROVE  published'[i] \in Updates /\ published'[i].seq = i
    <3>1. CASE i = n
      BY <1>5, <1>6, <3>1
    <3>2. CASE i # n
      <4>1. i \in 1 .. n - 1
        BY <1>4, <1>6, <3>2
      <4>2. QED BY <1>2, <1>6, <4>1 DEF NumbersCount
    <3>3. QED BY <3>1, <3>2
  <2>3. QED BY <1>6, <2>1, <2>2 DEF NumbersCount
<1>11. LastReceived' = LastReceived
  BY <1>3 DEF LastReceived, history
<1> DEFINE Coming(u) == u.seq \in DOMAIN published' /\ u = published'[u.seq] /\ LastReceived' < u.seq
<1>12. ASSUME NEW u, ToCome(u) PROVE Coming(u) /\ u.seq < n
  <2>1. u.seq \in 1 .. n - 1 /\ u = published[u.seq] /\ LastReceived < u.seq
    BY <1>6, <1>12 DEF ToCome
  <2>2. u.seq \in 1 .. n /\ u.seq < n
    BY <1>4, <2>1
  <2>3. QED BY <1>6, <1>11, <2>1, <2>2
<1>13. Coming(m)
  <2>1. n \in DOMAIN published' /\ LastReceived < n
    BY <1>1, <1>4, <1>6
  <2>2. QED BY <1>5, <1>6, <1>11, <2>1
<1> HIDE DEF Coming
<1>14. IncrementalsGoUp'
  <2>1. ASSUME NEW i \in DOMAIN inc_buffer'
        PROVE  /\ Coming(inc_buffer'[i])
               /\ \/ i = Len(inc_buffer) + 1 /\ inc_buffer'[i].seq = n
                  \/ /\ i \in DOMAIN inc_buffer /\ inc_buffer'[i] = inc_buffer[i]
                     /\ inc_buffer'[i].seq < n
    <3>1. i = Len(inc_buffer) + 1 \/ i \in DOMAIN inc_buffer
      BY <1>7
    <3>2. CASE i = Len(inc_buffer) + 1
      BY <1>5, <1>7, <1>13, <3>2
    <3>3. CASE i \in DOMAIN inc_buffer
      <4>1. ToCome(inc_buffer[i]) /\ inc_buffer'[i] = inc_buffer[i]
        BY <1>2, <1>7, <3>3 DEF IncrementalsGoUp
      <4>2. QED BY <1>12, <3>3, <4>1
    <3>4. QED BY <3>1, <3>2, <3>3
  <2>2. GoUp(inc_buffer')
    <3>1. SUFFICES ASSUME NEW i \in DOMAIN inc_buffer', NEW j \in DOMAIN inc_buffer', i < j
                   PROVE  inc_buffer'[i].seq < inc_buffer'[j].seq
      BY DEF GoUp
    <3>2. i # Len(inc_buffer) + 1
      BY <1>7, <3>1
    <3>3. i \in DOMAIN inc_buffer /\ inc_buffer'[i] = inc_buffer[i] /\ inc_buffer[i].seq < n
      BY <2>1, <3>2
    <3>4. CASE j = Len(inc_buffer) + 1
      BY <1>5, <1>7, <3>3, <3>4
    <3>5. CASE j \in DOMAIN inc_buffer
      <4>1. inc_buffer'[j] = inc_buffer[j]
        BY <1>7, <3>5
      <4>2. QED BY <1>2, <3>1, <3>3, <3>5, <4>1 DEF IncrementalsGoUp, GoUp
    <3>6. QED BY <2>1, <3>4, <3>5
  <2>3. ASSUME NEW d \in DOMAIN inc_wire, NEW i \in DOMAIN inc_wire[d]
        PROVE  /\ Coming(inc_wire[d][i])
               /\ \A j \in DOMAIN inc_buffer' : inc_wire[d][i].seq < inc_buffer'[j].seq
    <3>1. /\ ToCome(inc_wire[d][i])
          /\ \A j \in DOMAIN inc_buffer : inc_wire[d][i].seq < inc_buffer[j].seq
      BY <1>2 DEF IncrementalsGoUp
    <3>2. Coming(inc_wire[d][i]) /\ inc_wire[d][i].seq < n
      BY <1>12, <3>1
    <3>3. ASSUME NEW j \in DOMAIN inc_buffer' PROVE inc_wire[d][i].seq < inc_buffer'[j].seq
      BY <2>1, <3>1, <3>2, <3>3
    <3>4. QED BY <3>2, <3>3
  <2>4. \A d \in DOMAIN inc_wire :
          /\ GoUp(inc_wire[d])
          /\ \A i \in DOMAIN inc_wire[d] : \A e \in DOMAIN inc_wire :
                \A j \in DOMAIN inc_wire[e] : d < e => inc_wire[d][i].seq < inc_wire[e][j].seq
    BY <1>2 DEF IncrementalsGoUp
  <2>5. inc_wire' = inc_wire
    BY <1>3
  <2>6. QED BY <2>1, <2>2, <2>3, <2>4, <2>5 DEF IncrementalsGoUp, GoUp, ToCome, Coming
<1>15. SnapshotsReached' /\ ConsumerWaits'
  <2>1. UNCHANGED <<snapshot, snapshot_wire, consumer, adopted, last_inc_seq_num_>>
    BY <1>3 DEF synthesizer, history
  <2>2. QED BY <1>2, <1>11, <2>1
            DEF SnapshotsReached, Reached, ConsumerWaits, Bounded
<1>16. GapsOnlyByRecovery'
  <2>1. received' = received /\ adopted' = adopted
    BY <1>3 DEF history
  <2>2. ASSUME NEW i \in DOMAIN received
        PROVE  LET before == IF i = 1 THEN 0 ELSE received[i - 1].seq
                   seq    == received[i].seq
               IN  /\ before < seq /\ seq <= Len(published')
                   /\ received[i] = published'[seq]
                   /\ seq = before + 1 \/ seq - 1 \in adopted
    <3> DEFINE before == IF i = 1 THEN 0 ELSE received[i - 1].seq
               seq == received[i].seq
    <3>1. /\ before < seq /\ seq <= Len(published) /\ received[i] = published[seq]
          /\ seq = before + 1 \/ seq - 1 \in adopted
      BY <1>2 DEF GapsOnlyByRecovery
    <3>2. before \in Nat /\ seq \in Nat
      <4>1. i # 1 => i - 1 \in DOMAIN received
        BY <1>1
      <4>2. \A j \in DOMAIN received : received[j].seq \in Nat
        BY Numbers
      <4>3. QED BY <4>1, <4>2
    <3> HIDE DEF before, seq
    <3>3. seq \in 1 .. n - 1 /\ seq <= n
      BY <1>4, <3>1, <3>2
    <3>4. QED BY <1>6, <3>1, <3>3 DEF before, seq
  <2>3. QED BY <2>1, <2>2 DEF GapsOnlyByRecovery
<1>17. SynthesizerLags'
  <2> DEFINE last == last_inc_seq_num_
             k == Len(snapshot_md_updates_)
  <2>1. last' = last /\ aborted' = aborted
    BY <1>3 DEF synthesizer
  <2>2. /\ last + k = n - 1 /\ k \in Nat /\ last \in Nat
        /\ \A i \in 1 .. k : snapshot_md_updates_[i] = published[last + i]
    <3>1. last + k = Len(published)
          /\ \A i \in DOMAIN snapshot_md_updates_ : snapshot_md_updates_[i] = published[last + i]
      BY <1>2, <1>3 DEF SynthesizerLags
    <3>2. last \in Nat
      BY <1>1
    <3>3. QED BY <1>4, <1>8, <3>1, <3>2
  <2>3. last' + Len(snapshot_md_updates_') = n
    BY <1>4, <1>8, <2>1, <2>2
  <2>4. ASSUME NEW i \in 1 .. k + 1 PROVE snapshot_md_updates_'[i] = published'[last + i]
    <3>1. CASE i = k + 1
      <4>1. last + i = n
        BY <1>4, <2>2, <3>1
      <4>2. QED BY <1>6, <1>8, <3>1, <4>1
    <3>2. CASE i # k + 1
      <4>1. i \in 1 .. k /\ last + i \in 1 .. n - 1
        BY <1>4, <2>2, <3>2
      <4>2. QED BY <1>6, <1>8, <2>2, <4>1
    <3>3. QED BY <3>1, <3>2
  <2>5. QED BY <1>4, <1>6, <1>8, <2>1, <2>3, <2>4 DEF SynthesizerLags
<1>18. BooksFollow'
  <2>1. /\ Len(books) = n /\ books[n] = live /\ books \in Seq([Orders -> Qtys])
        /\ \A i \in DOMAIN published : Tells(published[i], books[i], books[i + 1])
        /\ Follows(ticker_orders_, books[last_inc_seq_num_ + 1])
    BY <1>2, <1>4 DEF BooksFollow, TypeOK
  <2>2. live \in [Orders -> Qtys] /\ live' \in [Orders -> Qtys]
    BY <1>2, <1>3 DEF TypeOK
  <2>3. /\ Len(books') = n + 1 /\ books'[n + 1] = live'
        /\ \A i \in 1 .. n : books'[i] = books[i]
    BY <1>3, <1>4, <2>1, <2>2
  <2>4. ASSUME NEW i \in DOMAIN published'
        PROVE  Tells(published'[i], books'[i], books'[i + 1])
    <3>1. CASE i = n
      <4>1. Tells(m, live, live')
        BY <1>3, <1>5 DEF Tells
      <4>2. n \in 1 .. n
        BY <1>6, <3>1
      <4>3. QED BY <1>6, <2>1, <2>3, <3>1, <4>1, <4>2
    <3>2. CASE i # n
      <4>1. i \in 1 .. n - 1 /\ i \in 1 .. n /\ i + 1 \in 1 .. n
        BY <1>4, <1>6, <3>2
      <4>2. QED BY <1>6, <2>1, <2>3, <4>1
    <3>3. QED BY <3>1, <3>2
  <2>5. \A o \in Orders : o >= next_order' => live'[o] = 0
    BY <1>3, <2>2
  <2>6. Follows(ticker_orders_', books'[last_inc_seq_num_' + 1])
    <3>1. last_inc_seq_num_ + 1 \in 1 .. n
      BY <1>1, <1>4
    <3>2. last_inc_seq_num_' = last_inc_seq_num_ /\ ticker_orders_' = ticker_orders_
      BY <1>3 DEF synthesizer
    <3>3. QED BY <2>1, <2>3, <3>1, <3>2
  <2>7. ~aborted'
    BY <1>3 DEF synthesizer
  <2>8. QED BY <1>6, <2>3, <2>4, <2>5, <2>6, <2>7 DEF BooksFollow
<1>19. QED BY <1>9, <1>10, <1>14, <1>15, <1>16, <1>17, <1>18 DEF MarketDataInv

\* Publishing an update, whose number is the next, keeps the invariant.
LEMMA PublishingKeeps ==
    ASSUME MarketDataInv, PublishAdd \/ PublishModify \/ PublishCancel
    PROVE  MarketDataInv'
<1>1. /\ next_order \in 1 .. MaxOrders + 1 /\ live \in [Orders -> Qtys]
      /\ MaxOrders \in Nat /\ \A o \in Orders : o \in Nat /\ live[o] \in Nat
  <2>1. /\ next_order \in 1 .. MaxOrders + 1 /\ live \in [Orders -> Qtys]
        /\ MaxOrders \in Nat
    BY Numbers DEF MarketDataInv, TypeOK
  <2>2. \A o \in Orders : o \in Nat
    BY <2>1 DEF Orders
  <2>3. \A o \in Orders : live[o] \in Nat
    BY <2>1 DEF Qtys
  <2>4. QED BY <2>1, <2>2, <2>3
<1>2. \A o \in Orders : o >= next_order => live[o] = 0
  BY DEF MarketDataInv, BooksFollow
<1>3. 0 \in Qtys /\ 1 \in Qtys /\ 2 \in Qtys
  BY DEF Qtys
<1>4. CASE PublishAdd
  <2>1. /\ next_order \in Orders /\ Publish("ADD", next_order, 2)
        /\ next_order' \in 1 .. MaxOrders + 1 /\ next_order' = next_order + 1
    BY <1>1, <1>4 DEF PublishAdd, Orders
  <2>2. "ADD" = "ADD" <=> live[next_order] = 0
    BY <1>1, <1>2, <2>1
  <2>3. \A o \in Orders : o >= next_order' => live[o] = 0 /\ o # next_order
    BY <1>1, <1>2, <2>1
  <2>4. QED BY <1>3, <2>1, <2>2, <2>3, PublishKeeps
<1>5. CASE PublishModify
  <2>1. PICK o \in Orders : live[o] = 2 /\ Publish("MODIFY", o, 1)
    BY <1>5 DEF PublishModify
  <2>2. next_order' = next_order
    BY <1>5 DEF PublishModify
  <2>3. "MODIFY" = "ADD" <=> live[o] = 0
    BY <2>1
  <2>4. \A p \in Orders : p >= next_order' => live[p] = 0 /\ p # o
    BY <1>2, <2>1, <2>2
  <2>5. QED BY <1>1, <1>3, <2>1, <2>2, <2>3, <2>4, PublishKeeps
<1>6. CASE PublishCancel
  <2>1. PICK o \in Orders : live[o] > 0 /\ Publish("CANCEL", o, 0)
    BY <1>6 DEF PublishCancel
  <2>2. next_order' = next_order
    BY <1>6 DEF PublishCancel
  <2>3. live[o] # 0
    BY <1>1, <2>1
  <2>4. "CANCEL" = "ADD" <=> live[o] = 0
    BY <2>3
  <2>5. \A p \in Orders : p >= next_order' => live[p] = 0 /\ p # o
    BY <1>2, <2>2, <2>3
  <2>6. QED BY <1>1, <1>3, <2>1, <2>2, <2>4, <2>5, PublishKeeps
<1>7. QED BY <1>4, <1>5, <1>6

\* The publisher sends its buffer, or the network loses it.
LEMMA FlushIncrementalKeeps == ASSUME MarketDataInv, FlushIncremental PROVE MarketDataInv'
<1>1. /\ TypeOK /\ NumbersCount /\ IncrementalsGoUp /\ SnapshotsReached /\ ConsumerWaits
      /\ GapsOnlyByRecovery /\ SynthesizerLags /\ BooksFollow
  BY DEF MarketDataInv
<1>2. /\ inc_buffer' = << >>
      /\ UNCHANGED <<exchange, next_inc_seq_num_, snapshot_md_updates_, synthesizer,
                     snapshot_wire, consumer, published, history>>
      /\ \/ inc_wire' = Append(inc_wire, inc_buffer) /\ UNCHANGED losses
         \/ losses < MaxLosses /\ losses' = losses + 1 /\ UNCHANGED inc_wire
  BY DEF FlushIncremental
<1>3. /\ UNCHANGED <<live, next_order, books, next_inc_seq_num_, snapshot_md_updates_, ticker_orders_,
                     last_inc_seq_num_, snapshot, aborted, snapshot_wire, consumer, published,
                     received, adopted>>
      /\ LastReceived' = LastReceived
  BY <1>2 DEF exchange, synthesizer, history, LastReceived
<1>4. inc_wire \in Seq(Seq(Messages)) /\ inc_buffer \in Seq(Messages) /\ Len(inc_wire) \in Nat
  BY <1>1 DEF TypeOK
<1> DEFINE n == Len(inc_wire) + 1
<1>5. /\ inc_wire' \in Seq(Seq(Messages))
      /\ \A d \in DOMAIN inc_wire' :
            \/ d \in DOMAIN inc_wire /\ inc_wire'[d] = inc_wire[d]
            \/ d = n /\ inc_wire'[d] = inc_buffer
      /\ \A d \in DOMAIN inc_wire' : d \in 1 .. n
      /\ \A d \in DOMAIN inc_wire : d < n
  <2>1. CASE inc_wire' = Append(inc_wire, inc_buffer)
    <3>1. /\ inc_wire' \in Seq(Seq(Messages)) /\ Len(inc_wire') = Len(inc_wire) + 1
          /\ \A d \in 1 .. Len(inc_wire) : inc_wire'[d] = inc_wire[d]
          /\ inc_wire'[Len(inc_wire) + 1] = inc_buffer
      BY <1>4, <2>1, AppendProperties
    <3>2. DOMAIN inc_wire' = 1 .. n /\ DOMAIN inc_wire = 1 .. n - 1
      BY <1>4, <3>1
    <3>3. ASSUME NEW d \in DOMAIN inc_wire' PROVE d = n \/ d \in 1 .. n - 1
      BY <1>4, <3>2
    <3>4. inc_wire'[n] = inc_buffer /\ \A d \in 1 .. n - 1 : inc_wire'[d] = inc_wire[d]
      BY <1>4, <3>1
    <3>5. \A d \in 1 .. n - 1 : d < n
      BY <1>4
    <3> HIDE DEF n
    <3>6. QED BY <3>1, <3>2, <3>3, <3>4, <3>5
  <2>2. CASE inc_wire' = inc_wire
    BY <1>4, <2>2
  <2>3. QED BY <1>2, <2>1, <2>2
<1>6. losses' \in 0 .. MaxLosses
  <2>1. MaxLosses \in Nat
    BY BoundsAssumption
  <2>2. losses \in 0 .. MaxLosses
    BY <1>1 DEF TypeOK
  <2>3. losses' = losses \/ (losses < MaxLosses /\ losses' = losses + 1)
    BY <1>2
  <2>4. QED BY <2>1, <2>2, <2>3
<1>7. TypeOK'
  <2>1. << >> \in Seq(Messages)
    OBVIOUS
  <2>2. QED BY <1>1, <1>2, <1>3, <1>5, <1>6, <2>1 DEF TypeOK
<1>8. IncrementalsGoUp'
  <2>1. ASSUME NEW d \in DOMAIN inc_wire'
        PROVE  GoUp(inc_wire'[d]) /\ \A i \in DOMAIN inc_wire'[d] : ToCome(inc_wire'[d][i])
    <3>1. CASE d \in DOMAIN inc_wire /\ inc_wire'[d] = inc_wire[d]
      BY <1>1, <3>1 DEF IncrementalsGoUp
    <3>2. CASE inc_wire'[d] = inc_buffer
      BY <1>1, <3>2 DEF IncrementalsGoUp
    <3>3. QED BY <1>5, <3>1, <3>2
  <2>2. ASSUME NEW d \in DOMAIN inc_wire', NEW e \in DOMAIN inc_wire', d < e,
               NEW i \in DOMAIN inc_wire'[d], NEW j \in DOMAIN inc_wire'[e]
        PROVE  inc_wire'[d][i].seq < inc_wire'[e][j].seq
    <3>1. d # n /\ d \in DOMAIN inc_wire /\ inc_wire'[d] = inc_wire[d]
      BY <1>4, <1>5, <2>2
    <3>2. CASE e \in DOMAIN inc_wire /\ inc_wire'[e] = inc_wire[e]
      BY <1>1, <2>2, <3>1, <3>2 DEF IncrementalsGoUp
    <3>3. CASE e = n /\ inc_wire'[e] = inc_buffer
      BY <1>1, <3>1, <3>3 DEF IncrementalsGoUp
    <3>4. QED BY <1>5, <3>2, <3>3
  <2>3. inc_buffer' = << >> /\ DOMAIN << >> = {}
    BY <1>2
  <2>4. QED BY <1>3, <2>1, <2>2, <2>3 DEF IncrementalsGoUp, GoUp, ToCome
<1>9. NumbersCount' /\ SnapshotsReached' /\ ConsumerWaits' /\ GapsOnlyByRecovery'
      /\ SynthesizerLags'
  BY <1>1, <1>3 DEF NumbersCount, SnapshotsReached, Reached, ConsumerWaits, Bounded,
                    GapsOnlyByRecovery, SynthesizerLags
<1>10. BooksFollow'
  BY <1>1, <1>3 DEF BooksFollow, Tells, Follows
<1>11. QED BY <1>7, <1>8, <1>9, <1>10 DEF MarketDataInv

\* The synthesizer applies the next update, or dies of it.
LEMMA AddToSnapshotKeeps == ASSUME MarketDataInv, addToSnapshot PROVE MarketDataInv'
<1> DEFINE m == Head(snapshot_md_updates_)
           last == last_inc_seq_num_
           k == Len(snapshot_md_updates_)
<1>1. /\ TypeOK /\ NumbersCount /\ IncrementalsGoUp /\ SnapshotsReached /\ ConsumerWaits
      /\ GapsOnlyByRecovery /\ SynthesizerLags /\ BooksFollow
  BY DEF MarketDataInv
<1>2. /\ ~aborted /\ snapshot = << >> /\ snapshot_md_updates_ # << >>
      /\ snapshot_md_updates_' = Tail(snapshot_md_updates_)
      /\ UNCHANGED <<live, next_order, books, next_inc_seq_num_, inc_buffer, snapshot, inc_wire,
                     snapshot_wire, losses, consumer, published, received, adopted>>
      /\ LastReceived' = LastReceived
  BY DEF addToSnapshot, exchange, history, LastReceived
<1>3. \/ /\ Acceptable(ticker_orders_, last, m)
         /\ ticker_orders_' = Applied(ticker_orders_, m)
         /\ last' = m.seq /\ aborted' = aborted
      \/ /\ ~Acceptable(ticker_orders_, last, m)
         /\ aborted' = TRUE /\ ticker_orders_' = ticker_orders_ /\ last' = last
  BY DEF addToSnapshot
<1>4. /\ published \in Seq(Updates) /\ Len(published) \in 0 .. MaxUpdates
      /\ last \in 0 .. Len(published) /\ MaxUpdates \in Nat
      /\ snapshot_md_updates_ \in Seq(Messages)
  BY Numbers
<1>5. /\ k \in Nat /\ k >= 1 /\ snapshot_md_updates_' \in Seq(Messages)
      /\ Len(snapshot_md_updates_') = k - 1
      /\ \A i \in 1 .. k - 1 : snapshot_md_updates_'[i] = snapshot_md_updates_[i + 1]
      /\ DOMAIN snapshot_md_updates_ = 1 .. k /\ m = snapshot_md_updates_[1]
      /\ DOMAIN snapshot_md_updates_' = 1 .. k - 1
  <2>1. /\ k \in Nat /\ k >= 1 /\ snapshot_md_updates_' \in Seq(Messages)
        /\ Len(snapshot_md_updates_') = k - 1
        /\ \A i \in 1 .. k - 1 : snapshot_md_updates_'[i] = snapshot_md_updates_[i + 1]
    BY <1>2, <1>4, HeadTailProperties
  <2>2. QED BY <1>2, <1>4, <2>1
<1>6. /\ last + k = Len(published)
      /\ \A i \in 1 .. k : snapshot_md_updates_[i] = published[last + i]
  BY <1>1, <1>2, <1>5 DEF SynthesizerLags
<1>7. /\ last + 1 \in 1 .. Len(published) /\ m = published[last + 1]
      /\ m \in Updates /\ m.seq = last + 1
  <2>1. last + 1 \in 1 .. Len(published) /\ 1 \in 1 .. k
    BY <1>4, <1>5, <1>6
  <2>2. m = published[last + 1] /\ last + 1 \in DOMAIN published
    BY <1>4, <1>5, <1>6, <2>1
  <2>3. QED BY <1>1, <2>1, <2>2 DEF NumbersCount
<1> HIDE DEF m, k
<1>8. ticker_orders_ \in Books /\ Applied(ticker_orders_, m) = Put(ticker_orders_, m)
      /\ Put(ticker_orders_, m) \in Books
  <2>1. ticker_orders_ \in Books
    BY <1>1 DEF TypeOK, Books
  <2>2. QED BY <1>7, <2>1, PutTypes DEF Applied, Put
<1>9. ticker_orders_' \in Books /\ last' \in 0 .. Len(published) /\ last' >= last
      /\ aborted' \in BOOLEAN /\ (last' = last \/ last' = last + 1)
  <2>1. aborted' \in BOOLEAN
    <3>1. aborted \in BOOLEAN
      BY <1>1 DEF TypeOK
    <3>2. aborted' = aborted \/ aborted' = TRUE
      BY Zenon, <1>3
    <3>3. QED BY Zenon, <3>1, <3>2
  <2>2. ticker_orders_' \in Books /\ (last' = last \/ last' = last + 1)
    BY <1>3, <1>7, <1>8
  <2>3. QED BY <1>4, <1>7, <2>1, <2>2
<1>10. TypeOK'
  <2>1. last' \in 0 .. MaxUpdates
    BY <1>4, <1>9
  <2>2. QED BY <1>1, <1>2, <1>5, <1>9, <2>1 DEF TypeOK, Books
<1>11. NumbersCount' /\ IncrementalsGoUp' /\ ConsumerWaits' /\ GapsOnlyByRecovery'
      
  BY <1>1, <1>2 DEF NumbersCount, IncrementalsGoUp, GoUp, ToCome, ConsumerWaits, Bounded,
                    GapsOnlyByRecovery
<1>12. SnapshotsReached'
  <2>1. ASSUME NEW u \in Messages, Reached(u)
        PROVE  u.type = "SNAPSHOT_END" => u.id <= last'
    BY <1>4, <1>9, <2>1 DEF Reached, Messages
  <2>2. ASSUME NEW d \in DOMAIN snapshot_wire, NEW i \in DOMAIN snapshot_wire[d]
        PROVE  snapshot_wire[d][i].type = "SNAPSHOT_END" => snapshot_wire[d][i].id <= last'
    <3>1. snapshot_wire[d] \in Seq(Messages)
      BY <1>1 DEF TypeOK
    <3>2. snapshot_wire[d][i] \in Messages
      BY <3>1
    <3>3. QED BY <1>1, <2>1, <3>2 DEF SnapshotsReached
  <2>3. ASSUME NEW u \in consumer.queued PROVE u.type = "SNAPSHOT_END" => u.id <= last'
    BY <1>1, <2>1 DEF TypeOK, SnapshotsReached
  <2>4. ASSUME NEW n \in adopted PROVE n <= last'
    BY <1>1, <1>4, <1>9 DEF TypeOK, SnapshotsReached
  <2>5. snapshot' = << >> /\ DOMAIN << >> = {}
    BY <1>2
  <2>6. QED BY <1>2, <2>2, <2>3, <2>4, <2>5 DEF SnapshotsReached, Reached
<1>13. SynthesizerLags'
  <2>1. CASE last' = last + 1
    <3>1. last' + Len(snapshot_md_updates_') = Len(published)
      <4>1. last \in Nat /\ (last + 1) + (k - 1) = last + k
        BY <1>4, <1>5
      <4>2. QED BY <1>5, <1>6, <2>1, <4>1
    <3>2. ASSUME NEW i \in DOMAIN snapshot_md_updates_'
          PROVE  snapshot_md_updates_'[i] = published[last' + i]
      <4>1. i \in 1 .. k - 1 /\ k \in Nat /\ last \in Nat
        BY <1>4, <1>5
      <4>2. i + 1 \in 1 .. k /\ last + (i + 1) = (last + 1) + i
        BY <4>1
      <4>3. QED BY <1>5, <1>6, <2>1, <4>1, <4>2
    <3>3. QED BY <1>2, <1>4, <3>1, <3>2 DEF SynthesizerLags
  <2>2. CASE aborted' = TRUE /\ last' = last
    <3>1. last + (k - 1) <= Len(published)
      BY <1>4, <1>5, <1>6
    <3>2. QED BY <1>2, <1>5, <2>2, <3>1 DEF SynthesizerLags
  <2>3. QED BY <1>3, <1>7, <2>1, <2>2
<1>14. BooksFollow'
  <2>1. /\ Len(books) = Len(published) + 1 /\ books \in Seq(Books)
        /\ Tells(m, books[last + 1], books[(last + 1) + 1])
        /\ Follows(ticker_orders_, books[last + 1])
    <3>1. Len(books) = Len(published) + 1 /\ books \in Seq(Books)
      BY <1>1 DEF BooksFollow, TypeOK, Books
    <3>2. last + 1 \in DOMAIN published
      BY <1>4, <1>7
    <3>3. Tells(published[last + 1], books[last + 1], books[(last + 1) + 1])
      BY <1>1, <3>2 DEF BooksFollow
    <3>4. Follows(ticker_orders_, books[last + 1])
      BY <1>1 DEF BooksFollow
    <3>5. QED BY <1>7, <3>1, <3>3, <3>4
  <2>2. books[last + 1] \in Books
    BY <1>4, <1>7, <2>1
  <2>3. PICK o \in Orders :
          /\ m.id = generateNewMarketOrderId(o)
          /\ books[(last + 1) + 1] = [books[last + 1] EXCEPT ![o] = m.qty]
          /\ m.type = "ADD" <=> books[last + 1][o] = 0
    BY <2>1 DEF Tells
  <2>4. CASE ~Acceptable(ticker_orders_, last, m)
    <3>1. DistinctIds => Acceptable(ticker_orders_, last, m)
      <4>1. SUFFICES ASSUME DistinctIds PROVE books[last + 1][o] = 0 <=> ticker_orders_[m.id] = 0
        BY <1>7, <2>3 DEF Acceptable
      <4>2. \A p \in Orders : generateNewMarketOrderId(p) = p
        BY <4>1 DEF generateNewMarketOrderId
      <4>3. \A p \in Orders : books[last + 1][p] \in Nat /\ ticker_orders_[p] \in Nat
        BY <1>8, <2>2 DEF Books, Qtys
      <4>4. QED BY <2>1, <2>3, <4>2, <4>3 DEF Follows
    <3>2. UNCHANGED <<ticker_orders_, last_inc_seq_num_, books, published, live, next_order>>
      BY <1>2, <1>3, <2>4
    <3>3. QED BY <1>1, <2>4, <3>1, <3>2 DEF BooksFollow
  <2>5. CASE Acceptable(ticker_orders_, last, m)
    <3>1. ~aborted' /\ ticker_orders_' = Put(ticker_orders_, m) /\ last' = last + 1
      BY <1>2, <1>3, <1>7, <1>8, <2>5
    <3>2. books[last + 1][o] = 0 <=> ticker_orders_[generateNewMarketOrderId(o)] = 0
      BY <2>3, <2>5 DEF Acceptable
    <3>3. m.qty \in Qtys
      BY <1>7 DEF Updates
    <3>4. Follows(Put(ticker_orders_, m), books[(last + 1) + 1])
      <4> DEFINE before == books[last + 1]
                 after == books[(last + 1) + 1]
                 qty == m.qty
      <4>1. Put(ticker_orders_, m)
              = [ticker_orders_ EXCEPT ![generateNewMarketOrderId(o)] = qty]
        BY <2>3 DEF Put
      <4>2. /\ before \in Books /\ after = [before EXCEPT ![o] = qty] /\ qty \in Qtys
            /\ before[o] = 0 <=> ticker_orders_[generateNewMarketOrderId(o)] = 0
            /\ Follows(ticker_orders_, before)
        BY <2>1, <2>2, <2>3, <3>2, <3>3
      <4> HIDE DEF before, after, qty
      <4>3. Follows([ticker_orders_ EXCEPT ![generateNewMarketOrderId(o)] = qty], after)
        BY <1>8, <4>2, FollowsPut
      <4>4. QED BY <4>1, <4>3 DEF after
    <3>5. QED BY <1>1, <1>2, <3>1, <3>4 DEF BooksFollow
  <2>6. QED BY <2>4, <2>5
<1>15. QED BY <1>10, <1>11, <1>12, <1>13, <1>14 DEF MarketDataInv

\* A snapshot is made of the synthesizer's book.
LEMMA PublishSnapshotKeeps == ASSUME MarketDataInv, publishSnapshot PROVE MarketDataInv'
<1>1. /\ TypeOK /\ NumbersCount /\ IncrementalsGoUp /\ SnapshotsReached /\ ConsumerWaits
      /\ GapsOnlyByRecovery /\ SynthesizerLags /\ BooksFollow
  BY DEF MarketDataInv
<1>2. /\ snapshot' = Datagrams(ticker_orders_, last_inc_seq_num_)
      /\ UNCHANGED <<live, next_order, books, next_inc_seq_num_, inc_buffer, snapshot_md_updates_,
                     ticker_orders_, last_inc_seq_num_, aborted, inc_wire, snapshot_wire,
                     losses, consumer, published, received, adopted>>
      /\ LastReceived' = LastReceived
  BY DEF publishSnapshot, exchange, history, LastReceived
<1>3. ticker_orders_ \in Books /\ last_inc_seq_num_ \in Nat
  BY <1>1, Numbers DEF TypeOK, Books
<1> DEFINE Fit == {m \in Messages : m.type = "SNAPSHOT_END" => m.id = last_inc_seq_num_}
<1>4. snapshot' \in Seq(Seq(Fit))
  BY <1>2, <1>3, DatagramsShow
<1>5. ASSUME NEW d \in DOMAIN snapshot', NEW i \in DOMAIN snapshot'[d]
      PROVE  snapshot'[d][i] \in Fit
  <2> HIDE DEF Fit
  <2>1. snapshot'[d] \in Seq(Fit)
    BY <1>4
  <2>2. QED BY <2>1
<1>6. snapshot' \in Seq(Seq(Messages))
  <2>1. Fit \subseteq Messages
    OBVIOUS
  <2> HIDE DEF Fit
  <2>2. \A d \in DOMAIN snapshot' : snapshot'[d] \in Seq(Messages)
    <3>1. \A d \in DOMAIN snapshot' : snapshot'[d] \in Seq(Fit)
      BY <1>4
    <3>2. QED BY <2>1, <3>1, SeqMonotonic
  <2>3. QED BY <1>4, <2>2
<1>7. TypeOK'
  BY <1>1, <1>2, <1>6 DEF TypeOK
<1>8. SnapshotsReached'
  <2>1. ASSUME NEW d \in DOMAIN snapshot', NEW i \in DOMAIN snapshot'[d]
        PROVE  snapshot'[d][i].type = "SNAPSHOT_END"
                 => snapshot'[d][i].id <= last_inc_seq_num_
    BY <1>3, <1>5
  <2>2. QED BY <1>1, <1>2, <2>1 DEF SnapshotsReached, Reached
<1>9. NumbersCount' /\ IncrementalsGoUp' /\ ConsumerWaits' /\ GapsOnlyByRecovery'
       /\ SynthesizerLags'
  BY <1>1, <1>2 DEF NumbersCount, IncrementalsGoUp, GoUp, ToCome, ConsumerWaits, Bounded,
                    GapsOnlyByRecovery, SynthesizerLags
<1>10. BooksFollow'
  BY <1>1, <1>2 DEF BooksFollow, Tells, Follows
<1>11. QED BY <1>7, <1>8, <1>9, <1>10 DEF MarketDataInv

\* One datagram of it goes out.
LEMMA FlushSnapshotKeeps == ASSUME MarketDataInv, FlushSnapshot PROVE MarketDataInv'
<1>1. /\ TypeOK /\ NumbersCount /\ IncrementalsGoUp /\ SnapshotsReached /\ ConsumerWaits
      /\ GapsOnlyByRecovery /\ SynthesizerLags /\ BooksFollow
  BY DEF MarketDataInv
<1>2. /\ snapshot # << >> /\ snapshot' = Tail(snapshot)
      /\ UNCHANGED <<live, next_order, books, next_inc_seq_num_, inc_buffer, snapshot_md_updates_,
                     ticker_orders_, last_inc_seq_num_, aborted, inc_wire,
                     consumer, published, received, adopted>>
      /\ LastReceived' = LastReceived
  BY DEF FlushSnapshot, exchange, history, LastReceived
<1>3. /\ snapshot_wire' = snapshot_wire \/ snapshot_wire' = Append(snapshot_wire, Head(snapshot))
      /\ losses' = losses \/ (losses < MaxLosses /\ losses' = losses + 1)
  BY DEF FlushSnapshot
<1>4. snapshot \in Seq(Seq(Messages)) /\ snapshot_wire \in Seq(Seq(Messages))
  BY <1>1 DEF TypeOK
<1> DEFINE k == Len(snapshot)
<1>5. /\ k \in Nat /\ k >= 1 /\ snapshot' \in Seq(Seq(Messages)) /\ Len(snapshot') = k - 1
      /\ \A d \in 1 .. k - 1 : snapshot'[d] = snapshot[d + 1]
      /\ Head(snapshot) = snapshot[1] /\ Head(snapshot) \in Seq(Messages)
      /\ DOMAIN snapshot = 1 .. k /\ DOMAIN snapshot' = 1 .. k - 1
  <2>1. /\ k \in Nat /\ k >= 1 /\ snapshot' \in Seq(Seq(Messages)) /\ Len(snapshot') = k - 1
        /\ \A d \in 1 .. k - 1 : snapshot'[d] = snapshot[d + 1]
        /\ Head(snapshot) \in Seq(Messages)
    BY <1>2, <1>4, HeadTailProperties
  <2>2. QED BY <1>2, <1>4, <2>1
<1>6. /\ snapshot_wire' \in Seq(Seq(Messages))
      /\ \A d \in DOMAIN snapshot_wire' :
            snapshot_wire'[d] = snapshot[1]
              \/ (d \in DOMAIN snapshot_wire /\ snapshot_wire'[d] = snapshot_wire[d])
  <2>1. CASE snapshot_wire' = Append(snapshot_wire, Head(snapshot))
    <3>1. /\ snapshot_wire' \in Seq(Seq(Messages))
          /\ Len(snapshot_wire') = Len(snapshot_wire) + 1
          /\ \A d \in 1 .. Len(snapshot_wire) : snapshot_wire'[d] = snapshot_wire[d]
          /\ snapshot_wire'[Len(snapshot_wire) + 1] = snapshot[1]
      BY <1>4, <1>5, <2>1, AppendProperties
    <3>2. /\ DOMAIN snapshot_wire' = 1 .. Len(snapshot_wire')
          /\ DOMAIN snapshot_wire = 1 .. Len(snapshot_wire) /\ Len(snapshot_wire) \in Nat
      BY <1>4, <3>1
    <3>3. QED BY <3>1, <3>2
  <2>2. CASE snapshot_wire' = snapshot_wire
    BY <1>4, <2>2
  <2>3. QED BY <1>3, <2>1, <2>2
<1> HIDE DEF k
<1>7. TypeOK'
  <2>1. losses' \in 0 .. MaxLosses
    <3>1. MaxLosses \in Nat
      BY BoundsAssumption
    <3>2. losses \in 0 .. MaxLosses
      BY <1>1 DEF TypeOK
    <3>3. QED BY <1>3, <3>1, <3>2
  <2>2. QED BY <1>1, <1>2, <1>5, <1>6, <2>1 DEF TypeOK
<1>8. SnapshotsReached'
  <2>1. ASSUME NEW d \in DOMAIN snapshot', NEW i \in DOMAIN snapshot'[d]
        PROVE  Reached(snapshot'[d][i])
    <3>1. d + 1 \in DOMAIN snapshot /\ snapshot'[d] = snapshot[d + 1]
      BY <1>5
    <3>2. QED BY <1>1, <3>1 DEF SnapshotsReached
  <2>2. ASSUME NEW d \in DOMAIN snapshot_wire', NEW i \in DOMAIN snapshot_wire'[d]
        PROVE  Reached(snapshot_wire'[d][i])
    <3>1. 1 \in DOMAIN snapshot
      BY <1>5
    <3>2. QED BY <1>1, <1>6, <3>1 DEF SnapshotsReached
  <2>3. QED BY <1>1, <1>2, <2>1, <2>2 DEF SnapshotsReached, Reached
<1>9. NumbersCount' /\ IncrementalsGoUp' /\ ConsumerWaits' /\ GapsOnlyByRecovery'
       /\ SynthesizerLags'
  BY <1>1, <1>2 DEF NumbersCount, IncrementalsGoUp, GoUp, ToCome, ConsumerWaits, Bounded,
                    GapsOnlyByRecovery, SynthesizerLags
<1>10. BooksFollow'
  BY <1>1, <1>2 DEF BooksFollow, Tells, Follows
<1>11. QED BY <1>7, <1>8, <1>9, <1>10 DEF MarketDataInv

\* What the consumer's side of the invariant is after a datagram.
LEMMA ReceiveKeeps ==
    ASSUME MarketDataInv, NEW is_snapshot \in BOOLEAN, NEW datagram,
           Deliverable(is_snapshot, datagram), Receive(is_snapshot, datagram),
           UNCHANGED <<published, last_inc_seq_num_>>
    PROVE  /\ consumer' \in [next_exp : 1 .. MaxUpdates + 1, in_recovery : BOOLEAN,
                             queued : SUBSET Messages, joined : BOOLEAN, alive : BOOLEAN]
           /\ received' \in Seq(Messages) /\ adopted' \subseteq 0 .. MaxUpdates
           /\ ConsumerWaits' /\ GapsOnlyByRecovery'
           /\ \A m \in consumer'.queued : Reached(m)
           /\ \A n \in adopted' : n <= last_inc_seq_num_
           /\ LastReceived' = LastReceived
                \/ \E j \in 1 .. Len(datagram) : LastReceived' = datagram[j].seq
           /\ is_snapshot => received' = received
<1>1. PICK c \in Handled(is_snapshot, datagram) :
         /\ consumer' = [next_exp |-> c.next_exp, in_recovery |-> c.in_recovery,
                         queued |-> c.queued, joined |-> c.joined, alive |-> c.alive]
         /\ received' = c.out
         /\ adopted' = c.ends
  BY DEF Receive
<1>2. c \in Consumers /\ Fine(c, datagram, Len(datagram)) /\ (is_snapshot => c.out = received)
  BY HandledFine
<1>3. LastReceived' = LastOf(c.out) /\ LastReceived = LastOf(received)
  BY <1>1, Numbers DEF LastReceived, LastOf
<1>4. /\ \A m \in c.queued : Reached(m)
      /\ \A n \in c.ends : n <= last_inc_seq_num_
      /\ CoveredBy(c.out, c.ends)
      /\ c.next_exp = LastOf(c.out) + 1 \/ c.next_exp - 1 \in c.ends
      /\ c.next_exp \in 1 .. MaxUpdates + 1
      /\ c.out = received \/ \E j \in 1 .. Len(datagram) : LastOf(c.out) = datagram[j].seq
  BY <1>2 DEF Fine
<1>5. /\ c.queued \in SUBSET Messages /\ Bounded(c.queued) /\ c.out \in Seq(Messages)
      /\ c.ends \in SUBSET Nat /\ c.in_recovery \in BOOLEAN /\ c.joined \in BOOLEAN
      /\ c.alive \in BOOLEAN
  BY <1>2 DEF Consumers
<1>6. consumer' \in [next_exp : 1 .. MaxUpdates + 1, in_recovery : BOOLEAN,
                     queued : SUBSET Messages, joined : BOOLEAN, alive : BOOLEAN]
  BY <1>1, <1>4, <1>5
<1>7. adopted' \subseteq 0 .. MaxUpdates
  <2>1. last_inc_seq_num_ \in 0 .. Len(published) /\ Len(published) \in 0 .. MaxUpdates
        /\ MaxUpdates \in Nat
    BY Numbers
  <2>2. QED BY <1>1, <1>4, <1>5, <2>1
<1>8. ConsumerWaits'
  <2>1. consumer'.queued = c.queued /\ consumer'.next_exp = c.next_exp
    BY <1>1
  <2>2. QED BY <1>1, <1>3, <1>4, <1>5, <2>1 DEF ConsumerWaits, Bounded
<1>9. GapsOnlyByRecovery'
  BY <1>1, <1>4 DEF CoveredBy, GapsOnlyByRecovery
<1>10. consumer'.queued = c.queued
  BY <1>1
<1>11. QED BY <1>1, <1>2, <1>3, <1>4, <1>5, <1>6, <1>7, <1>8, <1>9, <1>10

\* An update is not the end of a snapshot.
LEMMA UpdatesReach == ASSUME MarketDataInv, NEW m, ToCome(m) PROVE Reached(m)
<1>1. m \in Updates
  BY DEF MarketDataInv, NumbersCount, ToCome
<1>2. QED BY <1>1 DEF Updates, Reached

\* Handling a datagram of the incremental stream keeps it.
LEMMA ReceiveIncrementalKeeps == ASSUME MarketDataInv, ReceiveIncremental PROVE MarketDataInv'
<1> DEFINE k == Len(inc_wire)
           datagram == Head(inc_wire)
<1>1. /\ TypeOK /\ NumbersCount /\ IncrementalsGoUp /\ SnapshotsReached /\ ConsumerWaits
      /\ GapsOnlyByRecovery /\ SynthesizerLags /\ BooksFollow
  BY DEF MarketDataInv
<1>2. /\ inc_wire # << >> /\ Receive(FALSE, datagram) /\ inc_wire' = Tail(inc_wire)
      /\ UNCHANGED <<live, next_order, books, next_inc_seq_num_, inc_buffer, snapshot_md_updates_,
                     ticker_orders_, last_inc_seq_num_, snapshot, aborted, snapshot_wire,
                     losses, published>>
  BY DEF ReceiveIncremental, exchange, synthesizer
<1>3. /\ k \in Nat /\ k >= 1 /\ inc_wire' \in Seq(Seq(Messages)) /\ Len(inc_wire') = k - 1
      /\ \A d \in 1 .. k - 1 : inc_wire'[d] = inc_wire[d + 1]
      /\ datagram = inc_wire[1] /\ datagram \in Seq(Messages)
      /\ DOMAIN inc_wire = 1 .. k /\ DOMAIN inc_wire' = 1 .. k - 1
  <2>1. inc_wire \in Seq(Seq(Messages))
    BY <1>1 DEF TypeOK
  <2>2. /\ k \in Nat /\ k >= 1 /\ inc_wire' \in Seq(Seq(Messages)) /\ Len(inc_wire') = k - 1
        /\ \A d \in 1 .. k - 1 : inc_wire'[d] = inc_wire[d + 1]
        /\ datagram \in Seq(Messages)
    BY <1>2, <2>1, HeadTailProperties
  <2>3. QED BY <1>2, <2>1, <2>2
<1> HIDE DEF k, datagram
<1>4. /\ GoUp(datagram)
      /\ \A i \in DOMAIN datagram : ToCome(datagram[i])
      /\ \A i \in DOMAIN datagram :
            /\ \A j \in DOMAIN inc_buffer : datagram[i].seq < inc_buffer[j].seq
            /\ \A e \in 2 .. k : \A j \in DOMAIN inc_wire[e] :
                  datagram[i].seq < inc_wire[e][j].seq
  <2>1. 1 \in DOMAIN inc_wire /\ \A e \in 2 .. k : e \in DOMAIN inc_wire /\ 1 < e
    BY <1>3
  <2>2. QED BY <1>1, <1>3, <2>1 DEF IncrementalsGoUp
<1>5. Deliverable(FALSE, datagram)
  BY <1>3, <1>4, UpdatesReach DEF Deliverable
<1>6. /\ consumer' \in [next_exp : 1 .. MaxUpdates + 1, in_recovery : BOOLEAN,
                        queued : SUBSET Messages, joined : BOOLEAN, alive : BOOLEAN]
      /\ received' \in Seq(Messages) /\ adopted' \subseteq 0 .. MaxUpdates
      /\ ConsumerWaits' /\ GapsOnlyByRecovery'
      /\ \A m \in consumer'.queued : Reached(m)
      /\ \A n \in adopted' : n <= last_inc_seq_num_
      /\ LastReceived' = LastReceived
           \/ \E j \in 1 .. Len(datagram) : LastReceived' = datagram[j].seq
  <2>1. UNCHANGED <<published, last_inc_seq_num_>>
    BY <1>2
  <2>2. QED BY <1>2, <1>5, <2>1, ReceiveKeeps
<1>7. TypeOK'
  BY <1>1, <1>2, <1>3, <1>6 DEF TypeOK
<1>8. DOMAIN datagram = 1 .. Len(datagram)
  BY <1>3
<1> DEFINE Coming(u) == u.seq \in DOMAIN published' /\ u = published'[u.seq] /\ LastReceived' < u.seq
<1>9. ASSUME NEW u, ToCome(u), \A i \in DOMAIN datagram : datagram[i].seq < u.seq
      PROVE  Coming(u)
  BY <1>2, <1>6, <1>8, <1>9 DEF ToCome
<1> HIDE DEF Coming
<1>10. IncrementalsGoUp'
  <2>1. ASSUME NEW i \in DOMAIN inc_buffer PROVE Coming(inc_buffer[i])
    BY <1>1, <1>4, <1>9 DEF IncrementalsGoUp
  <2>2. ASSUME NEW d \in DOMAIN inc_wire'
        PROVE  d + 1 \in 2 .. k /\ d + 1 \in DOMAIN inc_wire /\ inc_wire'[d] = inc_wire[d + 1]
               /\ d \in Nat
    BY <1>3
  <2>3. ASSUME NEW d \in DOMAIN inc_wire'
        PROVE  /\ GoUp(inc_wire'[d])
               /\ \A i \in DOMAIN inc_wire'[d] :
                     /\ Coming(inc_wire'[d][i])
                     /\ \A j \in DOMAIN inc_buffer : inc_wire'[d][i].seq < inc_buffer[j].seq
    <3>1. GoUp(inc_wire[d + 1])
      BY <1>1, <2>2 DEF IncrementalsGoUp
    <3>2. ASSUME NEW i \in DOMAIN inc_wire[d + 1]
          PROVE  /\ Coming(inc_wire[d + 1][i])
                 /\ \A j \in DOMAIN inc_buffer : inc_wire[d + 1][i].seq < inc_buffer[j].seq
      <4>1. /\ ToCome(inc_wire[d + 1][i])
            /\ \A j \in DOMAIN inc_buffer : inc_wire[d + 1][i].seq < inc_buffer[j].seq
        BY <1>1, <2>2 DEF IncrementalsGoUp
      <4>2. \A j \in DOMAIN datagram : datagram[j].seq < inc_wire[d + 1][i].seq
        BY <1>4, <2>2
      <4>3. QED BY <1>9, <4>1, <4>2
    <3>3. QED BY <2>2, <3>1, <3>2
  <2>4. ASSUME NEW d \in DOMAIN inc_wire', NEW e \in DOMAIN inc_wire', d < e,
               NEW i \in DOMAIN inc_wire'[d], NEW j \in DOMAIN inc_wire'[e]
        PROVE  inc_wire'[d][i].seq < inc_wire'[e][j].seq
    <3>1. d + 1 < e + 1
      BY <2>2, <2>4
    <3>2. /\ d + 1 \in DOMAIN inc_wire /\ inc_wire'[d] = inc_wire[d + 1]
          /\ e + 1 \in DOMAIN inc_wire /\ inc_wire'[e] = inc_wire[e + 1]
      BY <2>2
    <3>3. QED BY <1>1, <3>1, <3>2 DEF IncrementalsGoUp
  <2>5. inc_buffer' = inc_buffer /\ GoUp(inc_buffer)
    BY <1>1, <1>2 DEF IncrementalsGoUp
  <2>6. QED BY <2>1, <2>3, <2>4, <2>5 DEF IncrementalsGoUp, ToCome, Coming, GoUp
<1>11. SnapshotsReached'
  BY <1>1, <1>2, <1>6 DEF SnapshotsReached, Reached
<1>12. NumbersCount' /\ SynthesizerLags'
  BY <1>1, <1>2 DEF NumbersCount, SynthesizerLags
<1>13. BooksFollow'
  BY <1>1, <1>2 DEF BooksFollow, Tells, Follows
<1>14. QED BY <1>6, <1>7, <1>10, <1>11, <1>12, <1>13 DEF MarketDataInv

\* Handling a datagram of the snapshot stream keeps it.
LEMMA ReceiveSnapshotKeeps == ASSUME MarketDataInv, ReceiveSnapshot PROVE MarketDataInv'
<1> DEFINE k == Len(snapshot_wire)
           datagram == Head(snapshot_wire)
<1>1. /\ TypeOK /\ NumbersCount /\ IncrementalsGoUp /\ SnapshotsReached /\ ConsumerWaits
      /\ GapsOnlyByRecovery /\ SynthesizerLags /\ BooksFollow
  BY DEF MarketDataInv
<1>2. /\ snapshot_wire # << >>
      /\ UNCHANGED <<live, next_order, books, next_inc_seq_num_, inc_buffer, snapshot_md_updates_,
                     ticker_orders_, last_inc_seq_num_, snapshot, aborted, inc_wire,
                     losses, published>>
      /\ Receive(TRUE, datagram) \/ UNCHANGED <<consumer, received, adopted>>
      /\ snapshot_wire' = Tail(snapshot_wire) \/ snapshot_wire' = << >>
  BY DEF ReceiveSnapshot, exchange, synthesizer, history
<1>3. /\ k \in Nat /\ k >= 1 /\ Tail(snapshot_wire) \in Seq(Seq(Messages))
      /\ Len(Tail(snapshot_wire)) = k - 1
      /\ \A d \in 1 .. k - 1 : Tail(snapshot_wire)[d] = snapshot_wire[d + 1]
      /\ datagram = snapshot_wire[1] /\ datagram \in Seq(Messages)
      /\ DOMAIN snapshot_wire = 1 .. k /\ DOMAIN Tail(snapshot_wire) = 1 .. k - 1
  <2>1. snapshot_wire \in Seq(Seq(Messages))
    BY <1>1 DEF TypeOK
  <2>2. /\ k \in Nat /\ k >= 1 /\ Tail(snapshot_wire) \in Seq(Seq(Messages))
        /\ Len(Tail(snapshot_wire)) = k - 1
        /\ \A d \in 1 .. k - 1 : Tail(snapshot_wire)[d] = snapshot_wire[d + 1]
        /\ datagram \in Seq(Messages)
    BY <1>2, <2>1, HeadTailProperties
  <2>3. QED BY <1>2, <2>1, <2>2
<1> HIDE DEF k, datagram
<1>4. /\ snapshot_wire' \in Seq(Seq(Messages))
      /\ \A d \in DOMAIN snapshot_wire' :
            d + 1 \in DOMAIN snapshot_wire /\ snapshot_wire'[d] = snapshot_wire[d + 1]
  <2>1. << >> \in Seq(Seq(Messages)) /\ DOMAIN << >> = {}
    OBVIOUS
  <2>2. \A d \in 1 .. k - 1 : d + 1 \in 1 .. k
    BY <1>3
  <2>3. QED BY <1>2, <1>3, <2>1, <2>2
<1>5. \A i \in DOMAIN datagram : Reached(datagram[i])
  <2>1. 1 \in DOMAIN snapshot_wire
    BY <1>3
  <2>2. QED BY <1>1, <1>3, <2>1 DEF SnapshotsReached
<1>6. /\ consumer' \in [next_exp : 1 .. MaxUpdates + 1, in_recovery : BOOLEAN,
                        queued : SUBSET Messages, joined : BOOLEAN, alive : BOOLEAN]
      /\ received' \in Seq(Messages) /\ adopted' \subseteq 0 .. MaxUpdates
      /\ ConsumerWaits' /\ GapsOnlyByRecovery'
      /\ \A m \in consumer'.queued : Reached(m)
      /\ \A n \in adopted' : n <= last_inc_seq_num_
      /\ received' = received
  <2>1. CASE Receive(TRUE, datagram)
    <3>1. Deliverable(TRUE, datagram)
      BY <1>3, <1>5 DEF Deliverable
    <3>2. UNCHANGED <<published, last_inc_seq_num_>>
      BY <1>2
    <3>3. QED BY <2>1, <3>1, <3>2, ReceiveKeeps
  <2>2. CASE UNCHANGED <<consumer, received, adopted>>
    <3>1. ConsumerWaits' /\ GapsOnlyByRecovery'
      BY <1>1, <1>2, <2>2 DEF ConsumerWaits, Bounded, LastReceived, GapsOnlyByRecovery
    <3>2. QED BY <1>1, <2>2, <3>1 DEF TypeOK, SnapshotsReached
  <2>3. QED BY <1>2, <2>1, <2>2
<1>7. TypeOK'
  BY <1>1, <1>2, <1>4, <1>6 DEF TypeOK
<1>8. SnapshotsReached'
  <2>1. ASSUME NEW d \in DOMAIN snapshot_wire', NEW i \in DOMAIN snapshot_wire'[d]
        PROVE  Reached(snapshot_wire'[d][i])
    BY <1>1, <1>4 DEF SnapshotsReached
  <2>2. QED BY <1>1, <1>2, <1>6, <2>1 DEF SnapshotsReached, Reached
<1>9. LastReceived' = LastReceived
  BY <1>6 DEF LastReceived
<1>10. NumbersCount' /\ SynthesizerLags' /\ IncrementalsGoUp'
  BY <1>1, <1>2, <1>9 DEF NumbersCount, SynthesizerLags, IncrementalsGoUp,
                          GoUp, ToCome
<1>11. BooksFollow'
  BY <1>1, <1>2 DEF BooksFollow, Tells, Follows
<1>12. QED BY <1>6, <1>7, <1>8, <1>10, <1>11 DEF MarketDataInv

\* Every step keeps the invariant.
LEMMA MarketDataStep == MarketDataInv /\ [Next]_vars => MarketDataInv'
<1> SUFFICES ASSUME MarketDataInv, [Next]_vars PROVE MarketDataInv'
  OBVIOUS
<1>1. CASE PublishAdd \/ PublishModify \/ PublishCancel
  BY <1>1, PublishingKeeps
<1>2. CASE FlushIncremental
  BY <1>2, FlushIncrementalKeeps
<1>3. CASE addToSnapshot
  BY <1>3, AddToSnapshotKeeps
<1>4. CASE publishSnapshot
  BY <1>4, PublishSnapshotKeeps
<1>5. CASE FlushSnapshot
  BY <1>5, FlushSnapshotKeeps
<1>6. CASE ReceiveIncremental
  BY <1>6, ReceiveIncrementalKeeps
<1>7. CASE ReceiveSnapshot
  BY <1>7, ReceiveSnapshotKeeps
<1>8. CASE UNCHANGED vars
  <2>1. UNCHANGED <<live, next_order, books, next_inc_seq_num_, inc_buffer, snapshot_md_updates_,
                    ticker_orders_, last_inc_seq_num_, snapshot, aborted, inc_wire,
                    snapshot_wire, losses, consumer, published, received, adopted>>
    BY <1>8 DEF vars, exchange, synthesizer, history
  <2>2. (TypeOK /\ NumbersCount /\ IncrementalsGoUp /\ SnapshotsReached)'
    BY <2>1 DEF MarketDataInv, TypeOK, NumbersCount, IncrementalsGoUp, GoUp, ToCome,
                LastReceived, SnapshotsReached, Reached
  <2>3. (ConsumerWaits /\ GapsOnlyByRecovery /\ SynthesizerLags)'
    BY <2>1 DEF MarketDataInv, ConsumerWaits, Bounded, LastReceived, GapsOnlyByRecovery,
                SynthesizerLags
  <2>4. BooksFollow'
    BY <2>1 DEF MarketDataInv, BooksFollow, BookAfter
  <2>5. QED BY <2>2, <2>3, <2>4 DEF MarketDataInv
<1>9. QED BY <1>1, <1>2, <1>3, <1>4, <1>5, <1>6, <1>7, <1>8 DEF Next

-----------------------------------------------------------------------------
(* The theorems.                                                           *)

\* The invariant, type correctness among its parts, holds in every state, for any
\* number of orders, updates and losses, and however the ids are given out.
THEOREM MarketDataSafety == Spec => []MarketDataInv
<1>1. QED BY MarketDataInit, MarketDataStep, PTL DEF Spec

\* recvCallback() and checkSnapshotSync(), whatever is lost: what the consumer
\* passes on are the updates of the exchange, each once, in order, and what is
\* missing before one of them is covered by a snapshot it has recovered to.
THEOREM GapsCovered == Spec => []GapsOnlyByRecovery
<1>1. MarketDataInv => GapsOnlyByRecovery
  BY DEF MarketDataInv
<1>2. QED BY <1>1, MarketDataSafety, PTL

\* addToSnapshot() and publishSnapshot(), whether orders share ids or not: a snapshot
\* shows the book of the exchange at the number it carries, every order once and
\* none hidden behind another, however far the synthesizer lags behind.
THEOREM SnapshotsTrue == Spec => SnapshotIsBookAtItsNumber
<1>1. ASSUME MarketDataInv, [Next]_vars, snapshot = << >>, snapshot' # << >>
      PROVE  LET orders == {m \in Within(snapshot') : m.type = "ADD"}
                 book   == BookAfter(LastMessage(snapshot').id)
             IN  /\ {[id |-> m.id, qty |-> m.qty] : m \in orders} = OnMarket(book)
                 /\ \A m, k \in orders : m.id = k.id => m = k
                 /\ \A o, p \in Orders :
                       book[o] > 0 /\ book[p] > 0
                         /\ generateNewMarketOrderId(o) = generateNewMarketOrderId(p) => o = p
  <2> DEFINE orders == {m \in Within(snapshot') : m.type = "ADD"}
             book == BookAfter(LastMessage(snapshot').id)
  <2>1. publishSnapshot
    <3>1. UNCHANGED snapshot => FALSE
      BY <1>1
    <3>2. ~FlushSnapshot
      BY <1>1 DEF FlushSnapshot
    <3>3. /\ ~(PublishAdd \/ PublishModify \/ PublishCancel)
          /\ ~FlushIncremental /\ ~ReceiveIncremental /\ ~ReceiveSnapshot
      BY <3>1 DEF PublishAdd, PublishModify, PublishCancel, Publish, FlushIncremental,
                  ReceiveIncremental, ReceiveSnapshot, synthesizer
    <3>4. ~addToSnapshot
      BY <3>1 DEF addToSnapshot
    <3>5. ~(UNCHANGED vars)
      BY <3>1 DEF vars, synthesizer
    <3>6. QED BY <1>1, <3>2, <3>3, <3>4, <3>5 DEF Next
  <2>2. ticker_orders_ \in Books /\ last_inc_seq_num_ \in Nat
    BY <1>1, Numbers DEF MarketDataInv, TypeOK, Books
  <2>3. snapshot' = Datagrams(ticker_orders_, last_inc_seq_num_)
    BY <2>1 DEF publishSnapshot
  <2>4. /\ LastMessage(snapshot').id = last_inc_seq_num_
        /\ \A m \in orders : m.id \in Orders /\ ticker_orders_[m.id] > 0
                             /\ m.qty = ticker_orders_[m.id]
        /\ \A id \in Orders : ticker_orders_[id] > 0 => \E m \in orders : m.id = id
        /\ \A m, k \in orders : m.id = k.id => m = k
    <3>1. \A list : list = Datagrams(ticker_orders_, last_inc_seq_num_)
                       => Shows(list, ticker_orders_, last_inc_seq_num_)
      BY <2>2, DatagramsShow
    <3>2. Shows(snapshot', ticker_orders_, last_inc_seq_num_)
      BY <2>3, <3>1
    <3>3. QED BY <3>2 DEF Shows
  <2>5. Follows(ticker_orders_, book)
    BY <1>1, <2>4 DEF MarketDataInv, BooksFollow, BookAfter
  <2>6. \A o \in Orders : generateNewMarketOrderId(o) \in Orders
    BY BoundsAssumption DEF generateNewMarketOrderId, Orders
  <2> HIDE DEF book, orders
  <2>7. ASSUME NEW m \in orders
        PROVE  \E o \in Orders : /\ book[o] > 0 /\ m.id = generateNewMarketOrderId(o)
                                 /\ m.qty = book[o]
    BY <2>4, <2>5, <2>7 DEF Follows
  <2>8. ASSUME NEW o \in Orders, book[o] > 0
        PROVE  \E m \in orders : m.id = generateNewMarketOrderId(o) /\ m.qty = book[o]
    BY <2>4, <2>5, <2>6, <2>8 DEF Follows
  <2>9. {[id |-> m.id, qty |-> m.qty] : m \in orders} = OnMarket(book)
    BY <2>7, <2>8 DEF OnMarket
  <2>10. QED BY <2>4, <2>5, <2>9 DEF Follows, book, orders
<1>2. MarketDataInv /\ [Next]_vars =>
        [snapshot = << >> /\ snapshot' # << >> =>
           LET orders == {m \in Within(snapshot') : m.type = "ADD"}
               book   == BookAfter(LastMessage(snapshot').id)
           IN  /\ {[id |-> m.id, qty |-> m.qty] : m \in orders} = OnMarket(book)
               /\ \A m, k \in orders : m.id = k.id => m = k
               /\ \A o, p \in Orders :
                     book[o] > 0 /\ book[p] > 0
                       /\ generateNewMarketOrderId(o) = generateNewMarketOrderId(p) => o = p]_vars
  BY <1>1
<1>3. QED BY <1>2, MarketDataSafety, PTL DEF Spec, SnapshotIsBookAtItsNumber
=============================================================================
