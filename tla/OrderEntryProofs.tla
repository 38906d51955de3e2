-------------------------- MODULE OrderEntryProofs --------------------------
(***************************************************************************)
(* What the order-entry path keeps true for any number of clients,         *)
(* requests, restarts, kernel times and pending requests.                  *)
(*                                                                         *)
(* The requests of a client are followed from its send buffer over the     *)
(* wire and the pending requests of the sequencer to the matching engine,  *)
(* and its responses all the way back.  On each leg the numbers go up, and *)
(* the counter of the receiver stands between what it has passed on and    *)
(* what is still on its way, so that a number that was lost is one it has  *)
(* not reached and never will.                                             *)
(***************************************************************************)
EXTENDS OrderEntry, SequenceTheorems, FiniteSetTheorems, WellFoundedInduction, TLAPS

-----------------------------------------------------------------------------
(* The inductive invariant, part by part.                                  *)

\* The numbers of a list of requests or responses go up.
GoUp(list) == \A i, j \in DOMAIN list : i < j => list[i].seq < list[j].seq

\* A list names nobody twice.
NoneTwice(list) == \A i, j \in DOMAIN list : i # j => list[i] # list[j]

\* The requests on their way to the server.
RequestsOnTheWay ==
    /\ \A s \in Sockets :
          /\ GoUp(up[s])
          /\ \A i \in DOMAIN up[s] : up[s][i].client = s[1] /\ up[s][i].run = s[2]
          /\ up[s] # << >> => s[2] <= run[s[1]]
    /\ \A c \in Clients :
          /\ GoUp(send_buffer_[c])
          /\ \A i \in DOMAIN send_buffer_[c] :
                /\ send_buffer_[c][i].client = c /\ send_buffer_[c][i].run = run[c]
                /\ send_buffer_[c][i].seq < next_outgoing_seq_num_[c]
          /\ \A i \in DOMAIN up[MySocket(c)] :
                /\ up[MySocket(c)][i].seq < next_outgoing_seq_num_[c]
                /\ \A j \in DOMAIN send_buffer_[c] :
                      up[MySocket(c)][i].seq < send_buffer_[c][j].seq

\* A request that was lost is not on its way too.
LostRequestsAreGone ==
    \A r \in lost_requests :
        /\ r.run <= run[r.client]
        /\ r.run = run[r.client] => r.seq < next_outgoing_seq_num_[r.client]
        /\ \A i \in DOMAIN up[<<r.client, r.run>>] : up[<<r.client, r.run>>][i] # r
        /\ \A i \in DOMAIN send_buffer_[r.client] : send_buffer_[r.client][i] # r

\* The number the server waits for is not above one that is on its way, will be
\* sent or was lost.
ServerWaits ==
    \A c \in Clients :
        /\ cid_tcp_socket_[c] = NoSocket => cid_next_exp_seq_num_[c] = 1
        /\ cid_tcp_socket_[c] # NoSocket =>
              /\ cid_tcp_socket_[c][1] = c /\ cid_tcp_socket_[c][2] <= run[c]
              /\ \A i \in DOMAIN up[cid_tcp_socket_[c]] :
                    cid_next_exp_seq_num_[c] <= up[cid_tcp_socket_[c]][i].seq
              /\ \A r \in lost_requests : cid_tcp_socket_[c] = <<r.client, r.run>> =>
                    cid_next_exp_seq_num_[c] <= r.seq
        /\ cid_tcp_socket_[c] = MySocket(c) =>
              /\ cid_next_exp_seq_num_[c] <= next_outgoing_seq_num_[c]
              /\ \A i \in DOMAIN send_buffer_[c] :
                    cid_next_exp_seq_num_[c] <= send_buffer_[c][i].seq

\* A request that was accepted came over the socket of its client, and is below
\* the number the server waits for.
WasAccepted(r) ==
    /\ cid_tcp_socket_[r.client] = <<r.client, r.run>>
    /\ r.seq < cid_next_exp_seq_num_[r.client]

\* The requests the sequencer holds: those of a client came in one read, of a
\* socket that has had its turn, and follow those that were published.
Pending ==
    LET p == pending_client_requests_
    IN  /\ pc # "serve" => p = << >>
        /\ \A i \in DOMAIN p :
              /\ WasAccepted(p[i].request_)
              /\ \A n \in DOMAIN todo : todo[n] # cid_tcp_socket_[p[i].request_.client]
              /\ \A j \in DOMAIN p : p[j].request_.client = p[i].request_.client =>
                    /\ p[j].recv_time_ = p[i].recv_time_
                    /\ i < j => p[i].request_.seq < p[j].request_.seq
              /\ \A j \in DOMAIN sequenced : sequenced[j].client = p[i].request_.client =>
                    sequenced[j].seq < p[i].request_.seq

\* The matching engine gets every request once, and none without those before
\* it.
RequestsOnce ==
    \A i \in DOMAIN sequenced :
        LET r == sequenced[i]
        IN  /\ \A m \in 1 .. r.seq - 1 :
                  \E j \in DOMAIN sequenced : sequenced[j] = [r EXCEPT !.seq = m]
            /\ \A j \in DOMAIN sequenced : j # i /\ sequenced[j].client = r.client =>
                  sequenced[j].run = r.run /\ sequenced[j].seq # r.seq

\* Every request the server has counted is with the sequencer or the engine.
NoneSkipped ==
    /\ \A i \in DOMAIN sequenced : WasAccepted(sequenced[i])
    /\ Serving => \A c \in Clients : \A m \in 1 .. cid_next_exp_seq_num_[c] - 1 :
          \/ \E i \in DOMAIN sequenced : sequenced[i].client = c /\ sequenced[i].seq = m
          \/ \E i \in DOMAIN pending_client_requests_ :
                /\ pending_client_requests_[i].request_.client = c
                /\ pending_client_requests_[i].request_.seq = m

\* The server reads every socket once in a pass.
SocketLists ==
    /\ NoneTwice(receive_sockets_) /\ NoneTwice(backlog) /\ NoneTwice(todo)
    /\ \A i \in DOMAIN receive_sockets_, j \in DOMAIN backlog : receive_sockets_[i] # backlog[j]
    /\ \A i \in DOMAIN receive_sockets_ : receive_sockets_[i][2] <= run[receive_sockets_[i][1]]
    /\ \A i \in DOMAIN backlog : backlog[i][2] <= run[backlog[i][1]]
    /\ \A i \in DOMAIN todo : todo[i][2] <= run[todo[i][1]]

\* The responses the server has not taken yet: those to a client are the ones
\* from its counter to the last the engine gave.
ResponsesQueued ==
    /\ \A i \in DOMAIN responses :
          /\ cid_tcp_socket_[responses[i].client] # NoSocket
          /\ cid_next_outgoing_seq_num_[responses[i].client] <= responses[i].id
          /\ responses[i].id <= answered[responses[i].client]
          /\ \A j \in DOMAIN responses : i < j /\ responses[i].client = responses[j].client =>
                responses[i].id < responses[j].id
    /\ \A c \in Clients :
          /\ cid_next_outgoing_seq_num_[c] <= answered[c] + 1
          /\ \A m \in cid_next_outgoing_seq_num_[c] .. answered[c] :
                \E i \in DOMAIN responses : responses[i].client = c /\ responses[i].id = m

\* A response that was numbered went to the socket of its client.
Numbered(r, s) ==
    /\ r.client = s[1] /\ cid_tcp_socket_[r.client] = s
    /\ r.id = r.seq /\ 1 <= r.seq /\ r.seq < cid_next_outgoing_seq_num_[r.client]

\* The responses on their way to the gateways.
ResponsesOnTheWay ==
    \A s \in Sockets :
        /\ GoUp(down[s]) /\ GoUp(server_buffer_[s])
        /\ \A i \in DOMAIN down[s] : Numbered(down[s][i], s)
        /\ \A i \in DOMAIN server_buffer_[s] :
              /\ Numbered(server_buffer_[s][i], s)
              /\ \A j \in DOMAIN down[s] : down[s][j].seq < server_buffer_[s][i].seq

\* A response that was lost is not on its way too.
LostResponsesAreGone ==
    \A r \in lost_responses :
        /\ cid_tcp_socket_[r.client] # NoSocket
        /\ r.seq < cid_next_outgoing_seq_num_[r.client]
        /\ \A i \in DOMAIN down[cid_tcp_socket_[r.client]] :
              down[cid_tcp_socket_[r.client]][i].seq # r.seq
        /\ \A i \in DOMAIN server_buffer_[cid_tcp_socket_[r.client]] :
              server_buffer_[cid_tcp_socket_[r.client]][i].seq # r.seq
        /\ cid_tcp_socket_[r.client] = MySocket(r.client) =>
              next_exp_seq_num_[r.client] <= r.seq

\* The number a gateway waits for is not above one that is on its way or will
\* be sent, and those below it are what the strategy got.
GatewayWaits ==
    \A c \in Clients :
        /\ next_exp_seq_num_[c] <= cid_next_outgoing_seq_num_[c]
        /\ \A i \in DOMAIN down[MySocket(c)] : next_exp_seq_num_[c] <= down[MySocket(c)][i].seq
        /\ \A i \in DOMAIN server_buffer_[MySocket(c)] :
              next_exp_seq_num_[c] <= server_buffer_[MySocket(c)][i].seq
        /\ Len(delivered[c]) = next_exp_seq_num_[c] - 1
        /\ \A i \in DOMAIN delivered[c] : delivered[c][i] = i

RequestsInv ==
    /\ RequestsOnTheWay /\ LostRequestsAreGone /\ ServerWaits /\ SocketLists
    /\ Pending /\ RequestsOnce /\ NoneSkipped

ResponsesInv ==
    /\ ResponsesQueued /\ ResponsesOnTheWay /\ LostResponsesAreGone /\ GatewayWaits
    /\ aborted # "no socket"

OrderEntryInv == TypeOK /\ RequestsInv /\ ResponsesInv

-----------------------------------------------------------------------------
(* Induction, and recursive functions.                                     *)

\* Every set of numbers has a least one.
LEMMA Least == ASSUME NEW T \in SUBSET Nat, T # {} PROVE \E x \in T : \A y \in T : x <= y
<1>1. PICK x \in T : \A y \in T : ~ (<<y, x>> \in OpToRel(<, Nat))
  BY WFMin, NatLessThanWellFounded
<1>2. ASSUME NEW y \in T PROVE x <= y
  <2>1. <<y, x>> \notin {ss \in Nat \X Nat : ss[1] < ss[2]}
    BY <1>1 DEF OpToRel
  <2>2. <<y, x>> \in Nat \X Nat /\ <<y, x>>[1] = y /\ <<y, x>>[2] = x
    OBVIOUS
  <2>3. ~(y < x)
    BY <2>1, <2>2
  <2>4. QED BY <2>3
<1>3. QED BY <1>2

\* Induction over the numbers.
LEMMA Induction ==
  ASSUME NEW T, 0 \in T, \A n \in Nat : n \in T => n + 1 \in T
  PROVE  \A n \in Nat : n \in T
<1>1. SUFFICES ASSUME NEW n \in Nat, n \notin T PROVE FALSE
  OBVIOUS
<1>2. PICK x \in Nat \ T : \A y \in Nat \ T : x <= y
  BY <1>1, Least
<1>3. x # 0 /\ x - 1 \in Nat
  BY <1>2
<1>4. x - 1 \in T
  BY <1>2, <1>3
<1>5. x - 1 + 1 \in T
  BY <1>3, <1>4
<1>6. QED BY <1>2, <1>5

\* A function that starts with base and has each value from the one before it.
Steps(V, n) == [1 .. n -> [V -> V]]

Solves(f, V, base, n, step) ==
    f \in [0 .. n -> V] /\ f[0] = base /\ \A k \in 1 .. n : f[k] = step[k][f[k - 1]]

\* Every recursion has a solution.
LEMMA Recursion ==
    ASSUME NEW V, NEW base \in V, NEW n \in Nat, NEW step \in Steps(V, n)
    PROVE  \E f : Solves(f, V, base, n, step)
<1>0. step \in [1 .. n -> [V -> V]]
  BY DEF Steps
<1> DEFINE Sol(m) == {f \in [0 .. m -> V] :
                      f[0] = base /\ \A k \in 1 .. m : f[k] = step[k][f[k - 1]]}
           T == {m \in Nat : m <= n => Sol(m) # {}}
<1>1. 0 \in T
  <2>1. [k \in 0 .. 0 |-> base] \in Sol(0)
    OBVIOUS
  <2>2. QED BY <2>1
<1>2. ASSUME NEW m \in Nat, m \in T PROVE m + 1 \in T
  <2>1. SUFFICES ASSUME m + 1 <= n PROVE Sol(m + 1) # {}
    OBVIOUS
  <2>2. PICK f \in Sol(m) : TRUE
    BY <1>2, <2>1
  <2>3. step[m + 1][f[m]] \in V
    BY <1>0, <2>1, <2>2
  <2> DEFINE g == [k \in 0 .. m + 1 |-> IF k = m + 1 THEN step[m + 1][f[m]] ELSE f[k]]
  <2>4. g \in [0 .. m + 1 -> V]
    BY <2>2, <2>3
  <2>5. g[0] = base
    BY <2>2
  <2>6. ASSUME NEW k \in 1 .. m + 1 PROVE g[k] = step[k][g[k - 1]]
    <3>1. CASE k = m + 1
      <4>1. g[k] = step[m + 1][f[m]] /\ g[k - 1] = f[m]
        BY <3>1
      <4>2. QED BY <3>1, <4>1
    <3>2. CASE k # m + 1
      <4>1. k \in 1 .. m /\ k - 1 \in 0 .. m
        BY <3>2
      <4>2. g[k] = f[k] /\ g[k - 1] = f[k - 1]
        BY <3>2, <4>1
      <4>3. QED BY <2>2, <4>1, <4>2
    <3>3. QED BY <3>1, <3>2
  <2>7. QED BY <2>4, <2>5, <2>6
<1>3. n \in T
  <2> HIDE DEF T
  <2>1. QED BY <1>1, <1>2, Induction
<1>4. PICK f \in Sol(n) : TRUE
  BY <1>3
<1>5. QED BY <1>4 DEF Solves

-----------------------------------------------------------------------------
(* Lists.                                                                  *)

\* The elements of two lists put together.
LEMMA ConcatLists ==
    ASSUME NEW S, NEW a \in Seq(S), NEW b \in Seq(S)
    PROVE  /\ a \o b \in Seq(S) /\ Len(a \o b) = Len(a) + Len(b)
           /\ \A i \in DOMAIN (a \o b) : \/ i \in DOMAIN a /\ (a \o b)[i] = a[i]
                                         \/ i - Len(a) \in DOMAIN b /\ i > Len(a)
                                            /\ (a \o b)[i] = b[i - Len(a)]
           /\ \A i \in DOMAIN a : i \in DOMAIN (a \o b) /\ (a \o b)[i] = a[i]
           /\ \A i \in DOMAIN b : /\ i + Len(a) \in DOMAIN (a \o b)
                                  /\ (a \o b)[i + Len(a)] = b[i]
OBVIOUS

\* Numbers go up along a list that is put behind another with lower numbers.
LEMMA ConcatGoesUp ==
    ASSUME NEW S, NEW a \in Seq(S), NEW b \in Seq(S), GoUp(a), GoUp(b),
           \A i \in DOMAIN a, j \in DOMAIN b : a[i].seq < b[j].seq
    PROVE  GoUp(a \o b)
<1>1. SUFFICES ASSUME NEW i \in DOMAIN (a \o b), NEW j \in DOMAIN (a \o b), i < j
               PROVE  (a \o b)[i].seq < (a \o b)[j].seq
  BY DEF GoUp
<1>2. i \in Nat /\ j \in Nat /\ Len(a) \in Nat
  OBVIOUS
<1>3. CASE i \in DOMAIN a /\ j \in DOMAIN a
  BY <1>1, <1>3, ConcatLists DEF GoUp
<1>4. CASE i \in DOMAIN a /\ j \notin DOMAIN a
  BY <1>4, ConcatLists
<1>5. CASE i \notin DOMAIN a
  <2>1. i > Len(a) /\ i - Len(a) \in DOMAIN b /\ (a \o b)[i] = b[i - Len(a)]
    BY <1>5, ConcatLists
  <2>2. j \notin DOMAIN a
    BY <1>1, <1>2, <2>1
  <2>3. j - Len(a) \in DOMAIN b /\ (a \o b)[j] = b[j - Len(a)]
    BY <2>2, ConcatLists
  <2>4. i - Len(a) < j - Len(a)
    BY <1>1, <1>2
  <2>5. QED BY <2>1, <2>3, <2>4 DEF GoUp
<1>6. QED BY <1>3, <1>4, <1>5

\* Two lists that have nobody in common.
LEMMA ConcatNoneTwice ==
    ASSUME NEW S, NEW a \in Seq(S), NEW b \in Seq(S), NoneTwice(a), NoneTwice(b),
           \A i \in DOMAIN a, j \in DOMAIN b : a[i] # b[j]
    PROVE  NoneTwice(a \o b)
<1>1. SUFFICES ASSUME NEW i \in DOMAIN (a \o b), NEW j \in DOMAIN (a \o b), i # j
               PROVE  (a \o b)[i] # (a \o b)[j]
  BY DEF NoneTwice
<1>2. i \in Nat /\ j \in Nat /\ Len(a) \in Nat
  OBVIOUS
<1>3. CASE i \in DOMAIN a /\ j \in DOMAIN a
  BY <1>1, <1>3, ConcatLists DEF NoneTwice
<1>4. CASE i \in DOMAIN a /\ j \notin DOMAIN a
  BY <1>4, ConcatLists
<1>5. CASE i \notin DOMAIN a /\ j \in DOMAIN a
  BY <1>5, ConcatLists
<1>6. CASE i \notin DOMAIN a /\ j \notin DOMAIN a
  <2>1. /\ i - Len(a) \in DOMAIN b /\ (a \o b)[i] = b[i - Len(a)]
        /\ j - Len(a) \in DOMAIN b /\ (a \o b)[j] = b[j - Len(a)]
    BY <1>6, ConcatLists
  <2>2. i - Len(a) # j - Len(a)
    BY <1>1, <1>2
  <2>3. QED BY <2>1, <2>2 DEF NoneTwice
<1>7. QED BY <1>3, <1>4, <1>5, <1>6

\* The elements of a list with one more at its end.
LEMMA AppendLists ==
    ASSUME NEW S, NEW a \in Seq(S), NEW x \in S
    PROVE  /\ Append(a, x) \in Seq(S) /\ Len(Append(a, x)) = Len(a) + 1
           /\ \A i \in DOMAIN Append(a, x) :
                 \/ i \in DOMAIN a /\ Append(a, x)[i] = a[i]
                 \/ i = Len(a) + 1 /\ Append(a, x)[i] = x
           /\ \A i \in DOMAIN a : i \in DOMAIN Append(a, x) /\ Append(a, x)[i] = a[i]
           /\ Len(a) + 1 \in DOMAIN Append(a, x) /\ Append(a, x)[Len(a) + 1] = x
OBVIOUS

\* A list whose numbers go up, with one more number above them all.
LEMMA AppendGoesUp ==
    ASSUME NEW S, NEW a \in Seq(S), NEW x \in S, GoUp(a), \A i \in DOMAIN a : a[i].seq < x.seq
    PROVE  GoUp(Append(a, x))
<1>1. SUFFICES ASSUME NEW i \in DOMAIN Append(a, x), NEW j \in DOMAIN Append(a, x), i < j
               PROVE  Append(a, x)[i].seq < Append(a, x)[j].seq
  BY DEF GoUp
<1>2. i \in 1 .. Len(a) + 1 /\ j \in 1 .. Len(a) + 1 /\ Len(a) \in Nat
  BY AppendLists
<1>3. i \in DOMAIN a /\ Append(a, x)[i] = a[i]
  <2>1. i # Len(a) + 1
    BY <1>1, <1>2
  <2>2. QED BY <2>1, AppendLists
<1>4. CASE j \in DOMAIN a
  BY <1>1, <1>3, <1>4, AppendLists DEF GoUp
<1>5. CASE j \notin DOMAIN a
  BY <1>3, <1>5, AppendLists
<1>6. QED BY <1>4, <1>5

\* A list that names nobody twice still does not with a new element.
LEMMA AppendNoneTwice ==
    ASSUME NEW S, NEW a \in Seq(S), NEW x \in S, NoneTwice(a), \A i \in DOMAIN a : a[i] # x
    PROVE  NoneTwice(Append(a, x))
<1>1. SUFFICES ASSUME NEW i \in DOMAIN Append(a, x), NEW j \in DOMAIN Append(a, x), i # j
               PROVE  Append(a, x)[i] # Append(a, x)[j]
  BY DEF NoneTwice
<1>2. CASE i \in DOMAIN a /\ j \in DOMAIN a
  BY <1>1, <1>2, AppendLists DEF NoneTwice
<1>3. CASE i \notin DOMAIN a \/ j \notin DOMAIN a
  BY <1>1, <1>3, AppendLists
<1>4. QED BY <1>2, <1>3

\* The elements of a list without its first n.
LEMMA RestLists ==
    ASSUME NEW S, NEW a \in Seq(S), NEW n \in 0 .. Len(a)
    PROVE  /\ Rest(a, n) \in Seq(S) /\ Len(Rest(a, n)) = Len(a) - n
           /\ \A i \in DOMAIN Rest(a, n) :
                 i + n \in DOMAIN a /\ i + n > n /\ Rest(a, n)[i] = a[i + n]
           /\ \A i \in DOMAIN a : i > n => /\ i - n \in DOMAIN Rest(a, n)
                                           /\ Rest(a, n)[i - n] = a[i]
           /\ GoUp(a) => GoUp(Rest(a, n))
<1>1. /\ Rest(a, n) \in Seq(S) /\ Len(Rest(a, n)) = Len(a) - n
      /\ \A i \in 1 .. Len(a) - n : Rest(a, n)[i] = a[i + n]
  BY SubSeqProperties DEF Rest
<1>2. DOMAIN Rest(a, n) = 1 .. Len(a) - n /\ DOMAIN a = 1 .. Len(a) /\ Len(a) \in Nat
  BY <1>1
<1>3. /\ \A i \in DOMAIN Rest(a, n) :
             i + n \in DOMAIN a /\ i + n > n /\ Rest(a, n)[i] = a[i + n]
      /\ \A i \in DOMAIN a : i > n => i - n \in DOMAIN Rest(a, n) /\ Rest(a, n)[i - n] = a[i]
  BY <1>1, <1>2
<1>4. ASSUME GoUp(a), NEW i \in DOMAIN Rest(a, n), NEW j \in DOMAIN Rest(a, n), i < j
      PROVE  Rest(a, n)[i].seq < Rest(a, n)[j].seq
  <2>1. i + n < j + n
    BY <1>2, <1>4
  <2>2. QED BY <1>3, <1>4, <2>1 DEF GoUp
<1>5. QED BY <1>1, <1>3, <1>4 DEF GoUp

\* The first n elements of a list.
LEMMA PrefixLists ==
    ASSUME NEW S, NEW a \in Seq(S), NEW n \in 0 .. Len(a)
    PROVE  /\ Prefix(a, n) \in Seq(S) /\ Len(Prefix(a, n)) = n
           /\ \A i \in DOMAIN Prefix(a, n) : i \in DOMAIN a /\ i <= n /\ Prefix(a, n)[i] = a[i]
           /\ GoUp(a) => GoUp(Prefix(a, n))
<1>1. /\ Prefix(a, n) \in Seq(S) /\ Len(Prefix(a, n)) = n
      /\ \A i \in 1 .. n : Prefix(a, n)[i] = a[i]
  BY SubSeqProperties DEF Prefix
<1>2. DOMAIN Prefix(a, n) = 1 .. n /\ DOMAIN a = 1 .. Len(a) /\ Len(a) \in Nat
  BY <1>1
<1>3. \A i \in DOMAIN Prefix(a, n) : i \in DOMAIN a /\ i <= n /\ Prefix(a, n)[i] = a[i]
  BY <1>1, <1>2
<1>4. QED BY <1>1, <1>3 DEF GoUp

\* The elements of a list without its head.
LEMMA TailLists ==
    ASSUME NEW S, NEW a \in Seq(S), a # << >>
    PROVE  /\ Tail(a) \in Seq(S) /\ Head(a) = a[1] /\ Head(a) \in S /\ 1 \in DOMAIN a
           /\ \A i \in DOMAIN Tail(a) : /\ i + 1 \in DOMAIN a /\ Tail(a)[i] = a[i + 1]
                                        /\ i + 1 # 1 /\ i \in Nat
           /\ \A i \in DOMAIN a : i # 1 => i - 1 \in DOMAIN Tail(a) /\ Tail(a)[i - 1] = a[i]
           /\ NoneTwice(a) => /\ NoneTwice(Tail(a))
                              /\ \A i \in DOMAIN Tail(a) : Tail(a)[i] # Head(a)
<1>1. /\ Tail(a) \in Seq(S) /\ Head(a) = a[1] /\ Head(a) \in S /\ 1 \in DOMAIN a
      /\ DOMAIN Tail(a) = 1 .. Len(a) - 1 /\ DOMAIN a = 1 .. Len(a) /\ Len(a) \in Nat
      /\ \A i \in 1 .. Len(a) - 1 : Tail(a)[i] = a[i + 1]
  OBVIOUS
<1>2. \A i \in DOMAIN Tail(a) : /\ i + 1 \in DOMAIN a /\ Tail(a)[i] = a[i + 1]
                                /\ i + 1 # 1 /\ i \in Nat
  BY <1>1
<1>3. \A i \in DOMAIN a : i # 1 => i - 1 \in DOMAIN Tail(a) /\ Tail(a)[i - 1] = a[i]
  BY <1>1
<1>4. ASSUME NoneTwice(a)
      PROVE  NoneTwice(Tail(a)) /\ \A i \in DOMAIN Tail(a) : Tail(a)[i] # Head(a)
  <2>1. \A i, j \in DOMAIN Tail(a) : i # j => i + 1 # j + 1
    BY <1>1
  <2>2. QED BY <1>1, <1>2, <1>4, <2>1 DEF NoneTwice
<1>5. QED BY <1>1, <1>2, <1>3, <1>4

\* The members of a list.
LEMMA Members ==
    ASSUME NEW S, NEW a \in Seq(S)
    PROVE  /\ ToSet(a) \subseteq S
           /\ \A x \in ToSet(a) : \E i \in DOMAIN a : a[i] = x
           /\ \A i \in DOMAIN a : a[i] \in ToSet(a) /\ a[i] \in S
BY DEF ToSet

\* One value of a function is replaced.
LEMMA Update ==
    ASSUME NEW S, NEW T, NEW f \in [S -> T], NEW k \in S, NEW v \in T
    PROVE  /\ [f EXCEPT ![k] = v] \in [S -> T] /\ [f EXCEPT ![k] = v][k] = v
           /\ \A x \in S : x # k => [f EXCEPT ![k] = v][x] = f[x]
OBVIOUS

-----------------------------------------------------------------------------
(* What one read does.                                                     *)

\* Induction up to n.
LEMMA UpTo ==
    ASSUME NEW n \in Nat, NEW T, 0 \in T, \A i \in 0 .. n - 1 : i \in T => i + 1 \in T
    PROVE  n \in T
<1> DEFINE U == {i \in Nat : i <= n => i \in T}
<1>1. 0 \in U
  OBVIOUS
<1>2. ASSUME NEW i \in Nat, i \in U PROVE i + 1 \in U
  <2>1. CASE i + 1 <= n
    <3>1. i \in 0 .. n - 1 /\ i <= n
      BY <2>1
    <3>2. QED BY <1>2, <3>1
  <2>2. CASE ~(i + 1 <= n)
    BY <2>2
  <2>3. QED BY <2>1, <2>2
<1> HIDE DEF U
<1>3. n \in U
  BY <1>1, <1>2, Induction
<1>4. QED BY <1>3 DEF U

\* The states of a gateway while it goes through a read.
GatewayStates == [exp : Nat, got : Seq(Nat)]

\* recvCallback of a gateway takes one response after the other.
LEMMA ReceivedSteps ==
    ASSUME TypeOK, NEW c \in Clients, NEW arrived \in Seq(Responses), NEW n \in 0 .. Len(arrived)
    PROVE  \E st \in [0 .. n -> GatewayStates] :
              /\ st[0] = [exp |-> next_exp_seq_num_[c], got |-> delivered[c]]
              /\ \A i \in 1 .. n : st[i] = AcceptResponse(c, st[i - 1], arrived[i])
              /\ Received(c, arrived, n) = st[n]
<1> DEFINE base == [exp |-> next_exp_seq_num_[c], got |-> delivered[c]]
           step == [k \in 1 .. n |-> [v \in GatewayStates |-> AcceptResponse(c, v, arrived[k])]]
<1>1. base \in GatewayStates
  BY DEF TypeOK, GatewayStates
<1>2. n \in Nat
  OBVIOUS
<1>3. ASSUME NEW i \in 1 .. n, NEW v \in GatewayStates
      PROVE  AcceptResponse(c, v, arrived[i]) \in GatewayStates
  <2>1. arrived[i] \in Responses
    BY <1>2
  <2>2. QED BY <2>1 DEF AcceptResponse, GatewayStates, Responses
<1>4. step \in Steps(GatewayStates, n)
  BY <1>3 DEF Steps
<1>5. PICK g : Solves(g, GatewayStates, base, n, step)
  <2> HIDE DEF step, base
  <2>1. QED BY <1>1, <1>2, <1>4, Recursion
<1>6. /\ g \in [0 .. n -> GatewayStates] /\ g[0] = base
      /\ \A i \in 1 .. n : g[i] = AcceptResponse(c, g[i - 1], arrived[i])
  <2>1. /\ g \in [0 .. n -> GatewayStates] /\ g[0] = base
        /\ \A k \in 1 .. n : g[k] = step[k][g[k - 1]]
    BY <1>5 DEF Solves
  <2>2. ASSUME NEW i \in 1 .. n PROVE g[i] = AcceptResponse(c, g[i - 1], arrived[i])
    <3>1. i - 1 \in 0 .. n
      BY <1>2
    <3>2. g[i - 1] \in GatewayStates
      BY <2>1, <3>1
    <3>3. QED BY <2>1, <3>2
  <2>3. QED BY <2>1, <2>2
<1> HIDE DEF step
<1>7. ASSUME NEW i \in 0 .. n
      PROVE  g[i] = IF i = 0 THEN base ELSE AcceptResponse(c, g[i - 1], arrived[i])
  BY <1>6
<1>8. g = [i \in 0 .. n |-> IF i = 0 THEN base ELSE AcceptResponse(c, g[i - 1], arrived[i])]
  BY <1>6, <1>7
<1> DEFINE h == CHOOSE f : f = [i \in 0 .. n |-> IF i = 0 THEN base
                                         ELSE AcceptResponse(c, f[i - 1], arrived[i])]
<1>9. h = [i \in 0 .. n |-> IF i = 0 THEN base ELSE AcceptResponse(c, h[i - 1], arrived[i])]
  BY <1>8
<1>10. Received(c, arrived, n) = h[n]
  BY DEF Received
<1> HIDE DEF h, base
<1>11. \A i \in 0 .. n : h[i] = g[i]
  <2> DEFINE T == {i \in 0 .. n : h[i] = g[i]}
  <2>1. 0 \in T
    BY <1>2, <1>6, <1>9
  <2>2. ASSUME NEW i \in 0 .. n - 1, i \in T PROVE i + 1 \in T
    <3>1. i + 1 \in 0 .. n /\ i + 1 # 0 /\ (i + 1) - 1 = i
      BY <1>2
    <3>2. QED BY <1>7, <1>9, <2>2, <3>1
  <2>3. ASSUME NEW m \in 0 .. n PROVE m \in T
    <3>1. \A i \in 0 .. m - 1 : i \in T => i + 1 \in T
      BY <1>2, <2>2
    <3> HIDE DEF T
    <3>2. QED BY <1>2, <2>1, <3>1, UpTo
  <2>4. QED BY <2>3
<1>12. QED BY <1>2, <1>6, <1>10, <1>11 DEF base

\* A gateway passes on the numbers from 1, in order, and does not get past a
\* number that does not arrive.
LEMMA Reading ==
    ASSUME TypeOK, NEW c \in Clients, NEW arrived \in Seq(Responses), NEW n \in 0 .. Len(arrived),
           \A i \in DOMAIN arrived : arrived[i].id = arrived[i].seq,
           Len(delivered[c]) = next_exp_seq_num_[c] - 1,
           \A i \in DOMAIN delivered[c] : delivered[c][i] = i,
           NEW Later \in SUBSET Nat,
           \A x \in Later : /\ next_exp_seq_num_[c] <= x
                            /\ \A i \in 1 .. n : arrived[i].seq # x
    PROVE  /\ Received(c, arrived, n).exp \in Nat \ {0}
           /\ Received(c, arrived, n).got \in Seq(Nat)
           /\ Len(Received(c, arrived, n).got) = Received(c, arrived, n).exp - 1
           /\ \A i \in DOMAIN Received(c, arrived, n).got : Received(c, arrived, n).got[i] = i
           /\ \A x \in Later : Received(c, arrived, n).exp <= x
<1>0. n \in Nat
  OBVIOUS
<1>1. PICK st \in [0 .. n -> GatewayStates] :
         /\ st[0] = [exp |-> next_exp_seq_num_[c], got |-> delivered[c]]
         /\ \A i \in 1 .. n : st[i] = AcceptResponse(c, st[i - 1], arrived[i])
         /\ Received(c, arrived, n) = st[n]
  BY ReceivedSteps
<1> DEFINE J(v) == /\ v.exp \in Nat \ {0} /\ v.got \in Seq(Nat) /\ Len(v.got) = v.exp - 1
                   /\ \A i \in DOMAIN v.got : v.got[i] = i
                   /\ \A x \in Later : v.exp <= x
           T == {i \in 0 .. n : J(st[i])}
<1>2. 0 \in T
  <2>1. next_exp_seq_num_[c] \in Nat \ {0} /\ delivered[c] \in Seq(Nat)
    BY DEF TypeOK
  <2>2. J(st[0])
    BY <1>1, <2>1
  <2>3. QED BY <1>0, <2>2
<1>3. ASSUME NEW i \in 0 .. n - 1, i \in T PROVE i + 1 \in T
  <2>1. i + 1 \in 0 .. n /\ i + 1 \in 1 .. n /\ (i + 1) - 1 = i /\ i + 1 \in DOMAIN arrived
    BY <1>0
  <2> DEFINE v == st[i]
             r == arrived[i + 1]
             w == st[i + 1]
  <2>2. J(v) /\ w = AcceptResponse(c, v, r)
    BY <1>1, <1>3, <2>1
  <2>3. r.id = r.seq /\ \A x \in Later : r.seq # x
    BY <2>1
  <2> HIDE DEF v, r, w
  <2>4. CASE r.client # c \/ r.seq # v.exp
    <3>1. w = v
      BY <2>2, <2>4 DEF AcceptResponse
    <3>2. QED BY <2>1, <2>2, <3>1 DEF w
  <2>5. CASE ~(r.client # c \/ r.seq # v.exp)
    <3>1. w.exp = v.exp + 1 /\ w.got = Append(v.got, r.id) /\ r.id = v.exp
      BY <2>2, <2>3, <2>5 DEF AcceptResponse
    <3>2. /\ v.exp \in Nat \ {0} /\ v.got \in Seq(Nat) /\ Len(v.got) = v.exp - 1
          /\ r.id \in Nat
      BY <2>2, <3>1
    <3>3. w.got \in Seq(Nat) /\ Len(w.got) = v.exp /\ \A j \in DOMAIN w.got : w.got[j] = j
      <4>1. /\ w.got \in Seq(Nat) /\ Len(w.got) = Len(v.got) + 1
            /\ \A j \in DOMAIN w.got : \/ j \in DOMAIN v.got /\ w.got[j] = v.got[j]
                                       \/ j = Len(v.got) + 1 /\ w.got[j] = r.id
        BY <3>1, <3>2, AppendLists
      <4>2. Len(v.got) + 1 = v.exp
        BY <3>2
      <4>3. QED BY <2>2, <3>1, <4>1, <4>2
    <3>4. \A x \in Later : w.exp <= x
      <4>1. ASSUME NEW x \in Later PROVE v.exp + 1 <= x
        <5>1. x \in Nat /\ v.exp <= x /\ v.exp # x
          BY <2>2, <2>3, <2>5
        <5>2. QED BY <3>2, <5>1
      <4>2. QED BY <3>1, <4>1
    <3>5. J(w)
      BY <3>1, <3>2, <3>3, <3>4
    <3>6. QED BY <2>1, <3>5 DEF w
  <2>6. QED BY <2>4, <2>5
<1>4. n \in T
  <2> HIDE DEF T
  <2>1. QED BY <1>0, <1>2, <1>3, UpTo
<1>5. QED BY <1>1, <1>4

\* The states of the server while it goes through a read.
PendingRecords == [recv_time_ : Stamps, request_ : Requests]
ServerStates == [socket : [Clients -> Sockets \cup {NoSocket}],
                 exp : [Clients -> 1 .. MaxRequests + 1],
                 pending : Seq(PendingRecords), aborted : {"no", "full"}]

\* One request: it is counted and kept, or it ends the process, or it only
\* binds its socket.
LEMMA AcceptOne ==
    ASSUME NEW s \in Sockets, NEW t \in Stamps, NEW v \in ServerStates, NEW r \in Requests,
           r.client = s[1]
    PROVE  /\ AcceptRequest(s, t, v, r) \in ServerStates
           /\ AcceptRequest(s, t, v, r).socket =
                 IF v.aborted = "no" THEN Bind(v.socket, s, s[1]) ELSE v.socket
           /\ \/ /\ AcceptRequest(s, t, v, r).exp = v.exp
                 /\ AcceptRequest(s, t, v, r).pending = v.pending
                 /\ AcceptRequest(s, t, v, r).aborted = v.aborted
              \/ /\ v.aborted = "no" /\ AcceptRequest(s, t, v, r).socket[s[1]] = s
                 /\ r.seq = v.exp[s[1]]
                 /\ AcceptRequest(s, t, v, r).exp = [v.exp EXCEPT ![s[1]] = @ + 1]
                 /\ \/ /\ AcceptRequest(s, t, v, r).aborted = "full"
                       /\ AcceptRequest(s, t, v, r).pending = v.pending
                    \/ /\ AcceptRequest(s, t, v, r).aborted = "no" /\ Len(v.pending) < MaxPending
                       /\ AcceptRequest(s, t, v, r).pending =
                             Append(v.pending, [recv_time_ |-> t, request_ |-> r])
<1> DEFINE c     == s[1]
           w     == AcceptRequest(s, t, v, r)
           owner == Bind(v.socket, s, c)
           bound == [v EXCEPT !.socket = owner]
           exp   == [v.exp EXCEPT ![c] = @ + 1]
           more  == [bound EXCEPT !.exp[c] = @ + 1]
           kept  == Append(v.pending, [recv_time_ |-> t, request_ |-> r])
<1>1. /\ v.socket \in [Clients -> Sockets \cup {NoSocket}] /\ v.exp \in [Clients -> 1 .. MaxRequests + 1]
      /\ v.pending \in Seq(PendingRecords) /\ v.aborted \in {"no", "full"} /\ c \in Clients
      /\ r.seq \in 1 .. MaxRequests /\ MaxRequests \in Nat /\ MaxPending \in Nat
  BY CountsAssumption DEF ServerStates, Sockets, Requests
<1>2. owner \in [Clients -> Sockets \cup {NoSocket}]
  BY <1>1 DEF Bind
<1>3. [recv_time_ |-> t, request_ |-> r] \in PendingRecords
  BY DEF PendingRecords
<1>4. kept \in Seq(PendingRecords)
  BY <1>1, <1>3
<1> HIDE DEF owner, kept
<1>5. /\ bound \in ServerStates /\ bound.socket = owner /\ bound.exp = v.exp
      /\ bound.pending = v.pending /\ bound.aborted = v.aborted
  BY <1>1, <1>2 DEF ServerStates
<1>6. CASE v.aborted # "no"
  BY <1>6 DEF AcceptRequest
<1>7. CASE v.aborted = "no" /\ (owner[c] # s \/ r.seq # v.exp[c])
  <2>1. w = bound
    BY <1>5, <1>7 DEF AcceptRequest, InSequence, owner
  <2>2. QED BY <1>5, <1>7, <2>1 DEF owner
<1>8. CASE v.aborted = "no" /\ owner[c] = s /\ r.seq = v.exp[c]
  <2>1. w = addClientRequest(more, t, r)
    BY <1>5, <1>8 DEF AcceptRequest, InSequence, owner
  <2>2. exp \in [Clients -> 1 .. MaxRequests + 1]
    <3>1. v.exp[c] + 1 \in 1 .. MaxRequests + 1
      BY <1>1, <1>8
    <3>2. QED BY <1>1, <3>1
  <2>3. /\ more \in ServerStates /\ more.socket = owner /\ more.exp = exp
        /\ more.pending = v.pending /\ more.aborted = "no"
    <3>1. more = [bound EXCEPT !.exp = exp]
      BY <1>5
    <3> HIDE DEF exp, bound, more
    <3>2. QED BY <1>5, <1>8, <2>2, <3>1 DEF ServerStates
  <2> HIDE DEF more, exp
  <2>4. CASE Len(v.pending) >= MaxPending
    <3>1. w = [more EXCEPT !.aborted = "full"]
      BY <2>1, <2>3, <2>4 DEF addClientRequest
    <3>2. /\ w \in ServerStates /\ w.socket = owner /\ w.exp = exp /\ w.pending = v.pending
          /\ w.aborted = "full"
      BY <2>3, <3>1 DEF ServerStates
    <3> HIDE DEF w
    <3>3. QED BY <1>8, <3>2 DEF owner, w, exp
  <2>5. CASE ~(Len(v.pending) >= MaxPending)
    <3>1. w = [more EXCEPT !.pending = kept]
      BY <2>1, <2>3, <2>5 DEF addClientRequest, kept
    <3>2. /\ w \in ServerStates /\ w.socket = owner /\ w.exp = exp /\ w.pending = kept
          /\ w.aborted = "no"
      BY <1>4, <2>3, <3>1 DEF ServerStates
    <3>3. Len(v.pending) < MaxPending
      BY <1>1, <2>5
    <3> HIDE DEF w
    <3>4. QED BY <1>8, <3>2, <3>3 DEF owner, w, exp, kept
  <2>6. QED BY <2>4, <2>5
<1>9. QED BY <1>1, <1>6, <1>7, <1>8

\* The reads of the server step by step.
LEMMA AcceptedSteps ==
    ASSUME TypeOK, NEW s \in Sockets, NEW t \in Stamps, NEW arrived \in Seq(Requests),
           NEW n \in 0 .. Len(arrived), \A i \in DOMAIN arrived : arrived[i].client = s[1]
    PROVE  \E st \in [0 .. n -> ServerStates] :
              /\ st[0] = [socket |-> cid_tcp_socket_, exp |-> cid_next_exp_seq_num_,
                         pending |-> pending_client_requests_, aborted |-> "no"]
              /\ \A i \in 1 .. n : st[i] = AcceptRequest(s, t, st[i - 1], arrived[i])
              /\ Accepted(s, t, arrived, n) = st[n]
<1> DEFINE base == [socket |-> cid_tcp_socket_, exp |-> cid_next_exp_seq_num_,
                         pending |-> pending_client_requests_, aborted |-> "no"]
           step == [k \in 1 .. n |-> [v \in ServerStates |-> AcceptRequest(s, t, v, arrived[k])]]
<1>1. base \in ServerStates
  BY DEF TypeOK, ServerStates, PendingRecords
<1>2. n \in Nat
  OBVIOUS
<1>3. ASSUME NEW i \in 1 .. n, NEW v \in ServerStates
      PROVE  AcceptRequest(s, t, v, arrived[i]) \in ServerStates
  <2>1. arrived[i] \in Requests /\ arrived[i].client = s[1]
    BY <1>2
  <2>2. QED BY <2>1, AcceptOne
<1>4. step \in Steps(ServerStates, n)
  BY <1>3 DEF Steps
<1>5. PICK g : Solves(g, ServerStates, base, n, step)
  <2> HIDE DEF step, base
  <2>1. QED BY <1>1, <1>2, <1>4, Recursion
<1>6. /\ g \in [0 .. n -> ServerStates] /\ g[0] = base
      /\ \A i \in 1 .. n : g[i] = AcceptRequest(s, t, g[i - 1], arrived[i])
  <2>1. /\ g \in [0 .. n -> ServerStates] /\ g[0] = base
        /\ \A k \in 1 .. n : g[k] = step[k][g[k - 1]]
    BY <1>5 DEF Solves
  <2>2. ASSUME NEW i \in 1 .. n PROVE g[i] = AcceptRequest(s, t, g[i - 1], arrived[i])
    <3>1. i - 1 \in 0 .. n
      BY <1>2
    <3>2. g[i - 1] \in ServerStates
      BY <2>1, <3>1
    <3>3. QED BY <2>1, <3>2
  <2>3. QED BY <2>1, <2>2
<1> HIDE DEF step
<1>7. ASSUME NEW i \in 0 .. n
      PROVE  g[i] = IF i = 0 THEN base ELSE AcceptRequest(s, t, g[i - 1], arrived[i])
  BY <1>6
<1>8. g = [i \in 0 .. n |-> IF i = 0 THEN base ELSE AcceptRequest(s, t, g[i - 1], arrived[i])]
  BY <1>6, <1>7
<1> DEFINE h == CHOOSE f : f = [i \in 0 .. n |-> IF i = 0 THEN base
                                         ELSE AcceptRequest(s, t, f[i - 1], arrived[i])]
<1>9. h = [i \in 0 .. n |-> IF i = 0 THEN base ELSE AcceptRequest(s, t, h[i - 1], arrived[i])]
  BY <1>8
<1>10. Accepted(s, t, arrived, n) = h[n]
  BY DEF Accepted
<1> HIDE DEF h, base
<1>11. \A i \in 0 .. n : h[i] = g[i]
  <2> DEFINE T == {i \in 0 .. n : h[i] = g[i]}
  <2>1. 0 \in T
    BY <1>2, <1>6, <1>9
  <2>2. ASSUME NEW i \in 0 .. n - 1, i \in T PROVE i + 1 \in T
    <3>1. i + 1 \in 0 .. n /\ i + 1 # 0 /\ (i + 1) - 1 = i
      BY <1>2
    <3>2. QED BY <1>7, <1>9, <2>2, <3>1
  <2>3. ASSUME NEW m \in 0 .. n PROVE m \in T
    <3>1. \A i \in 0 .. m - 1 : i \in T => i + 1 \in T
      BY <1>2, <2>2
    <3> HIDE DEF T
    <3>2. QED BY <1>2, <2>1, <3>1, UpTo
  <2>4. QED BY <2>3
<1>12. QED BY <1>2, <1>6, <1>10, <1>11 DEF base

\* The sockets that are kept, one by one.
LEMMA WithoutSteps ==
    ASSUME NEW list \in Seq(Sockets), NEW gone, NEW n, n = Len(list)
    PROVE  \E st \in [0 .. n -> Seq(Sockets)] :
              /\ st[0] = << >>
              /\ \A i \in 1 .. n :
                    st[i] = IF list[i] \in gone THEN st[i - 1] ELSE Append(st[i - 1], list[i])
              /\ Without(list, gone) = st[n]
<1> DEFINE base == << >>
           keep(v, i) == IF list[i] \in gone THEN v ELSE Append(v, list[i])
           step == [k \in 1 .. n |-> [v \in Seq(Sockets) |-> keep(v, k)]]
<1>1. base \in Seq(Sockets)
  OBVIOUS
<1>2. n \in Nat
  OBVIOUS
<1>3. ASSUME NEW i \in 1 .. n, NEW v \in Seq(Sockets)
      PROVE  keep(v, i) \in Seq(Sockets)
  <2>1. list[i] \in Sockets
    BY <1>2
  <2>2. QED BY <2>1
<1>4. step \in Steps(Seq(Sockets), n)
  BY <1>3 DEF Steps
<1>5. PICK g : Solves(g, Seq(Sockets), base, n, step)
  <2> HIDE DEF step, base
  <2>1. QED BY <1>1, <1>2, <1>4, Recursion
<1>6. /\ g \in [0 .. n -> Seq(Sockets)] /\ g[0] = base
      /\ \A i \in 1 .. n : g[i] = keep(g[i - 1], i)
  <2>1. /\ g \in [0 .. n -> Seq(Sockets)] /\ g[0] = base
        /\ \A k \in 1 .. n : g[k] = step[k][g[k - 1]]
    BY <1>5 DEF Solves
  <2>2. ASSUME NEW i \in 1 .. n PROVE g[i] = keep(g[i - 1], i)
    <3>1. i - 1 \in 0 .. n
      BY <1>2
    <3>2. g[i - 1] \in Seq(Sockets)
      BY <2>1, <3>1
    <3>3. QED BY <2>1, <3>2
  <2>3. QED BY <2>1, <2>2
<1> HIDE DEF step, keep
<1>7. ASSUME NEW i \in 0 .. n
      PROVE  g[i] = IF i = 0 THEN base ELSE keep(g[i - 1], i)
  BY <1>6
<1>8. g = [i \in 0 .. n |-> IF i = 0 THEN base ELSE keep(g[i - 1], i)]
  BY <1>6, <1>7
<1> DEFINE h == CHOOSE f : f = [i \in 0 .. n |-> IF i = 0 THEN base
                                         ELSE keep(f[i - 1], i)]
<1>9. h = [i \in 0 .. n |-> IF i = 0 THEN base ELSE keep(h[i - 1], i)]
  BY <1>8
<1>10. Without(list, gone) = h[n]
  BY DEF Without, keep
<1> HIDE DEF h, base
<1>11. \A i \in 0 .. n : h[i] = g[i]
  <2> DEFINE T == {i \in 0 .. n : h[i] = g[i]}
  <2>1. 0 \in T
    BY <1>2, <1>6, <1>9
  <2>2. ASSUME NEW i \in 0 .. n - 1, i \in T PROVE i + 1 \in T
    <3>1. i + 1 \in 0 .. n /\ i + 1 # 0 /\ (i + 1) - 1 = i
      BY <1>2
    <3>2. QED BY <1>7, <1>9, <2>2, <3>1
  <2>3. ASSUME NEW m \in 0 .. n PROVE m \in T
    <3>1. \A i \in 0 .. m - 1 : i \in T => i + 1 \in T
      BY <1>2, <2>2
    <3> HIDE DEF T
    <3>2. QED BY <1>2, <2>1, <3>1, UpTo
  <2>4. QED BY <2>3
<1>12. QED BY <1>2, <1>6, <1>10, <1>11 DEF base, keep

\* The sockets that are kept are sockets of the list, none twice.
LEMMA WithoutKeeps ==
    ASSUME NEW list \in Seq(Sockets), NEW gone
    PROVE  /\ Without(list, gone) \in Seq(Sockets)
           /\ \A i \in DOMAIN Without(list, gone) :
                 \E j \in DOMAIN list : list[j] = Without(list, gone)[i]
           /\ NoneTwice(list) => NoneTwice(Without(list, gone))
<1> DEFINE n == Len(list)
<1>0. n \in Nat /\ DOMAIN list = 1 .. n /\ n = Len(list)
  OBVIOUS
<1> HIDE DEF n
<1>1. PICK st \in [0 .. n -> Seq(Sockets)] :
         /\ st[0] = << >>
         /\ \A i \in 1 .. n : st[i] = IF list[i] \in gone THEN st[i - 1]
                                      ELSE Append(st[i - 1], list[i])
         /\ Without(list, gone) = st[n]
  BY <1>0, WithoutSteps
<1> DEFINE J(i) == /\ \A k \in DOMAIN st[i] : \E j \in 1 .. i : list[j] = st[i][k]
                   /\ NoneTwice(list) => NoneTwice(st[i])
           T == {i \in 0 .. n : J(i)}
<1>2. 0 \in T
  BY <1>0, <1>1 DEF NoneTwice
<1>3. ASSUME NEW i \in 0 .. n - 1, i \in T PROVE i + 1 \in T
  <2>1. /\ i + 1 \in 0 .. n /\ i + 1 \in 1 .. n /\ (i + 1) - 1 = i /\ i \in 0 .. n
        /\ \A j \in 1 .. i : j \in 1 .. i + 1 /\ j # i + 1 /\ j \in 1 .. n
    BY <1>0
  <2> DEFINE a == st[i]
             x == list[i + 1]
             b == st[i + 1]
  <2>2. a \in Seq(Sockets) /\ x \in Sockets /\ b = IF x \in gone THEN a ELSE Append(a, x)
    BY <1>0, <1>1, <2>1
  <2>3. /\ \A k \in DOMAIN a : \E j \in 1 .. i : list[j] = a[k]
        /\ NoneTwice(list) => NoneTwice(a)
    BY <1>3
  <2> HIDE DEF a, b
  <2>4. \A k \in DOMAIN b : \E j \in 1 .. i + 1 : list[j] = b[k]
    <3>1. CASE x \in gone
      BY <2>1, <2>2, <2>3, <3>1
    <3>2. CASE x \notin gone
      <4>1. \A k \in DOMAIN b : (k \in DOMAIN a /\ b[k] = a[k]) \/ b[k] = x
        BY <2>2, <3>2, AppendLists
      <4>2. i + 1 \in 1 .. i + 1
        BY <1>0
      <4>3. QED BY <2>1, <2>3, <4>1, <4>2
    <3>3. QED BY <3>1, <3>2
  <2>5. ASSUME NoneTwice(list) PROVE NoneTwice(b)
    <3>1. CASE x \in gone
      BY <2>2, <2>3, <2>5, <3>1
    <3>2. CASE x \notin gone
      <4>1. \A k \in DOMAIN a : a[k] # x
        BY <1>0, <2>1, <2>3, <2>5 DEF NoneTwice
      <4>2. QED BY <2>2, <2>3, <2>5, <3>2, <4>1, AppendNoneTwice
    <3>3. QED BY <3>1, <3>2
  <2>6. QED BY <2>1, <2>4, <2>5 DEF b
<1>4. n \in T
  <2> HIDE DEF T
  <2>1. QED BY <1>0, <1>2, <1>3, UpTo
<1>5. st[n] \in Seq(Sockets)
  BY <1>0, <1>1
<1>6. QED BY <1>0, <1>1, <1>4, <1>5

\* What a read of s adds to the pending requests: the numbers from the counter
\* of its client on.
Taken(s, t, j) ==
    [recv_time_ |-> t,
     request_ |-> [client |-> s[1], run |-> s[2],
                   seq |-> cid_next_exp_seq_num_[s[1]] + (j - Len(pending_client_requests_)) - 1]]

\* The server after a read of s.
Served(st, s, t, Later) ==
    LET c == s[1]
        p == pending_client_requests_
    IN  /\ \A d \in Clients : d # c => /\ st.socket[d] = cid_tcp_socket_[d]
                                       /\ st.exp[d] = cid_next_exp_seq_num_[d]
        /\ cid_tcp_socket_[c] # NoSocket => st.socket[c] = cid_tcp_socket_[c]
        /\ st.socket[c] \in {cid_tcp_socket_[c], s}
        /\ st.socket[c] # s => st.exp[c] = cid_next_exp_seq_num_[c] /\ st.pending = p
        /\ st.socket[c] = s => \A x \in Later : st.exp[c] <= x
        /\ Len(p) <= Len(st.pending) /\ Len(st.pending) <= MaxPending
        /\ \A j \in DOMAIN p : st.pending[j] = p[j]
        /\ \A j \in DOMAIN st.pending : j > Len(p) => st.pending[j] = Taken(s, t, j)
        /\ cid_next_exp_seq_num_[c] + (Len(st.pending) - Len(p)) <= st.exp[c]
        /\ st.aborted = "no" =>
              cid_next_exp_seq_num_[c] + (Len(st.pending) - Len(p)) = st.exp[c]

\* One more request.
LEMMA ServedOne ==
    ASSUME TypeOK, NEW s \in Sockets, NEW t \in Stamps, NEW v \in ServerStates, NEW r \in Requests,
           r.client = s[1], r.run = s[2], NEW Later \in SUBSET Nat, Served(v, s, t, Later),
           cid_tcp_socket_[s[1]] \in {s, NoSocket} =>
               \A x \in Later : cid_next_exp_seq_num_[s[1]] <= x,
           \A x \in Later : r.seq # x
    PROVE  Served(AcceptRequest(s, t, v, r), s, t, Later)
<1> DEFINE c == s[1]
           p == pending_client_requests_
           w == AcceptRequest(s, t, v, r)
           e == cid_next_exp_seq_num_[c]
<1>1. /\ c \in Clients /\ e \in Nat /\ p \in Seq(PendingRecords) /\ Len(p) <= MaxPending
      /\ MaxPending \in Nat /\ MaxRequests \in Nat /\ Len(p) \in Nat /\ s # NoSocket
  <2>1. s # NoSocket
    BY NoSocketAssumption
  <2>2. c \in Clients /\ MaxPending \in Nat /\ MaxRequests \in Nat
    BY CountsAssumption DEF Sockets
  <2>3. e \in 1 .. MaxRequests + 1 /\ p \in Seq(PendingRecords) /\ Len(p) <= MaxPending
    BY <2>2 DEF TypeOK, PendingRecords
  <2>4. QED BY <2>1, <2>2, <2>3
<1>2. /\ w \in ServerStates
      /\ w.socket = IF v.aborted = "no" THEN Bind(v.socket, s, c) ELSE v.socket
      /\ \/ w.exp = v.exp /\ w.pending = v.pending /\ w.aborted = v.aborted
         \/ /\ v.aborted = "no" /\ w.socket[c] = s /\ r.seq = v.exp[c]
            /\ w.exp = [v.exp EXCEPT ![c] = @ + 1]
            /\ \/ w.aborted = "full" /\ w.pending = v.pending
               \/ /\ w.aborted = "no" /\ Len(v.pending) < MaxPending
                  /\ w.pending = Append(v.pending, [recv_time_ |-> t, request_ |-> r])
  BY AcceptOne
<1> HIDE DEF w
<1>3. /\ v.socket \in [Clients -> Sockets \cup {NoSocket}] /\ v.exp \in [Clients -> 1 .. MaxRequests + 1]
      /\ v.pending \in Seq(PendingRecords) /\ v.exp[c] \in Nat
      /\ w.exp \in [Clients -> 1 .. MaxRequests + 1] /\ w.pending \in Seq(PendingRecords)
      /\ Len(v.pending) \in Nat /\ Len(w.pending) \in Nat
  BY <1>1, <1>2 DEF ServerStates
<1>4. /\ \A d \in Clients : d # c => v.socket[d] = cid_tcp_socket_[d] /\ v.exp[d] = cid_next_exp_seq_num_[d]
      /\ cid_tcp_socket_[c] # NoSocket => v.socket[c] = cid_tcp_socket_[c]
      /\ v.socket[c] \in {cid_tcp_socket_[c], s}
      /\ v.socket[c] # s => v.exp[c] = e /\ v.pending = p
      /\ v.socket[c] = s => \A x \in Later : v.exp[c] <= x
      /\ Len(p) <= Len(v.pending) /\ Len(v.pending) <= MaxPending
      /\ \A j \in DOMAIN p : v.pending[j] = p[j]
      /\ \A j \in DOMAIN v.pending : j > Len(p) => v.pending[j] = Taken(s, t, j)
      /\ e + (Len(v.pending) - Len(p)) <= v.exp[c]
      /\ v.aborted = "no" => e + (Len(v.pending) - Len(p)) = v.exp[c]
  BY DEF Served
<1>5. /\ \A d \in Clients : d # c => w.socket[d] = cid_tcp_socket_[d]
      /\ cid_tcp_socket_[c] # NoSocket => w.socket[c] = cid_tcp_socket_[c]
      /\ w.socket[c] \in {cid_tcp_socket_[c], s}
      /\ w.socket[c] # s => v.socket[c] # s
      /\ w.socket[c] = s => v.socket[c] = s \/ v.socket[c] = NoSocket
  BY <1>1, <1>2, <1>3, <1>4 DEF Bind
<1>6. w.socket[c] = s => \A x \in Later : v.exp[c] <= x
  <2>1. CASE v.socket[c] = s
    BY <1>4, <2>1
  <2>2. CASE v.socket[c] # s /\ w.socket[c] = s
    <3>1. v.socket[c] = NoSocket /\ v.exp[c] = e
      BY <1>4, <1>5, <2>2
    <3>2. cid_tcp_socket_[c] = NoSocket
      BY <1>4, <2>2, <3>1
    <3>3. QED BY <3>1, <3>2
  <2>3. QED BY <2>1, <2>2
<1>7. CASE w.exp = v.exp /\ w.pending = v.pending /\ w.aborted = v.aborted
  BY <1>4, <1>5, <1>6, <1>7 DEF Served, w
<1>8. CASE /\ v.aborted = "no" /\ w.socket[c] = s /\ r.seq = v.exp[c]
           /\ w.exp = [v.exp EXCEPT ![c] = @ + 1]
  <2>1. w.exp[c] = v.exp[c] + 1 /\ \A d \in Clients : d # c => w.exp[d] = v.exp[d]
    BY <1>1, <1>3, <1>8
  <2>2. \A x \in Later : w.exp[c] <= x
    <3>1. ASSUME NEW x \in Later PROVE v.exp[c] + 1 <= x
      <4>1. v.exp[c] <= x /\ x # v.exp[c] /\ x \in Nat
        BY <1>6, <1>8
      <4>2. QED BY <1>3, <4>1
    <3>2. QED BY <2>1, <3>1
  <2>3. CASE w.aborted = "full" /\ w.pending = v.pending
    <3>1. e + (Len(w.pending) - Len(p)) <= w.exp[c]
      BY <1>1, <1>3, <1>4, <2>1, <2>3
    <3>2. QED BY <1>4, <1>5, <1>8, <2>1, <2>2, <2>3, <3>1 DEF Served, w
  <2>4. CASE /\ w.aborted = "no" /\ Len(v.pending) < MaxPending
             /\ w.pending = Append(v.pending, [recv_time_ |-> t, request_ |-> r])
    <3> DEFINE new == [recv_time_ |-> t, request_ |-> r]
    <3>1. new \in PendingRecords
      BY DEF PendingRecords
    <3>2. /\ Len(w.pending) = Len(v.pending) + 1
          /\ \A j \in DOMAIN w.pending : \/ j \in DOMAIN v.pending /\ w.pending[j] = v.pending[j]
                                         \/ j = Len(v.pending) + 1 /\ w.pending[j] = new
          /\ \A j \in DOMAIN v.pending : w.pending[j] = v.pending[j]
      <4> HIDE DEF new
      <4>1. QED BY <1>3, <2>4, <3>1, AppendLists DEF new
    <3>3. e + (Len(w.pending) - Len(p)) = w.exp[c]
      <4>1. e + (Len(v.pending) - Len(p)) = v.exp[c] /\ w.exp[c] = v.exp[c] + 1
        BY <1>4, <1>8, <2>1
      <4>2. Len(w.pending) = Len(v.pending) + 1
        BY <3>2
      <4> HIDE DEF e, p
      <4>3. QED BY <1>1, <1>3, <4>1, <4>2
    <3>4. /\ Len(p) <= Len(w.pending) /\ Len(w.pending) <= MaxPending
          /\ DOMAIN p \subseteq DOMAIN v.pending
      BY <1>1, <1>3, <1>4, <2>4, <3>2
    <3>5. new = Taken(s, t, Len(v.pending) + 1)
      <4>1. r = [client |-> s[1], run |-> s[2], seq |-> r.seq]
        BY DEF Requests
      <4>2. r.seq = e + ((Len(v.pending) + 1) - Len(p)) - 1
        BY <1>1, <1>3, <1>4, <1>8
      <4>3. QED BY <4>1, <4>2 DEF Taken
    <3> HIDE DEF new
    <3>6. \A j \in DOMAIN w.pending : j > Len(p) => w.pending[j] = Taken(s, t, j)
      BY <1>4, <3>2, <3>5
    <3>7. \A j \in DOMAIN p : w.pending[j] = p[j]
      BY <1>4, <3>2, <3>4
    <3>8. e + (Len(w.pending) - Len(p)) <= w.exp[c]
      BY <1>1, <1>3, <2>1, <3>3
    <3>9. QED BY <1>4, <1>5, <1>8, <2>1, <2>2, <3>3, <3>4, <3>6, <3>7, <3>8 DEF Served, w
  <2>5. w.exp # v.exp
    BY <1>3, <2>1
  <2>6. QED BY <1>2, <2>3, <2>4, <2>5
<1>9. QED BY <1>2, <1>7, <1>8

\* The whole read.
LEMMA Accepting ==
    ASSUME TypeOK, NEW s \in Sockets, NEW t \in Stamps, NEW arrived \in Seq(Requests),
           NEW n \in 0 .. Len(arrived),
           \A i \in DOMAIN arrived : arrived[i].client = s[1] /\ arrived[i].run = s[2],
           NEW Later \in SUBSET Nat,
           cid_tcp_socket_[s[1]] \in {s, NoSocket} =>
               \A x \in Later : cid_next_exp_seq_num_[s[1]] <= x,
           \A x \in Later : \A i \in 1 .. n : arrived[i].seq # x
    PROVE  /\ Accepted(s, t, arrived, n) \in ServerStates
           /\ Served(Accepted(s, t, arrived, n), s, t, Later)
<1> DEFINE base == [socket |-> cid_tcp_socket_, exp |-> cid_next_exp_seq_num_,
                    pending |-> pending_client_requests_, aborted |-> "no"]
<1>0. n \in Nat
  OBVIOUS
<1>1. PICK st \in [0 .. n -> ServerStates] :
         /\ st[0] = base
         /\ \A i \in 1 .. n : st[i] = AcceptRequest(s, t, st[i - 1], arrived[i])
         /\ Accepted(s, t, arrived, n) = st[n]
  <2>1. \A i \in DOMAIN arrived : arrived[i].client = s[1]
    OBVIOUS
  <2>2. QED BY <2>1, AcceptedSteps, ZenonT(60)
<1>2. Served(base, s, t, Later)
  <2> DEFINE p == pending_client_requests_
             c == s[1]
  <2>1. /\ p \in Seq(PendingRecords) /\ Len(p) \in Nat /\ Len(p) <= MaxPending
        /\ cid_next_exp_seq_num_[c] \in Nat
    <3>1. c \in Clients /\ MaxRequests \in Nat
      BY CountsAssumption DEF Sockets
    <3>2. /\ cid_next_exp_seq_num_[c] \in 1 .. MaxRequests + 1
          /\ p \in Seq(PendingRecords) /\ Len(p) <= MaxPending
      BY <3>1 DEF TypeOK, PendingRecords
    <3>3. QED BY <3>1, <3>2
  <2>2. \A j \in DOMAIN p : ~(j > Len(p))
    BY <2>1
  <2>3. cid_next_exp_seq_num_[c] + (Len(p) - Len(p)) = cid_next_exp_seq_num_[c]
    BY <2>1
  <2>4. Len(p) <= Len(p) /\ cid_next_exp_seq_num_[c] <= cid_next_exp_seq_num_[c]
    BY <2>1
  <2>5. /\ base.socket = cid_tcp_socket_ /\ base.exp = cid_next_exp_seq_num_
        /\ base.pending = p /\ base.aborted = "no"
    OBVIOUS
  <2> HIDE DEF base
  <2>6. QED BY <2>1, <2>2, <2>3, <2>4, <2>5 DEF Served
<1> DEFINE T == {i \in 0 .. n : Served(st[i], s, t, Later)}
<1> HIDE DEF base
<1>3. 0 \in T
  BY <1>0, <1>1, <1>2
<1>4. ASSUME NEW i \in 0 .. n - 1, i \in T PROVE i + 1 \in T
  <2>1. /\ i + 1 \in 0 .. n /\ i + 1 \in 1 .. n /\ (i + 1) - 1 = i /\ i \in 0 .. n
        /\ i + 1 \in DOMAIN arrived
    BY <1>0
  <2>2. /\ st[i] \in ServerStates /\ Served(st[i], s, t, Later)
        /\ st[i + 1] = AcceptRequest(s, t, st[i], arrived[i + 1])
    BY <1>1, <1>4, <2>1
  <2>3. /\ arrived[i + 1] \in Requests /\ arrived[i + 1].client = s[1]
        /\ arrived[i + 1].run = s[2] /\ \A x \in Later : arrived[i + 1].seq # x
    BY <2>1
  <2>4. Served(st[i + 1], s, t, Later)
    BY <2>2, <2>3, ServedOne
  <2>5. QED BY <2>1, <2>4
<1>5. n \in T
  <2> HIDE DEF T
  <2>1. QED BY <1>0, <1>3, <1>4, UpTo
<1>6. QED BY <1>0, <1>1, <1>5

-----------------------------------------------------------------------------
(* The invariant holds initially and is kept by every step.                *)

\* The sockets of the clients, in any order.
LEMMA InitialBacklog ==
    ASSUME Init
    PROVE  /\ backlog \in Seq(Sockets) /\ NoneTwice(backlog)
           /\ \A i \in DOMAIN backlog : backlog[i][2] = 1 /\ backlog[i][1] \in Clients
<1> DEFINE first == {MySocket(c) : c \in Clients}
<1>1. 1 \in 1 .. MaxRuns /\ \A c \in Clients : run[c] = 1
  BY CountsAssumption DEF Init
<1>2. first \subseteq Sockets /\ \A s \in first : s[2] = 1 /\ s[1] \in Clients
  BY <1>1 DEF MySocket, Sockets
<1>3. IsFiniteSet(first)
  <2>1. IsFiniteSet(1 .. MaxRuns)
    BY CountsAssumption, FS_Interval
  <2>2. IsFiniteSet(Sockets)
    BY <2>1, ClientsAssumption, FS_Product DEF Sockets
  <2> HIDE DEF first
  <2>3. QED BY <1>2, <2>2, FS_Subset
<1>4. backlog \in SetToSeqs(first)
  BY DEF Init
<1> HIDE DEF first
<1>5. Cardinality(first) \in Nat
  BY <1>3, FS_CardinalityType
<1>6. /\ backlog \in [1 .. Cardinality(first) -> first]
      /\ \A i, j \in 1 .. Cardinality(first) : i # j => backlog[i] # backlog[j]
  BY <1>4 DEF SetToSeqs
<1>7. backlog \in Seq(first) /\ DOMAIN backlog = 1 .. Cardinality(first)
  BY <1>5, <1>6
<1>8. QED BY <1>2, <1>6, <1>7 DEF NoneTwice

\* Before the first step the invariant holds.
LEMMA OrderEntryInit == Init => OrderEntryInv
<1> SUFFICES ASSUME Init PROVE OrderEntryInv
  OBVIOUS
<1>1. 1 \in 1 .. MaxRuns /\ MaxRequests \in Nat /\ 1 \in 1 .. MaxRequests + 1 /\ MaxPending \in Nat
  BY CountsAssumption
<1>2. TypeOK
  <2>1. /\ run \in [Clients -> 1 .. MaxRuns]
        /\ next_outgoing_seq_num_ \in [Clients -> 1 .. MaxRequests + 1]
        /\ next_exp_seq_num_ \in [Clients -> Nat \ {0}]
        /\ send_buffer_ \in [Clients -> Seq(Requests)]
        /\ delivered \in [Clients -> Seq(Nat)]
    BY <1>1 DEF Init
  <2>2. /\ up \in [Sockets -> Seq(Requests)] /\ down \in [Sockets -> Seq(Responses)]
        /\ server_buffer_ \in [Sockets -> Seq(Responses)]
    BY DEF Init
  <2>3. /\ lost_requests \subseteq Requests /\ lost_responses \subseteq Responses
        /\ pc \in {"poll", "serve", "respond"} /\ todo \in Seq(Sockets)
        /\ receive_sockets_ \in Seq(Sockets) /\ disconnected_sockets_ \subseteq Sockets
    BY DEF Init
  <2>4. /\ cid_tcp_socket_ \in [Clients -> Sockets \cup {NoSocket}]
        /\ cid_next_exp_seq_num_ \in [Clients -> 1 .. MaxRequests + 1]
        /\ cid_next_outgoing_seq_num_ \in [Clients -> Nat \ {0}]
    BY <1>1 DEF Init
  <2>5. /\ pending_client_requests_ \in Seq([recv_time_ : Stamps, request_ : Requests])
        /\ Len(pending_client_requests_) <= MaxPending
    BY <1>1 DEF Init
  <2>6. /\ aborted \in {"no", "full", "partial send", "no socket"}
        /\ sequenced \in Seq(Requests) /\ taken \in 0 .. Len(sequenced)
        /\ answered \in [Clients -> Nat] /\ responses \in Seq([client : Clients, id : Nat])
    BY DEF Init
  <2>7. backlog \in Seq(Sockets)
    BY InitialBacklog
  <2>8. QED BY <2>1, <2>2, <2>3, <2>4, <2>5, <2>6, <2>7 DEF TypeOK
<1>3. RequestsOnTheWay
  <2>1. \A c \in Clients : MySocket(c) \in Sockets
    BY <1>1 DEF Init, MySocket, Sockets
  <2>2. /\ \A s \in Sockets : up[s] = << >>
        /\ \A c \in Clients : send_buffer_[c] = << >>
    BY DEF Init
  <2>3. QED BY <2>1, <2>2 DEF RequestsOnTheWay, GoUp
<1>4. LostRequestsAreGone /\ LostResponsesAreGone
  BY DEF Init, LostRequestsAreGone, LostResponsesAreGone
<1>5. ServerWaits
  <2>1. \A c \in Clients : cid_tcp_socket_[c] = NoSocket /\ cid_next_exp_seq_num_[c] = 1
    BY DEF Init
  <2>2. \A c \in Clients : MySocket(c) # NoSocket
    BY <1>1, NoSocketAssumption DEF Init, MySocket, Sockets
  <2>3. QED BY <2>1, <2>2 DEF ServerWaits
<1>6. SocketLists
  <2>1. receive_sockets_ = << >> /\ todo = << >>
    BY DEF Init
  <2>2. \A i \in DOMAIN backlog : backlog[i][2] <= run[backlog[i][1]]
    BY InitialBacklog DEF Init
  <2>3. QED BY <2>1, <2>2, InitialBacklog DEF SocketLists, NoneTwice
<1>7. Pending /\ RequestsOnce /\ NoneSkipped
  <2>1. /\ sequenced = << >> /\ pending_client_requests_ = << >>
        /\ \A c \in Clients : cid_next_exp_seq_num_[c] = 1
    BY DEF Init
  <2>2. \A c \in Clients : 1 .. cid_next_exp_seq_num_[c] - 1 = {}
    BY <2>1
  <2>3. QED BY <2>1, <2>2 DEF Pending, RequestsOnce, NoneSkipped
<1>8. ResponsesQueued
  <2>1. /\ responses = << >>
        /\ \A c \in Clients : cid_next_outgoing_seq_num_[c] = 1 /\ answered[c] = 0
    BY DEF Init
  <2>2. QED BY <2>1 DEF ResponsesQueued
<1>9. ResponsesOnTheWay
  <2>1. \A s \in Sockets : down[s] = << >> /\ server_buffer_[s] = << >>
    BY DEF Init
  <2>2. QED BY <2>1 DEF ResponsesOnTheWay, GoUp
<1>10. GatewayWaits
  <2>1. \A c \in Clients : MySocket(c) \in Sockets
    BY <1>1 DEF Init, MySocket, Sockets
  <2>2. QED BY <2>1 DEF Init, GatewayWaits
<1>11. aborted # "no socket"
  BY DEF Init
<1>12. QED BY <1>2, <1>3, <1>4, <1>5, <1>6, <1>7, <1>8, <1>9, <1>10, <1>11
           DEF OrderEntryInv, RequestsInv, ResponsesInv

\* What the type invariant says of one client.
LEMMA ClientTypes ==
    ASSUME TypeOK, NEW c \in Clients
    PROVE  /\ run[c] \in 1 .. MaxRuns /\ run[c] \in Nat
           /\ MySocket(c) \in Sockets /\ MySocket(c) = <<c, run[c]>>
           /\ MySocket(c)[1] = c /\ MySocket(c)[2] = run[c]
           /\ next_outgoing_seq_num_[c] \in 1 .. MaxRequests + 1 /\ next_outgoing_seq_num_[c] \in Nat
           /\ next_exp_seq_num_[c] \in Nat \ {0}
           /\ send_buffer_[c] \in Seq(Requests) /\ delivered[c] \in Seq(Nat)
           /\ cid_next_exp_seq_num_[c] \in 1 .. MaxRequests + 1 /\ cid_next_exp_seq_num_[c] \in Nat
           /\ cid_next_outgoing_seq_num_[c] \in Nat \ {0} /\ answered[c] \in Nat
           /\ cid_tcp_socket_[c] # NoSocket => cid_tcp_socket_[c] \in Sockets
<1>1. MaxRuns \in Nat /\ MaxRequests \in Nat
  BY CountsAssumption
<1>2. run[c] \in 1 .. MaxRuns /\ run[c] \in Nat
  <2>1. run[c] \in 1 .. MaxRuns
    BY DEF TypeOK
  <2>2. QED BY <1>1, <2>1
<1>3. /\ MySocket(c) \in Sockets /\ MySocket(c) = <<c, run[c]>>
      /\ MySocket(c)[1] = c /\ MySocket(c)[2] = run[c]
  BY <1>2 DEF MySocket, Sockets
<1>4. /\ next_outgoing_seq_num_[c] \in 1 .. MaxRequests + 1
      /\ cid_next_exp_seq_num_[c] \in 1 .. MaxRequests + 1
      /\ next_exp_seq_num_[c] \in Nat \ {0} /\ send_buffer_[c] \in Seq(Requests)
      /\ delivered[c] \in Seq(Nat)
      /\ cid_next_outgoing_seq_num_[c] \in Nat \ {0} /\ answered[c] \in Nat
      /\ cid_tcp_socket_[c] # NoSocket => cid_tcp_socket_[c] \in Sockets
  BY DEF TypeOK
<1>5. next_outgoing_seq_num_[c] \in Nat /\ cid_next_exp_seq_num_[c] \in Nat
  BY <1>1, <1>4
<1>6. QED BY <1>2, <1>3, <1>4, <1>5

\* A socket is what a client and a number make, and carries requests one way
\* and responses the other.
LEMMA SocketTypes ==
    ASSUME TypeOK, NEW s \in Sockets
    PROVE  /\ s = <<s[1], s[2]>> /\ s[1] \in Clients /\ s[2] \in 1 .. MaxRuns /\ s[2] \in Nat
           /\ s # NoSocket
           /\ up[s] \in Seq(Requests) /\ down[s] \in Seq(Responses)
           /\ server_buffer_[s] \in Seq(Responses)
<1>1. MaxRuns \in Nat
  BY CountsAssumption
<1>2. s = <<s[1], s[2]>> /\ s[1] \in Clients /\ s[2] \in 1 .. MaxRuns
  BY DEF Sockets
<1>3. s[2] \in Nat
  BY <1>1, <1>2
<1>4. s # NoSocket
  BY NoSocketAssumption
<1>5. QED BY <1>2, <1>3, <1>4 DEF TypeOK

\* A request is its client, its process and its number.
LEMMA RequestTypes ==
    ASSUME NEW r \in Requests
    PROVE  /\ r.client \in Clients /\ r.run \in 1 .. MaxRuns /\ r.run \in Nat
           /\ r.seq \in 1 .. MaxRequests /\ r.seq \in Nat /\ <<r.client, r.run>> \in Sockets
           /\ r = [client |-> r.client, run |-> r.run, seq |-> r.seq]
<1>1. MaxRuns \in Nat /\ MaxRequests \in Nat
  BY CountsAssumption
<1>2. /\ r.client \in Clients /\ r.run \in 1 .. MaxRuns /\ r.seq \in 1 .. MaxRequests
      /\ r = [client |-> r.client, run |-> r.run, seq |-> r.seq]
  BY DEF Requests
<1>3. QED BY <1>1, <1>2 DEF Sockets

\* The responses the matching engine has queued.
LEMMA QueueTypes ==
    ASSUME TypeOK
    PROVE  /\ DOMAIN responses = 1 .. Len(responses) /\ Len(responses) \in Nat
           /\ \A i \in DOMAIN responses :
                 /\ responses[i] \in [client : Clients, id : Nat]
                 /\ responses[i].client \in Clients /\ responses[i].id \in Nat
<1> DEFINE Q == [client : Clients, id : Nat]
<1>1. responses \in Seq(Q)
  BY DEF TypeOK
<1>2. \A q \in Q : q.client \in Clients /\ q.id \in Nat
  OBVIOUS
<1> HIDE DEF Q
<1>3. /\ DOMAIN responses = 1 .. Len(responses) /\ Len(responses) \in Nat
      /\ \A i \in DOMAIN responses : responses[i] \in Q
  BY <1>1
<1>4. QED BY <1>2, <1>3 DEF Q

\* The queue of responses depends on these variables only.
LEMMA QueueStays ==
    ASSUME ResponsesQueued, responses' = responses, cid_tcp_socket_' = cid_tcp_socket_,
           cid_next_outgoing_seq_num_' = cid_next_outgoing_seq_num_, answered' = answered
    PROVE  ResponsesQueued'
<1>1. /\ \A i \in DOMAIN responses :
            /\ cid_tcp_socket_[responses[i].client] # NoSocket
            /\ cid_next_outgoing_seq_num_[responses[i].client] <= responses[i].id
            /\ responses[i].id <= answered[responses[i].client]
            /\ \A j \in DOMAIN responses : i < j /\ responses[i].client = responses[j].client =>
                  responses[i].id < responses[j].id
      /\ \A c \in Clients : cid_next_outgoing_seq_num_[c] <= answered[c] + 1
  BY DEF ResponsesQueued
<1>2. \A c \in Clients : \A m \in cid_next_outgoing_seq_num_[c] .. answered[c] :
         \E i \in DOMAIN responses : responses[i].client = c /\ responses[i].id = m
  BY DEF ResponsesQueued
<1>3. \A c \in Clients : \A m \in cid_next_outgoing_seq_num_'[c] .. answered'[c] :
         \E i \in DOMAIN responses' : responses'[i].client = c /\ responses'[i].id = m
  BY <1>2
<1>4. QED BY <1>1, <1>3 DEF ResponsesQueued

\* What the server has accepted depends on these variables only.
LEMMA AcceptedStays ==
    ASSUME Pending, RequestsOnce, NoneSkipped, pc' = pc, todo' = todo,
           cid_tcp_socket_' = cid_tcp_socket_, cid_next_exp_seq_num_' = cid_next_exp_seq_num_,
           pending_client_requests_' = pending_client_requests_, aborted' = aborted,
           sequenced' = sequenced
    PROVE  Pending' /\ RequestsOnce' /\ NoneSkipped'
<1>1. Pending'
  BY DEF Pending, WasAccepted
<1>2. RequestsOnce'
  BY DEF RequestsOnce
<1>3. NoneSkipped'
  BY DEF NoneSkipped, WasAccepted, Serving
<1>4. QED BY <1>1, <1>2, <1>3

\* A strategy sends a request: it gets a number that nothing else has.
LEMMA SendRequestKeeps ==
    ASSUME OrderEntryInv, NEW c \in Clients, SendRequest(c)
    PROVE  OrderEntryInv'
<1> DEFINE n == next_outgoing_seq_num_[c]
           r == [client |-> c, run |-> run[c], seq |-> n]
           b == send_buffer_[c]
<1>1. /\ n <= MaxRequests
      /\ send_buffer_' = [send_buffer_ EXCEPT ![c] = Append(b, r)]
      /\ next_outgoing_seq_num_' = [next_outgoing_seq_num_ EXCEPT ![c] = n + 1]
      /\ UNCHANGED <<run, next_exp_seq_num_, delivered, wires, backlog, server,
                     sequenced, engine, responses>>
  BY DEF SendRequest
<1>2. /\ run' = run /\ next_exp_seq_num_' = next_exp_seq_num_ /\ delivered' = delivered
      /\ up' = up /\ down' = down /\ lost_requests' = lost_requests
      /\ lost_responses' = lost_responses /\ backlog' = backlog /\ pc' = pc /\ todo' = todo
      /\ receive_sockets_' = receive_sockets_ /\ disconnected_sockets_' = disconnected_sockets_
      /\ cid_tcp_socket_' = cid_tcp_socket_ /\ cid_next_exp_seq_num_' = cid_next_exp_seq_num_
      /\ cid_next_outgoing_seq_num_' = cid_next_outgoing_seq_num_
      /\ server_buffer_' = server_buffer_
      /\ pending_client_requests_' = pending_client_requests_ /\ aborted' = aborted
      /\ sequenced' = sequenced /\ taken' = taken /\ answered' = answered
      /\ responses' = responses
  BY <1>1 DEF wires, server, engine, loop, sockets, table
<1>3. TypeOK /\ RequestsInv /\ ResponsesInv
  BY DEF OrderEntryInv
<1>4. /\ run[c] \in 1 .. MaxRuns /\ MySocket(c) \in Sockets /\ n \in 1 .. MaxRequests + 1
      /\ n \in Nat /\ b \in Seq(Requests) /\ MaxRequests \in Nat
  BY <1>3, ClientTypes, CountsAssumption
<1>5. n + 1 \in 1 .. MaxRequests + 1 /\ n \in 1 .. MaxRequests
  BY <1>1, <1>4
<1>6. r \in Requests /\ r.client = c /\ r.run = run[c] /\ r.seq = n
  BY <1>4, <1>5 DEF Requests
<1> HIDE DEF r, b, n
<1>7. /\ Append(b, r) \in Seq(Requests)
      /\ \A i \in DOMAIN Append(b, r) : \/ i \in DOMAIN b /\ Append(b, r)[i] = b[i]
                                        \/ Append(b, r)[i] = r
  BY <1>4, <1>6, AppendLists
<1>8. /\ send_buffer_' \in [Clients -> Seq(Requests)] /\ send_buffer_'[c] = Append(b, r)
      /\ \A d \in Clients : d # c => send_buffer_'[d] = send_buffer_[d]
      /\ next_outgoing_seq_num_' \in [Clients -> 1 .. MaxRequests + 1]
      /\ next_outgoing_seq_num_'[c] = n + 1
      /\ \A d \in Clients : d # c => next_outgoing_seq_num_'[d] = next_outgoing_seq_num_[d]
  BY <1>1, <1>3, <1>5, <1>7 DEF TypeOK
<1>9. TypeOK'
  BY <1>2, <1>3, <1>8 DEF TypeOK
<1>10. RequestsOnTheWay'
  <2>1. RequestsOnTheWay
    BY <1>3 DEF RequestsInv
  <2>2. \A i \in DOMAIN b : b[i].client = c /\ b[i].run = run[c] /\ b[i].seq < n /\ b[i].seq \in Nat
    <3>1. \A i \in DOMAIN b : b[i].client = c /\ b[i].run = run[c] /\ b[i].seq < n
      BY <2>1 DEF RequestsOnTheWay, b, n
    <3>2. \A i \in DOMAIN b : b[i] \in Requests
      BY <1>4
    <3>3. QED BY <3>1, <3>2, RequestTypes
  <2>3. GoUp(Append(b, r))
    <3>1. GoUp(b)
      BY <2>1 DEF RequestsOnTheWay, b
    <3>2. QED BY <1>4, <1>6, <2>2, <3>1, AppendGoesUp
  <2>4. \A i \in DOMAIN Append(b, r) : /\ Append(b, r)[i].client = c /\ Append(b, r)[i].run = run[c]
                                       /\ Append(b, r)[i].seq < n + 1
    BY <1>4, <1>6, <1>7, <2>2
  <2>5. ASSUME NEW i \in DOMAIN up[MySocket(c)]
        PROVE  /\ up[MySocket(c)][i].seq < n + 1
               /\ \A j \in DOMAIN Append(b, r) : up[MySocket(c)][i].seq < Append(b, r)[j].seq
    <3>1. /\ up[MySocket(c)][i].seq < n
          /\ \A j \in DOMAIN b : up[MySocket(c)][i].seq < b[j].seq
      BY <2>1 DEF RequestsOnTheWay, b, n
    <3>2. up[MySocket(c)][i].seq \in Nat
      <4>1. up[MySocket(c)][i] \in Requests
        BY <1>3, <1>4, SocketTypes
      <4>2. QED BY <4>1, RequestTypes
    <3>3. QED BY <1>4, <1>6, <1>7, <3>1, <3>2
  <2>6. \A d \in Clients : MySocket(d)' = MySocket(d)
    BY <1>2 DEF MySocket
  <2>7. ASSUME NEW d \in Clients
        PROVE  /\ GoUp(send_buffer_'[d])
               /\ \A i \in DOMAIN send_buffer_'[d] :
                     /\ send_buffer_'[d][i].client = d /\ send_buffer_'[d][i].run = run[d]
                     /\ send_buffer_'[d][i].seq < next_outgoing_seq_num_'[d]
               /\ \A i \in DOMAIN up[MySocket(d)] :
                     /\ up[MySocket(d)][i].seq < next_outgoing_seq_num_'[d]
                     /\ \A j \in DOMAIN send_buffer_'[d] :
                           up[MySocket(d)][i].seq < send_buffer_'[d][j].seq
    <3>1. CASE d = c
      BY <1>8, <2>3, <2>4, <2>5, <3>1
    <3>2. CASE d # c
      <4>1. send_buffer_'[d] = send_buffer_[d] /\ next_outgoing_seq_num_'[d] = next_outgoing_seq_num_[d]
        BY <1>8, <3>2
      <4>2. QED BY <2>1, <4>1 DEF RequestsOnTheWay
    <3>3. QED BY <3>1, <3>2
  <2>8. \A t \in Sockets :
           /\ GoUp(up[t])
           /\ \A i \in DOMAIN up[t] : up[t][i].client = t[1] /\ up[t][i].run = t[2]
           /\ up[t] # << >> => t[2] <= run[t[1]]
    BY <2>1 DEF RequestsOnTheWay
  <2>9. QED BY <1>2, <2>6, <2>7, <2>8 DEF RequestsOnTheWay, GoUp
<1>11. LostRequestsAreGone'
  <2>1. ASSUME NEW l \in lost_requests
        PROVE  /\ l.run = run[l.client] => l.seq < next_outgoing_seq_num_'[l.client]
               /\ \A i \in DOMAIN send_buffer_'[l.client] : send_buffer_'[l.client][i] # l
    <3>1. /\ l.run = run[l.client] => l.seq < next_outgoing_seq_num_[l.client]
          /\ \A i \in DOMAIN send_buffer_[l.client] : send_buffer_[l.client][i] # l
      BY <1>3 DEF RequestsInv, LostRequestsAreGone
    <3>2. l.client \in Clients /\ l.seq \in Nat
      BY <1>3, RequestTypes DEF TypeOK
    <3>3. CASE l.client = c
      <4>1. l.run = run[c] => l.seq < n
        BY <3>1, <3>3 DEF n
      <4>2. l # r
        BY <1>4, <1>6, <4>1
      <4>3. \A i \in DOMAIN b : b[i] # l
        BY <3>1, <3>3 DEF b
      <4>4. l.run = run[c] => l.seq < n + 1
        BY <1>4, <3>2, <4>1
      <4>5. QED BY <1>7, <1>8, <3>3, <4>2, <4>3, <4>4
    <3>4. CASE l.client # c
      BY <1>8, <3>1, <3>2, <3>4
    <3>5. QED BY <3>3, <3>4
  <2>2. QED BY <1>2, <1>3, <2>1 DEF RequestsInv, LostRequestsAreGone
<1>12. ServerWaits'
  <2>1. ASSUME NEW d \in Clients, cid_tcp_socket_[d] = MySocket(d)
        PROVE  /\ cid_next_exp_seq_num_[d] <= next_outgoing_seq_num_'[d]
               /\ \A i \in DOMAIN send_buffer_'[d] :
                     cid_next_exp_seq_num_[d] <= send_buffer_'[d][i].seq
    <3>1. /\ cid_next_exp_seq_num_[d] <= next_outgoing_seq_num_[d]
          /\ \A i \in DOMAIN send_buffer_[d] : cid_next_exp_seq_num_[d] <= send_buffer_[d][i].seq
      BY <1>3, <2>1 DEF RequestsInv, ServerWaits
    <3>2. cid_next_exp_seq_num_[d] \in Nat
      BY <1>3, ClientTypes
    <3>3. CASE d = c
      <4>1. /\ cid_next_exp_seq_num_[c] <= n
            /\ \A i \in DOMAIN b : cid_next_exp_seq_num_[c] <= b[i].seq
        BY <3>1, <3>3 DEF b, n
      <4>2. cid_next_exp_seq_num_[c] <= n + 1
        BY <1>4, <3>2, <3>3, <4>1
      <4>3. QED BY <1>6, <1>7, <1>8, <3>3, <4>1, <4>2
    <3>4. CASE d # c
      BY <1>8, <3>1, <3>4
    <3>5. QED BY <3>3, <3>4
  <2>2. \A d \in Clients : MySocket(d)' = MySocket(d)
    BY <1>2 DEF MySocket
  <2>3. QED BY <1>2, <1>3, <2>1, <2>2 DEF RequestsInv, ServerWaits
<1>13. SocketLists' /\ Pending' /\ RequestsOnce' /\ NoneSkipped'
  BY <1>2, <1>3 DEF RequestsInv, SocketLists, Pending, RequestsOnce, NoneSkipped, WasAccepted, Serving
<1>14. ResponsesInv'
  <2>1. ResponsesQueued'
    BY <1>2, <1>3, QueueStays DEF ResponsesInv
  <2>2. ResponsesOnTheWay'
    <3>1. ResponsesOnTheWay
      BY <1>3 DEF ResponsesInv
    <3>2. UNCHANGED <<down, server_buffer_, cid_tcp_socket_, cid_next_outgoing_seq_num_>>
      BY <1>2
    <3>3. QED BY <3>1, <3>2 DEF ResponsesOnTheWay, Numbered, GoUp
  <2>3. LostResponsesAreGone' /\ GatewayWaits'
    BY <1>2, <1>3 DEF ResponsesInv, LostResponsesAreGone, GatewayWaits, MySocket
  <2>4. QED BY <1>2, <1>3, <2>1, <2>2, <2>3 DEF ResponsesInv
<1>15. QED BY <1>9, <1>10, <1>11, <1>12, <1>13, <1>14 DEF OrderEntryInv, RequestsInv

\* A list on the wire of a socket is typed.
LEMMA WireTypes ==
    ASSUME TypeOK, NEW s \in Sockets
    PROVE  /\ \A i \in DOMAIN up[s] : up[s][i] \in Requests /\ up[s][i].seq \in Nat
           /\ \A i \in DOMAIN down[s] : down[s][i] \in Responses /\ down[s][i].seq \in Nat
           /\ \A i \in DOMAIN server_buffer_[s] :
                 server_buffer_[s][i] \in Responses /\ server_buffer_[s][i].seq \in Nat
<1>1. /\ \A i \in DOMAIN up[s] : up[s][i] \in Requests
      /\ \A i \in DOMAIN down[s] : down[s][i] \in Responses
      /\ \A i \in DOMAIN server_buffer_[s] : server_buffer_[s][i] \in Responses
  BY SocketTypes
<1>2. \A r \in Responses : r.seq \in Nat
  BY DEF Responses
<1>3. QED BY <1>1, <1>2, RequestTypes

\* The send buffer of a gateway goes out or is lost.
LEMMA GatewaySends ==
    ASSUME TypeOK, RequestsInv, NEW c \in Clients, NEW sent \in BOOLEAN,
           send_buffer_' = [send_buffer_ EXCEPT ![c] = << >>],
           IF sent THEN /\ up' = [up EXCEPT ![MySocket(c)] = @ \o send_buffer_[c]]
                        /\ lost_requests' = lost_requests
           ELSE up' = up /\ lost_requests' = lost_requests \cup ToSet(send_buffer_[c]),
           run' = run, next_outgoing_seq_num_' = next_outgoing_seq_num_, backlog' = backlog,
           pc' = pc, todo' = todo, receive_sockets_' = receive_sockets_,
           cid_tcp_socket_' = cid_tcp_socket_, cid_next_exp_seq_num_' = cid_next_exp_seq_num_,
           pending_client_requests_' = pending_client_requests_, aborted' = aborted,
           sequenced' = sequenced
    PROVE  RequestsInv' /\ up' \in [Sockets -> Seq(Requests)] /\ lost_requests' \subseteq Requests
<1> DEFINE s == MySocket(c)
           b == send_buffer_[c]
           a == up[s]
<1>1. /\ s \in Sockets /\ s = <<c, run[c]>> /\ s[1] = c /\ s[2] = run[c] /\ run[c] \in Nat
      /\ a \in Seq(Requests) /\ b \in Seq(Requests)
      /\ up \in [Sockets -> Seq(Requests)] /\ lost_requests \subseteq Requests
      /\ \A l \in lost_requests : l.client \in Clients
  <2>1. /\ s \in Sockets /\ s = <<c, run[c]>> /\ s[1] = c /\ s[2] = run[c] /\ run[c] \in Nat
        /\ b \in Seq(Requests)
    BY ClientTypes
  <2>2. a \in Seq(Requests)
    BY <2>1, SocketTypes
  <2>3. up \in [Sockets -> Seq(Requests)] /\ lost_requests \subseteq Requests
    BY DEF TypeOK
  <2>4. QED BY <2>1, <2>2, <2>3, RequestTypes
<1>2. /\ RequestsOnTheWay /\ LostRequestsAreGone /\ ServerWaits
  BY DEF RequestsInv
<1>3. /\ GoUp(a) /\ GoUp(b)
      /\ \A i \in DOMAIN a : /\ a[i].client = c /\ a[i].run = run[c]
                             /\ a[i].seq < next_outgoing_seq_num_[c]
                             /\ \A j \in DOMAIN b : a[i].seq < b[j].seq
      /\ \A i \in DOMAIN b : /\ b[i].client = c /\ b[i].run = run[c]
                             /\ b[i].seq < next_outgoing_seq_num_[c]
  BY <1>1, <1>2 DEF RequestsOnTheWay
<1>4. /\ \A l \in lost_requests : <<l.client, l.run>> = s =>
            (\A i \in DOMAIN a : a[i] # l) /\ (\A i \in DOMAIN b : b[i] # l)
  <2>1. ASSUME NEW l \in lost_requests, <<l.client, l.run>> = s
        PROVE  (\A i \in DOMAIN a : a[i] # l) /\ (\A i \in DOMAIN b : b[i] # l)
    <3>1. l.client = c
      BY <1>1, <2>1
    <3>2. \A i \in DOMAIN up[<<l.client, l.run>>] : up[<<l.client, l.run>>][i] # l
      BY <1>2 DEF LostRequestsAreGone
    <3>3. \A i \in DOMAIN send_buffer_[l.client] : send_buffer_[l.client][i] # l
      BY <1>2 DEF LostRequestsAreGone
    <3> HIDE DEF s
    <3>4. QED BY <2>1, <3>1, <3>2, <3>3
  <2>2. QED BY <2>1
<1>5. /\ cid_tcp_socket_[c] = s =>
            /\ \A i \in DOMAIN a : cid_next_exp_seq_num_[c] <= a[i].seq
            /\ \A i \in DOMAIN b : cid_next_exp_seq_num_[c] <= b[i].seq
      /\ \A d \in Clients : cid_tcp_socket_[d] = s => d = c
  <2>1. s # NoSocket
    BY <1>1, NoSocketAssumption
  <2>2. QED BY <1>1, <1>2, <2>1 DEF ServerWaits
<1> HIDE DEF s, a, b
<1>6. /\ send_buffer_'[c] = << >>
      /\ \A d \in Clients : d # c => send_buffer_'[d] = send_buffer_[d]
  BY DEF TypeOK
<1>7. \A d \in Clients : MySocket(d)' = MySocket(d) /\ (d # c => MySocket(d) # s)
  BY DEF MySocket, s
<1>8. \A u \in Sockets : u # s => up'[u] = up[u]
  BY <1>1 DEF s
<1>9. /\ up' \in [Sockets -> Seq(Requests)]
      /\ up'[s] \in Seq(Requests) /\ GoUp(up'[s])
      /\ \A i \in DOMAIN up'[s] : \/ \E j \in DOMAIN a : up'[s][i] = a[j]
                                  \/ sent /\ \E j \in DOMAIN b : up'[s][i] = b[j]
  <2>1. CASE sent
    <3>1. a \o b \in Seq(Requests) /\ GoUp(a \o b)
      BY <1>1, <1>3, ConcatLists, ConcatGoesUp
    <3>2. \A i \in DOMAIN (a \o b) : \/ \E j \in DOMAIN a : (a \o b)[i] = a[j]
                                     \/ \E j \in DOMAIN b : (a \o b)[i] = b[j]
      <4>1. ASSUME NEW i \in DOMAIN (a \o b)
            PROVE  \/ \E j \in DOMAIN a : (a \o b)[i] = a[j]
                   \/ \E j \in DOMAIN b : (a \o b)[i] = b[j]
        <5>1. \/ i \in DOMAIN a /\ (a \o b)[i] = a[i]
              \/ i - Len(a) \in DOMAIN b /\ (a \o b)[i] = b[i - Len(a)]
          BY <1>1, ConcatLists
        <5>2. QED BY <5>1
      <4>2. QED BY <4>1
    <3>3. up' = [up EXCEPT ![s] = a \o b]
      BY <2>1 DEF s, a, b
    <3>4. QED BY <1>1, <2>1, <3>1, <3>2, <3>3
  <2>2. CASE ~sent
    BY <1>1, <1>3, <2>2 DEF a
  <2>3. QED BY <2>1, <2>2
<1>10. /\ lost_requests' \subseteq Requests
       /\ \A l \in lost_requests' : l \in lost_requests \/ (~sent /\ \E j \in DOMAIN b : l = b[j])
  <2>1. CASE sent
    BY <1>1, <2>1
  <2>2. CASE ~sent
    BY <1>1, <2>2, Members DEF b
  <2>3. QED BY <2>1, <2>2
<1>11. RequestsOnTheWay'
  <2>1. ASSUME NEW u \in Sockets
        PROVE  /\ GoUp(up'[u])
               /\ \A i \in DOMAIN up'[u] : up'[u][i].client = u[1] /\ up'[u][i].run = u[2]
               /\ up'[u] # << >> => u[2] <= run[u[1]]
    <3>1. CASE u = s
      <4>1. u[2] <= run[u[1]]
        BY <1>1, <3>1
      <4>2. QED BY <1>1, <1>3, <1>9, <3>1, <4>1
    <3>2. CASE u # s
      BY <1>2, <1>8, <3>2 DEF RequestsOnTheWay
    <3>3. QED BY <3>1, <3>2
  <2>2. ASSUME NEW d \in Clients
        PROVE  /\ GoUp(send_buffer_'[d])
               /\ \A i \in DOMAIN send_buffer_'[d] :
                     /\ send_buffer_'[d][i].client = d /\ send_buffer_'[d][i].run = run[d]
                     /\ send_buffer_'[d][i].seq < next_outgoing_seq_num_[d]
               /\ \A i \in DOMAIN up'[MySocket(d)] :
                     /\ up'[MySocket(d)][i].seq < next_outgoing_seq_num_[d]
                     /\ \A j \in DOMAIN send_buffer_'[d] :
                           up'[MySocket(d)][i].seq < send_buffer_'[d][j].seq
    <3>1. CASE d = c
      <4>1. MySocket(d) = s
        BY <3>1 DEF s
      <4>2. QED BY <1>3, <1>6, <1>9, <3>1, <4>1 DEF GoUp
    <3>2. CASE d # c
      <4>1. MySocket(d) \in Sockets
        BY ClientTypes
      <4>2. QED BY <1>2, <1>6, <1>7, <1>8, <3>2, <4>1 DEF RequestsOnTheWay
    <3>3. QED BY <3>1, <3>2
  <2>3. QED BY <1>7, <2>1, <2>2 DEF RequestsOnTheWay, GoUp
<1>12. LostRequestsAreGone'
  <2>1. ASSUME NEW l \in lost_requests'
        PROVE  /\ l.run <= run[l.client]
               /\ l.run = run[l.client] => l.seq < next_outgoing_seq_num_[l.client]
               /\ \A i \in DOMAIN up'[<<l.client, l.run>>] : up'[<<l.client, l.run>>][i] # l
               /\ \A i \in DOMAIN send_buffer_'[l.client] : send_buffer_'[l.client][i] # l
    <3>0. l.client \in Clients /\ <<l.client, l.run>> \in Sockets
      BY <1>10, RequestTypes
    <3>1. CASE l \in lost_requests
      <4>1. /\ l.run <= run[l.client]
            /\ l.run = run[l.client] => l.seq < next_outgoing_seq_num_[l.client]
            /\ \A i \in DOMAIN up[<<l.client, l.run>>] : up[<<l.client, l.run>>][i] # l
            /\ \A i \in DOMAIN send_buffer_[l.client] : send_buffer_[l.client][i] # l
        BY <1>2, <3>1 DEF LostRequestsAreGone
      <4>2. \A i \in DOMAIN send_buffer_'[l.client] : send_buffer_'[l.client][i] # l
        BY <1>6, <3>0, <4>1
      <4>3. \A i \in DOMAIN up'[<<l.client, l.run>>] : up'[<<l.client, l.run>>][i] # l
        <5>1. CASE <<l.client, l.run>> = s
          BY <1>4, <1>9, <3>1, <5>1, ZenonT(60)
        <5>2. CASE <<l.client, l.run>> # s
          BY <1>8, <3>0, <4>1, <5>2
        <5>3. QED BY <5>1, <5>2
      <4>4. QED BY <4>1, <4>2, <4>3
    <3>2. CASE l \notin lost_requests
      <4>1. PICK j \in DOMAIN b : ~sent /\ l = b[j]
        BY <1>10, <3>2
      <4>2. /\ l.client = c /\ l.run = run[c] /\ <<l.client, l.run>> = s
            /\ l.seq < next_outgoing_seq_num_[c] /\ l.run <= run[c]
        BY <1>1, <1>3, <4>1
      <4>3. ASSUME NEW i \in DOMAIN up'[s] PROVE up'[s][i] # l
        <5>1. PICK k \in DOMAIN a : up'[s][i] = a[k]
          BY <1>9, <4>1
        <5>2. a[k].seq < b[j].seq /\ a[k] \in Requests /\ a[k].seq \in Nat
          <6>1. a[k].seq < b[j].seq
            BY <1>3
          <6>2. a[k] \in Requests
            BY <1>1
          <6>3. QED BY <6>1, <6>2, RequestTypes
        <5>3. QED BY <4>1, <5>1, <5>2
      <4>4. QED BY <1>6, <4>2, <4>3
    <3>3. QED BY <3>1, <3>2
  <2>2. QED BY <2>1 DEF LostRequestsAreGone
<1>13. ServerWaits'
  <2>1. ASSUME NEW d \in Clients
        PROVE  /\ cid_tcp_socket_[d] = NoSocket => cid_next_exp_seq_num_[d] = 1
               /\ cid_tcp_socket_[d] # NoSocket =>
                     /\ cid_tcp_socket_[d][1] = d /\ cid_tcp_socket_[d][2] <= run[d]
                     /\ \A i \in DOMAIN up'[cid_tcp_socket_[d]] :
                           cid_next_exp_seq_num_[d] <= up'[cid_tcp_socket_[d]][i].seq
                     /\ \A r \in lost_requests' : cid_tcp_socket_[d] = <<r.client, r.run>> =>
                           cid_next_exp_seq_num_[d] <= r.seq
               /\ cid_tcp_socket_[d] = MySocket(d) =>
                     /\ cid_next_exp_seq_num_[d] <= next_outgoing_seq_num_[d]
                     /\ \A i \in DOMAIN send_buffer_'[d] :
                           cid_next_exp_seq_num_[d] <= send_buffer_'[d][i].seq
    <3>1. /\ cid_tcp_socket_[d] = NoSocket => cid_next_exp_seq_num_[d] = 1
          /\ cid_tcp_socket_[d] # NoSocket =>
                /\ cid_tcp_socket_[d][1] = d /\ cid_tcp_socket_[d][2] <= run[d]
                /\ \A i \in DOMAIN up[cid_tcp_socket_[d]] :
                      cid_next_exp_seq_num_[d] <= up[cid_tcp_socket_[d]][i].seq
                /\ \A r \in lost_requests : cid_tcp_socket_[d] = <<r.client, r.run>> =>
                      cid_next_exp_seq_num_[d] <= r.seq
          /\ cid_tcp_socket_[d] = MySocket(d) =>
                /\ cid_next_exp_seq_num_[d] <= next_outgoing_seq_num_[d]
                /\ \A i \in DOMAIN send_buffer_[d] :
                      cid_next_exp_seq_num_[d] <= send_buffer_[d][i].seq
      BY <1>2 DEF ServerWaits
    <3>2. cid_tcp_socket_[d] # NoSocket => cid_tcp_socket_[d] \in Sockets
      BY ClientTypes
    <3>3. CASE cid_tcp_socket_[d] = s
      <4>1. d = c
        BY <1>5, <3>3
      <4>2. \A i \in DOMAIN up'[s] : cid_next_exp_seq_num_[c] <= up'[s][i].seq
        BY <1>5, <1>9, <3>3, <4>1
      <4>3. \A r \in lost_requests' : s = <<r.client, r.run>> => cid_next_exp_seq_num_[c] <= r.seq
        <5>1. s # NoSocket
          BY <1>1, NoSocketAssumption
        <5>2. QED BY <1>5, <1>10, <3>1, <3>3, <4>1, <5>1
      <4>4. QED BY <1>6, <3>1, <3>3, <4>1, <4>2, <4>3
    <3>4. CASE cid_tcp_socket_[d] # s
      <4>1. \A r \in lost_requests' : r \in lost_requests \/ <<r.client, r.run>> = s
        BY <1>1, <1>3, <1>10
      <4>2. \A i \in DOMAIN send_buffer_'[d] : \E j \in DOMAIN send_buffer_[d] :
               send_buffer_'[d][i] = send_buffer_[d][j]
        BY <1>6
      <4>3. QED BY <1>8, <3>1, <3>2, <3>4, <4>1, <4>2
    <3>5. QED BY <3>3, <3>4
  <2>2. QED BY <1>7, <2>1 DEF ServerWaits
<1>14. SocketLists' /\ Pending' /\ RequestsOnce' /\ NoneSkipped'
  <2>1. SocketLists'
    BY DEF RequestsInv, SocketLists, NoneTwice
  <2>2. QED BY <2>1, AcceptedStays DEF RequestsInv
<1>15. QED BY <1>9, <1>10, <1>11, <1>12, <1>13, <1>14 DEF RequestsInv

\* A gateway reads n responses.
LEMMA GatewayReads ==
    ASSUME TypeOK, ResponsesInv, NEW c \in Clients, NEW n \in 0 .. Len(down[MySocket(c)]),
           next_exp_seq_num_' =
               [next_exp_seq_num_ EXCEPT ![c] = Received(c, down[MySocket(c)], n).exp],
           delivered' = [delivered EXCEPT ![c] = Received(c, down[MySocket(c)], n).got],
           down' = [down EXCEPT ![MySocket(c)] = Rest(@, n)],
           run' = run, lost_responses' = lost_responses, cid_tcp_socket_' = cid_tcp_socket_,
           cid_next_outgoing_seq_num_' = cid_next_outgoing_seq_num_,
           server_buffer_' = server_buffer_, aborted' = aborted, answered' = answered,
           responses' = responses
    PROVE  /\ ResponsesInv' /\ down' \in [Sockets -> Seq(Responses)]
           /\ next_exp_seq_num_' \in [Clients -> Nat \ {0}] /\ delivered' \in [Clients -> Seq(Nat)]
<1> DEFINE s == MySocket(c)
           a == down[s]
           b == server_buffer_[s]
           o == cid_next_outgoing_seq_num_[c]
           e == next_exp_seq_num_[c]
           st == Received(c, a, n)
           Lost == {l \in lost_responses : l.client = c /\ cid_tcp_socket_[c] = s}
           Left == {a[i].seq : i \in {j \in DOMAIN a : j > n}}
           Later == Left \cup {b[i].seq : i \in DOMAIN b} \cup {o} \cup {l.seq : l \in Lost}
<1>1. /\ s \in Sockets /\ s[1] = c /\ a \in Seq(Responses) /\ b \in Seq(Responses)
      /\ o \in Nat \ {0} /\ e \in Nat \ {0} /\ n \in Nat
      /\ \A i \in DOMAIN a : a[i].seq \in Nat
      /\ \A i \in DOMAIN b : b[i].seq \in Nat
      /\ \A l \in lost_responses : l.seq \in Nat /\ l.client \in Clients
      /\ down \in [Sockets -> Seq(Responses)] /\ next_exp_seq_num_ \in [Clients -> Nat \ {0}]
      /\ delivered \in [Clients -> Seq(Nat)]
  <2>1. s \in Sockets /\ s[1] = c /\ o \in Nat \ {0} /\ e \in Nat \ {0}
    BY ClientTypes
  <2>2. a \in Seq(Responses) /\ b \in Seq(Responses)
    BY <2>1, SocketTypes
  <2>3. /\ \A i \in DOMAIN a : a[i].seq \in Nat
        /\ \A i \in DOMAIN b : b[i].seq \in Nat
    BY <2>1, WireTypes
  <2>4. /\ down \in [Sockets -> Seq(Responses)] /\ next_exp_seq_num_ \in [Clients -> Nat \ {0}]
        /\ delivered \in [Clients -> Seq(Nat)]
        /\ \A l \in lost_responses : l.seq \in Nat /\ l.client \in Clients
    BY DEF TypeOK, Responses
  <2>5. n \in Nat
    OBVIOUS
  <2>6. QED BY <2>1, <2>2, <2>3, <2>4, <2>5
<1>2. ResponsesOnTheWay /\ LostResponsesAreGone /\ GatewayWaits /\ ResponsesQueued
  BY DEF ResponsesInv
<1>3. /\ GoUp(a) /\ \A i \in DOMAIN a : /\ a[i].id = a[i].seq /\ a[i].seq < o /\ e <= a[i].seq
      /\ \A i \in DOMAIN b : e <= b[i].seq /\ \A j \in DOMAIN a : a[j].seq < b[i].seq
      /\ e <= o
  <2>1. /\ GoUp(a) /\ \A i \in DOMAIN a : Numbered(a[i], s)
        /\ \A i \in DOMAIN b : \A j \in DOMAIN a : a[j].seq < b[i].seq
    BY <1>1, <1>2 DEF ResponsesOnTheWay
  <2>2. \A i \in DOMAIN a : a[i].id = a[i].seq /\ a[i].seq < o
    BY <1>1, <2>1 DEF Numbered
  <2>3. /\ \A i \in DOMAIN a : e <= a[i].seq
        /\ \A i \in DOMAIN b : e <= b[i].seq
        /\ e <= o
    BY <1>2 DEF GatewayWaits
  <2>4. QED BY <2>1, <2>2, <2>3
<1>4. \A l \in Lost : e <= l.seq /\ \A i \in DOMAIN a : a[i].seq # l.seq
  BY <1>2 DEF LostResponsesAreGone
<1>5. Later \in SUBSET Nat
  BY <1>1
<1>6. ASSUME NEW x \in Later PROVE e <= x /\ \A i \in 1 .. n : a[i].seq # x
  <2>0. \A i \in 1 .. n : i \in DOMAIN a /\ i <= n
    BY <1>1
  <2>1. CASE x \in Left
    <3>1. PICK k \in DOMAIN a : k > n /\ x = a[k].seq
      BY <2>1
    <3>2. ASSUME NEW i \in 1 .. n PROVE a[i].seq # x
      <4>1. i < k /\ i \in DOMAIN a
        BY <1>1, <2>0, <3>1
      <4>2. a[i].seq < a[k].seq /\ a[i].seq \in Nat /\ a[k].seq \in Nat
        BY <1>1, <1>3, <4>1 DEF GoUp
      <4>3. QED BY <3>1, <4>2
    <3>3. QED BY <1>3, <3>1, <3>2
  <2>2. CASE x \in {b[i].seq : i \in DOMAIN b}
    <3>1. PICK k \in DOMAIN b : x = b[k].seq
      BY <2>2
    <3>2. ASSUME NEW i \in 1 .. n PROVE a[i].seq # x
      <4>1. a[i].seq < b[k].seq /\ a[i].seq \in Nat /\ b[k].seq \in Nat
        BY <1>1, <1>3, <2>0
      <4>2. QED BY <3>1, <4>1
    <3>3. QED BY <1>3, <3>1, <3>2
  <2>3. CASE x = o
    <3>1. ASSUME NEW i \in 1 .. n PROVE a[i].seq # o
      <4>1. a[i].seq < o /\ a[i].seq \in Nat
        BY <1>1, <1>3, <2>0
      <4>2. QED BY <1>1, <4>1
    <3>2. QED BY <1>3, <2>3, <3>1
  <2>4. CASE x \in {l.seq : l \in Lost}
    BY <1>4, <2>0, <2>4
  <2>5. QED BY <2>1, <2>2, <2>3, <2>4
<1>7. /\ Len(delivered[c]) = e - 1 /\ \A i \in DOMAIN delivered[c] : delivered[c][i] = i
  BY <1>2 DEF GatewayWaits
<1> HIDE DEF Later
<1>8. /\ st.exp \in Nat \ {0} /\ st.got \in Seq(Nat) /\ Len(st.got) = st.exp - 1
      /\ \A i \in DOMAIN st.got : st.got[i] = i
      /\ \A x \in Later : st.exp <= x
  <2>1. \A i \in DOMAIN a : a[i].id = a[i].seq
    BY <1>3
  <2>2. n \in 0 .. Len(a)
    OBVIOUS
  <2>3. /\ Len(delivered[c]) = next_exp_seq_num_[c] - 1
        /\ \A i \in DOMAIN delivered[c] : delivered[c][i] = i
    BY <1>7
  <2>4. \A x \in Later : /\ next_exp_seq_num_[c] <= x
                         /\ \A i \in 1 .. n : a[i].seq # x
    BY <1>6
  <2>5. a \in Seq(Responses)
    BY <1>1
  <2> HIDE DEF a, e
  <2>6. QED BY <1>5, <2>1, <2>2, <2>3, <2>4, <2>5, Reading
<1>9. /\ \A i \in DOMAIN a : i > n => st.exp <= a[i].seq
      /\ \A i \in DOMAIN b : st.exp <= b[i].seq
      /\ st.exp <= o /\ \A l \in Lost : st.exp <= l.seq
  BY <1>8 DEF Later
<1> HIDE DEF st, a, b, o, e, s, Lost
<1>10. /\ next_exp_seq_num_' = [next_exp_seq_num_ EXCEPT ![c] = st.exp]
       /\ delivered' = [delivered EXCEPT ![c] = st.got]
       /\ down' = [down EXCEPT ![s] = Rest(a, n)]
  BY DEF st, a, s
<1>11. /\ Rest(a, n) \in Seq(Responses) /\ GoUp(Rest(a, n))
       /\ \A i \in DOMAIN Rest(a, n) : i + n \in DOMAIN a /\ i + n > n /\ Rest(a, n)[i] = a[i + n]
  <2>1. n \in 0 .. Len(a)
    BY DEF a, s
  <2>2. QED BY <1>1, <1>3, <2>1, RestLists
<1>12. /\ next_exp_seq_num_' \in [Clients -> Nat \ {0}] /\ next_exp_seq_num_'[c] = st.exp
       /\ \A d \in Clients : d # c => next_exp_seq_num_'[d] = next_exp_seq_num_[d]
       /\ delivered' \in [Clients -> Seq(Nat)] /\ delivered'[c] = st.got
       /\ \A d \in Clients : d # c => delivered'[d] = delivered[d]
       /\ down' \in [Sockets -> Seq(Responses)] /\ down'[s] = Rest(a, n)
       /\ \A u \in Sockets : u # s => down'[u] = down[u]
  <2>1. /\ next_exp_seq_num_' \in [Clients -> Nat \ {0}] /\ next_exp_seq_num_'[c] = st.exp
        /\ \A d \in Clients : d # c => next_exp_seq_num_'[d] = next_exp_seq_num_[d]
    BY <1>1, <1>8, <1>10
  <2>2. /\ delivered' \in [Clients -> Seq(Nat)] /\ delivered'[c] = st.got
        /\ \A d \in Clients : d # c => delivered'[d] = delivered[d]
    BY <1>1, <1>8, <1>10
  <2>3. /\ down' \in [Sockets -> Seq(Responses)] /\ down'[s] = Rest(a, n)
        /\ \A u \in Sockets : u # s => down'[u] = down[u]
    <3>1. /\ s \in Sockets /\ down \in [Sockets -> Seq(Responses)]
          /\ Rest(a, n) \in Seq(Responses)
      BY <1>1, <1>11
    <3> DEFINE g == [down EXCEPT ![s] = Rest(a, n)]
    <3>2. /\ g \in [Sockets -> Seq(Responses)] /\ g[s] = Rest(a, n)
          /\ \A u \in Sockets : u # s => g[u] = down[u]
      BY <3>1, Update, Zenon
    <3>3. down' = g
      BY <1>10
    <3> HIDE DEF g
    <3>4. QED BY <3>2, <3>3, Zenon
  <2>4. QED BY <2>1, <2>2, <2>3
<1>13. \A u \in Sockets : /\ GoUp(down'[u])
                          /\ \A i \in DOMAIN down'[u] :
                                \E j \in DOMAIN down[u] : down'[u][i] = down[u][j]
  <2>1. /\ GoUp(down'[s]) /\ \A i \in DOMAIN down'[s] : \E j \in DOMAIN a : down'[s][i] = a[j]
    BY <1>11, <1>12
  <2>2. \A u \in Sockets : u # s => GoUp(down'[u])
    BY <1>2, <1>12 DEF ResponsesOnTheWay
  <2>3. QED BY <1>12, <2>1, <2>2 DEF a
<1>14. ResponsesOnTheWay'
  <2>1. ASSUME NEW u \in Sockets
        PROVE  /\ GoUp(down'[u]) /\ GoUp(server_buffer_[u])
               /\ \A i \in DOMAIN down'[u] : Numbered(down'[u][i], u)
               /\ \A i \in DOMAIN server_buffer_[u] :
                     /\ Numbered(server_buffer_[u][i], u)
                     /\ \A j \in DOMAIN down'[u] : down'[u][j].seq < server_buffer_[u][i].seq
    BY <1>2, <1>13 DEF ResponsesOnTheWay
  <2>2. QED BY <2>1 DEF ResponsesOnTheWay, Numbered, GoUp
<1>15. LostResponsesAreGone'
  <2>1. ASSUME NEW l \in lost_responses
        PROVE  /\ cid_tcp_socket_[l.client] # NoSocket
               /\ l.seq < cid_next_outgoing_seq_num_[l.client]
               /\ \A i \in DOMAIN down'[cid_tcp_socket_[l.client]] :
                     down'[cid_tcp_socket_[l.client]][i].seq # l.seq
               /\ \A i \in DOMAIN server_buffer_[cid_tcp_socket_[l.client]] :
                     server_buffer_[cid_tcp_socket_[l.client]][i].seq # l.seq
               /\ cid_tcp_socket_[l.client] = MySocket(l.client) =>
                     next_exp_seq_num_'[l.client] <= l.seq
    <3>1. /\ cid_tcp_socket_[l.client] # NoSocket
          /\ l.seq < cid_next_outgoing_seq_num_[l.client]
          /\ \A i \in DOMAIN down[cid_tcp_socket_[l.client]] :
                down[cid_tcp_socket_[l.client]][i].seq # l.seq
          /\ \A i \in DOMAIN server_buffer_[cid_tcp_socket_[l.client]] :
                server_buffer_[cid_tcp_socket_[l.client]][i].seq # l.seq
          /\ cid_tcp_socket_[l.client] = MySocket(l.client) =>
                next_exp_seq_num_[l.client] <= l.seq
      BY <1>2 DEF LostResponsesAreGone
    <3>2. l.client \in Clients /\ cid_tcp_socket_[l.client] \in Sockets
      BY <1>1, <3>1, ClientTypes
    <3>3. cid_tcp_socket_[l.client] = MySocket(l.client) => next_exp_seq_num_'[l.client] <= l.seq
      <4>1. CASE l.client = c
        BY <1>9, <1>12, <4>1 DEF Lost, s
      <4>2. CASE l.client # c
        BY <1>12, <3>1, <3>2, <4>2
      <4>3. QED BY <4>1, <4>2
    <3>4. QED BY <1>13, <3>1, <3>2, <3>3
  <2>2. QED BY <2>1 DEF LostResponsesAreGone, MySocket
<1>16. GatewayWaits'
  <2>1. ASSUME NEW d \in Clients
        PROVE  /\ next_exp_seq_num_'[d] <= cid_next_outgoing_seq_num_[d]
               /\ \A i \in DOMAIN down'[MySocket(d)] :
                     next_exp_seq_num_'[d] <= down'[MySocket(d)][i].seq
               /\ \A i \in DOMAIN server_buffer_[MySocket(d)] :
                     next_exp_seq_num_'[d] <= server_buffer_[MySocket(d)][i].seq
               /\ Len(delivered'[d]) = next_exp_seq_num_'[d] - 1
               /\ \A i \in DOMAIN delivered'[d] : delivered'[d][i] = i
    <3>1. CASE d = c
      <4>1. MySocket(d) = s /\ b = server_buffer_[s] /\ o = cid_next_outgoing_seq_num_[d]
        BY <3>1 DEF s, b, o
      <4>2. \A i \in DOMAIN Rest(a, n) : st.exp <= Rest(a, n)[i].seq
        BY <1>9, <1>11
      <4>3. QED BY <1>8, <1>9, <1>12, <3>1, <4>1, <4>2
    <3>2. CASE d # c
      <4>1. MySocket(d) \in Sockets /\ MySocket(d) # s
        BY <1>1, <3>2, ClientTypes
      <4>2. QED BY <1>2, <1>12, <3>2, <4>1 DEF GatewayWaits
    <3>3. QED BY <3>1, <3>2
  <2>2. QED BY <2>1 DEF GatewayWaits, MySocket
<1>17. ResponsesQueued'
  BY <1>2, QueueStays
<1>18. QED BY <1>12, <1>14, <1>15, <1>16, <1>17 DEF ResponsesInv

\* One sendAndRecv() of a gateway.
LEMMA GatewayKeeps ==
    ASSUME OrderEntryInv, NEW c \in Clients, GatewayStep(c)
    PROVE  OrderEntryInv'
<1> DEFINE s == MySocket(c)
<1>1. PICK n \in 0 .. Len(down[s]), sent \in BOOLEAN : GatewaySendAndRecv(c, n, sent)
  BY DEF GatewayStep
<1>2. /\ next_exp_seq_num_' = [next_exp_seq_num_ EXCEPT ![c] = Received(c, down[s], n).exp]
      /\ delivered' = [delivered EXCEPT ![c] = Received(c, down[s], n).got]
      /\ down' = [down EXCEPT ![s] = Rest(@, n)]
      /\ IF sent THEN /\ up' = [up EXCEPT ![s] = @ \o send_buffer_[c]]
                      /\ lost_requests' = lost_requests
         ELSE up' = up /\ lost_requests' = lost_requests \cup ToSet(send_buffer_[c])
      /\ send_buffer_' = [send_buffer_ EXCEPT ![c] = << >>]
      /\ UNCHANGED <<run, next_outgoing_seq_num_, lost_responses, backlog, server,
                     sequenced, engine, responses>>
  BY <1>1 DEF GatewaySendAndRecv, Emptied
<1>3. /\ run' = run /\ next_outgoing_seq_num_' = next_outgoing_seq_num_
      /\ lost_responses' = lost_responses /\ backlog' = backlog /\ pc' = pc /\ todo' = todo
      /\ receive_sockets_' = receive_sockets_ /\ disconnected_sockets_' = disconnected_sockets_
      /\ cid_tcp_socket_' = cid_tcp_socket_ /\ cid_next_exp_seq_num_' = cid_next_exp_seq_num_
      /\ cid_next_outgoing_seq_num_' = cid_next_outgoing_seq_num_
      /\ server_buffer_' = server_buffer_
      /\ pending_client_requests_' = pending_client_requests_ /\ aborted' = aborted
      /\ sequenced' = sequenced /\ taken' = taken /\ answered' = answered
      /\ responses' = responses
  BY <1>2 DEF server, engine, loop, sockets, table
<1>4. TypeOK /\ RequestsInv /\ ResponsesInv
  BY DEF OrderEntryInv
<1>5. RequestsInv' /\ up' \in [Sockets -> Seq(Requests)] /\ lost_requests' \subseteq Requests
  BY <1>2, <1>3, <1>4, GatewaySends
<1>6. /\ ResponsesInv' /\ down' \in [Sockets -> Seq(Responses)]
      /\ next_exp_seq_num_' \in [Clients -> Nat \ {0}] /\ delivered' \in [Clients -> Seq(Nat)]
  BY <1>2, <1>3, <1>4, GatewayReads
<1>7. send_buffer_' \in [Clients -> Seq(Requests)]
  <2>1. << >> \in Seq(Requests)
    OBVIOUS
  <2>2. send_buffer_ \in [Clients -> Seq(Requests)]
    BY <1>4 DEF TypeOK
  <2>3. QED BY <1>2, <2>1, <2>2
<1>8. TypeOK'
  BY <1>3, <1>4, <1>5, <1>6, <1>7 DEF TypeOK
<1>9. QED BY <1>5, <1>6, <1>8 DEF OrderEntryInv

\* A process that is started again has a socket that nobody has seen.
LEMMA NewSocket ==
    ASSUME OrderEntryInv, NEW c \in Clients, run[c] < MaxRuns
    PROVE  /\ <<c, run[c] + 1>> \in Sockets /\ <<c, run[c] + 1>> # MySocket(c)
           /\ <<c, run[c] + 1>>[1] = c /\ <<c, run[c] + 1>>[2] = run[c] + 1
           /\ cid_tcp_socket_[c] # <<c, run[c] + 1>>
           /\ up[<<c, run[c] + 1>>] = << >>
           /\ DOMAIN down[<<c, run[c] + 1>>] = {}
           /\ DOMAIN server_buffer_[<<c, run[c] + 1>>] = {}
           /\ \A i \in DOMAIN backlog : backlog[i] # <<c, run[c] + 1>>
           /\ \A i \in DOMAIN receive_sockets_ : receive_sockets_[i] # <<c, run[c] + 1>>
<1> DEFINE k   == run[c] + 1
           new == <<c, k>>
<1>0. TypeOK /\ RequestsInv /\ ResponsesInv
  BY DEF OrderEntryInv
<1>1. k \in 1 .. MaxRuns /\ k \in Nat /\ ~(k <= run[c]) /\ run[c] \in Nat /\ MaxRuns \in Nat
  <2>1. MaxRuns \in Nat /\ run[c] \in Nat
    BY <1>0, CountsAssumption, ClientTypes
  <2>2. QED BY <2>1
<1>2. new \in Sockets /\ new # MySocket(c) /\ new[1] = c /\ new[2] = k /\ new # NoSocket
  <2>1. new \in Sockets /\ new[1] = c /\ new[2] = k
    BY <1>1 DEF Sockets
  <2>2. MySocket(c)[2] = run[c]
    BY <1>0, ClientTypes
  <2>3. QED BY <1>1, <2>1, <2>2, NoSocketAssumption
<1> HIDE DEF k, new
<1>3. cid_tcp_socket_[c] # new
  <2>1. cid_tcp_socket_[c] # NoSocket => cid_tcp_socket_[c][2] <= run[c]
    BY <1>0 DEF RequestsInv, ServerWaits
  <2>2. QED BY <1>1, <1>2, <2>1
<1>4. up[new] = << >>
  <2>1. up[new] # << >> => new[2] <= run[new[1]]
    BY <1>0, <1>2 DEF RequestsInv, RequestsOnTheWay
  <2>2. QED BY <1>1, <1>2, <2>1
<1>5. DOMAIN down[new] = {} /\ DOMAIN server_buffer_[new] = {}
  <2>1. /\ \A i \in DOMAIN down[new] : Numbered(down[new][i], new)
        /\ \A i \in DOMAIN server_buffer_[new] : Numbered(server_buffer_[new][i], new)
    BY <1>0, <1>2 DEF ResponsesInv, ResponsesOnTheWay
  <2>2. \A r : ~Numbered(r, new)
    BY <1>2, <1>3 DEF Numbered
  <2>3. QED BY <2>1, <2>2
<1>6. /\ \A i \in DOMAIN backlog : backlog[i] # new
      /\ \A i \in DOMAIN receive_sockets_ : receive_sockets_[i] # new
  <2>1. /\ \A i \in DOMAIN backlog : backlog[i][2] <= run[backlog[i][1]]
        /\ \A i \in DOMAIN receive_sockets_ :
              receive_sockets_[i][2] <= run[receive_sockets_[i][1]]
    BY <1>0 DEF RequestsInv, SocketLists
  <2>2. QED BY <1>1, <1>2, <2>1
<1>7. QED BY <1>2, <1>3, <1>4, <1>5, <1>6 DEF k, new

\* What was not read of the connection that ends, and what was not sent, is
\* lost with it.
LEMMA RestartRequests ==
    ASSUME OrderEntryInv, NEW c \in Clients, Restart(c)
    PROVE  /\ RequestsInv' /\ up' \in [Sockets -> Seq(Requests)]
           /\ lost_requests' \subseteq Requests /\ backlog' \in Seq(Sockets)
<1> DEFINE s == MySocket(c)
           k == run[c] + 1
           new == <<c, k>>
           a == up[s]
           b == send_buffer_[c]
<1>0. TypeOK /\ RequestsInv /\ run[c] < MaxRuns
  BY DEF OrderEntryInv, Restart
<1>1. PICK n \in 0 .. Len(a) :
        /\ up' = [up EXCEPT ![s] = Prefix(a, n)]
        /\ lost_requests' = lost_requests \cup ToSet(Rest(a, n)) \cup ToSet(b)
  BY DEF Restart
<1>2. /\ s \in Sockets /\ s = <<c, run[c]>> /\ s[1] = c /\ s[2] = run[c] /\ run[c] \in Nat
      /\ a \in Seq(Requests) /\ b \in Seq(Requests) /\ up \in [Sockets -> Seq(Requests)]
      /\ lost_requests \subseteq Requests /\ n \in Nat /\ backlog \in Seq(Sockets)
      /\ \A i \in DOMAIN a : a[i] \in Requests /\ a[i].seq \in Nat
      /\ \A i \in DOMAIN b : b[i] \in Requests /\ b[i].seq \in Nat
  <2>1. /\ s \in Sockets /\ s = <<c, run[c]>> /\ s[1] = c /\ s[2] = run[c] /\ run[c] \in Nat
        /\ b \in Seq(Requests)
    BY <1>0, ClientTypes
  <2>2. a \in Seq(Requests)
    BY <1>0, <2>1, SocketTypes
  <2>3. /\ up \in [Sockets -> Seq(Requests)] /\ lost_requests \subseteq Requests
        /\ backlog \in Seq(Sockets)
    BY <1>0 DEF TypeOK
  <2>4. /\ \A i \in DOMAIN a : a[i] \in Requests
        /\ \A i \in DOMAIN b : b[i] \in Requests
    BY <2>1, <2>2
  <2>5. n \in Nat
    OBVIOUS
  <2>6. QED BY <2>1, <2>2, <2>3, <2>4, <2>5, RequestTypes
<1>3. /\ new \in Sockets /\ new # s /\ new[1] = c /\ new[2] = k /\ cid_tcp_socket_[c] # new
      /\ up[new] = << >>
      /\ \A i \in DOMAIN backlog : backlog[i] # new
      /\ \A i \in DOMAIN receive_sockets_ : receive_sockets_[i] # new
  BY <1>0, NewSocket
<1>4. /\ run' = [run EXCEPT ![c] = k] /\ backlog' = Append(backlog, new)
      /\ next_outgoing_seq_num_' = [next_outgoing_seq_num_ EXCEPT ![c] = 1]
      /\ send_buffer_' = [send_buffer_ EXCEPT ![c] = << >>]
  BY DEF Restart
<1>5. /\ receive_sockets_' = receive_sockets_ /\ pc' = pc /\ todo' = todo
      /\ cid_tcp_socket_' = cid_tcp_socket_ /\ cid_next_exp_seq_num_' = cid_next_exp_seq_num_
      /\ pending_client_requests_' = pending_client_requests_ /\ aborted' = aborted
      /\ sequenced' = sequenced
  BY DEF Restart, server, loop, sockets, table
<1>6. RequestsOnTheWay /\ LostRequestsAreGone /\ ServerWaits /\ SocketLists
  BY <1>0 DEF RequestsInv
<1>7. /\ GoUp(a) /\ \A i \in DOMAIN a : a[i].client = c /\ a[i].run = run[c]
      /\ \A i \in DOMAIN b : b[i].client = c /\ b[i].run = run[c]
      /\ \A i \in DOMAIN a, j \in DOMAIN b : a[i].seq < b[j].seq
  BY <1>2, <1>6 DEF RequestsOnTheWay
<1>8. /\ Prefix(a, n) \in Seq(Requests) /\ Len(Prefix(a, n)) = n /\ GoUp(Prefix(a, n))
      /\ \A i \in DOMAIN Prefix(a, n) : i \in DOMAIN a /\ i <= n /\ Prefix(a, n)[i] = a[i]
  BY <1>2, <1>7, PrefixLists
<1>9. /\ Rest(a, n) \in Seq(Requests)
      /\ \A i \in DOMAIN Rest(a, n) : i + n \in DOMAIN a /\ i + n > n /\ Rest(a, n)[i] = a[i + n]
  BY <1>2, RestLists
<1>10. /\ lost_requests' \subseteq Requests
       /\ \A l \in lost_requests' : \/ l \in lost_requests
                                    \/ \E i \in DOMAIN a : i > n /\ l = a[i]
                                    \/ \E j \in DOMAIN b : l = b[j]
  <2>1. /\ ToSet(Rest(a, n)) \subseteq Requests
        /\ \A x \in ToSet(Rest(a, n)) : \E i \in DOMAIN Rest(a, n) : Rest(a, n)[i] = x
    BY <1>9, Members
  <2>2. ToSet(b) \subseteq Requests /\ \A x \in ToSet(b) : \E i \in DOMAIN b : b[i] = x
    BY <1>2, Members
  <2>3. \A x \in ToSet(Rest(a, n)) : \E i \in DOMAIN a : i > n /\ x = a[i]
    BY <1>9, <2>1
  <2> HIDE DEF a, b
  <2>4. QED BY <1>1, <1>2, <2>1, <2>2, <2>3
<1>11. /\ up' \in [Sockets -> Seq(Requests)] /\ up'[s] = Prefix(a, n)
       /\ \A u \in Sockets : u # s => up'[u] = up[u]
  <2> HIDE DEF s, a
  <2>1. QED BY <1>1, <1>2, <1>8, Update
<1>12. \A u \in Sockets : /\ GoUp(up'[u])
                          /\ \A i \in DOMAIN up'[u] : i \in DOMAIN up[u] /\ up'[u][i] = up[u][i]
  <2>1. \A u \in Sockets : u # s => GoUp(up'[u])
    BY <1>6, <1>11 DEF RequestsOnTheWay
  <2>2. QED BY <1>8, <1>11, <2>1
<1>13. /\ run'[c] = k /\ \A d \in Clients : d # c => run'[d] = run[d]
       /\ \A d \in Clients : run[d] \in Nat /\ run'[d] \in Nat /\ run[d] <= run'[d]
       /\ send_buffer_'[c] = << >> /\ \A d \in Clients : d # c => send_buffer_'[d] = send_buffer_[d]
       /\ \A d \in Clients : d # c => next_outgoing_seq_num_'[d] = next_outgoing_seq_num_[d]
  <2>1. run'[c] = k /\ \A d \in Clients : d # c => run'[d] = run[d]
    BY <1>0, <1>4 DEF TypeOK
  <2>2. \A d \in Clients : run[d] \in Nat
    BY <1>0, ClientTypes
  <2>3. k \in Nat /\ run[c] <= k
    BY <1>2
  <2>4. \A d \in Clients : run[d] \in Nat /\ run'[d] \in Nat /\ run[d] <= run'[d]
    BY <2>1, <2>2, <2>3
  <2>5. send_buffer_'[c] = << >> /\ \A d \in Clients : d # c => send_buffer_'[d] = send_buffer_[d]
    BY <1>0, <1>4 DEF TypeOK
  <2>6. \A d \in Clients : d # c => next_outgoing_seq_num_'[d] = next_outgoing_seq_num_[d]
    BY <1>0, <1>4 DEF TypeOK
  <2>7. QED BY <2>1, <2>4, <2>5, <2>6
<1>14. /\ MySocket(c)' = new /\ \A d \in Clients : d # c => MySocket(d)' = MySocket(d)
       /\ \A d \in Clients : MySocket(d) \in Sockets /\ (d # c => MySocket(d) # s)
       /\ ~(k <= run[c]) /\ k # run[c]
  <2>1. MySocket(c)' = new /\ \A d \in Clients : d # c => MySocket(d)' = MySocket(d)
    BY <1>13 DEF MySocket
  <2>2. \A d \in Clients : MySocket(d) \in Sockets /\ (d # c => MySocket(d) # s)
    BY <1>0, <1>2, ClientTypes
  <2>3. QED BY <1>2, <2>1, <2>2
<1> HIDE DEF s, k, new, a, b
<1>15. RequestsOnTheWay'
  <2>1. ASSUME NEW u \in Sockets
        PROVE  /\ GoUp(up'[u])
               /\ \A i \in DOMAIN up'[u] : up'[u][i].client = u[1] /\ up'[u][i].run = u[2]
               /\ up'[u] # << >> => u[2] <= run'[u[1]]
    <3>1. \A i \in DOMAIN up'[u] : up'[u][i].client = u[1] /\ up'[u][i].run = u[2]
      BY <1>6, <1>12 DEF RequestsOnTheWay
    <3>2. ASSUME up'[u] # << >> PROVE u[2] <= run'[u[1]]
      <4>1. u[1] \in Clients /\ u[2] \in Nat
        BY <1>0, SocketTypes
      <4>2. up'[u] \in Seq(Requests)
        BY <1>11
      <4>3. 1 \in DOMAIN up'[u]
        BY <3>2, <4>2
      <4>4. up[u] # << >>
        BY <1>12, <4>3
      <4>5. u[2] <= run[u[1]]
        BY <1>6, <4>4 DEF RequestsOnTheWay
      <4>6. QED BY <1>13, <4>1, <4>5
    <3>3. QED BY <1>12, <3>1, <3>2
  <2>2. ASSUME NEW d \in Clients
        PROVE  /\ GoUp(send_buffer_'[d])
               /\ \A i \in DOMAIN send_buffer_'[d] :
                     /\ send_buffer_'[d][i].client = d /\ send_buffer_'[d][i].run = run'[d]
                     /\ send_buffer_'[d][i].seq < next_outgoing_seq_num_'[d]
               /\ \A i \in DOMAIN up'[MySocket(d)'] :
                     /\ up'[MySocket(d)'][i].seq < next_outgoing_seq_num_'[d]
                     /\ \A j \in DOMAIN send_buffer_'[d] :
                           up'[MySocket(d)'][i].seq < send_buffer_'[d][j].seq
    <3>1. CASE d = c
      <4>1. up'[new] = << >>
        BY <1>3, <1>11
      <4>2. QED BY <1>13, <1>14, <3>1, <4>1 DEF GoUp
    <3>2. CASE d # c
      BY <1>6, <1>11, <1>13, <1>14, <3>2 DEF RequestsOnTheWay
    <3>3. QED BY <3>1, <3>2
  <2>3. QED BY <2>1, <2>2 DEF RequestsOnTheWay, GoUp
<1>16. LostRequestsAreGone'
  <2>1. ASSUME NEW l \in lost_requests'
        PROVE  /\ l.run <= run'[l.client]
               /\ l.run = run'[l.client] => l.seq < next_outgoing_seq_num_'[l.client]
               /\ \A i \in DOMAIN up'[<<l.client, l.run>>] : up'[<<l.client, l.run>>][i] # l
               /\ \A i \in DOMAIN send_buffer_'[l.client] : send_buffer_'[l.client][i] # l
    <3>0. l.client \in Clients /\ <<l.client, l.run>> \in Sockets /\ l.run \in Nat
      BY <1>10, RequestTypes
    <3>1. CASE l \in lost_requests
      <4>1. /\ l.run <= run[l.client]
            /\ l.run = run[l.client] => l.seq < next_outgoing_seq_num_[l.client]
            /\ \A i \in DOMAIN up[<<l.client, l.run>>] : up[<<l.client, l.run>>][i] # l
            /\ \A i \in DOMAIN send_buffer_[l.client] : send_buffer_[l.client][i] # l
        BY <1>6, <3>1 DEF LostRequestsAreGone
      <4>2. l.run <= run'[l.client]
        BY <1>13, <3>0, <4>1
      <4>3. l.client = c => l.run # run'[l.client]
        BY <1>13, <1>14, <4>1
      <4>4. \A i \in DOMAIN up'[<<l.client, l.run>>] : up'[<<l.client, l.run>>][i] # l
        BY <1>12, <3>0, <4>1
      <4>5. QED BY <1>13, <3>0, <4>1, <4>2, <4>3, <4>4
    <3>2. CASE l \notin lost_requests
      <4>1. /\ l.client = c /\ l.run = run[c]
            /\ \A i \in DOMAIN a : i <= n => a[i] # l
        <5>1. CASE \E i \in DOMAIN a : i > n /\ l = a[i]
          <6>1. PICK i \in DOMAIN a : i > n /\ l = a[i]
            BY <5>1
          <6>2. ASSUME NEW j \in DOMAIN a, j <= n PROVE a[j] # l
            <7>1. j < i
              BY <1>2, <6>1, <6>2
            <7>2. a[j].seq < a[i].seq /\ a[j].seq \in Nat
              BY <1>2, <1>7, <7>1 DEF GoUp
            <7>3. QED BY <6>1, <7>2
          <6>3. QED BY <1>7, <6>1, <6>2
        <5>2. CASE \E j \in DOMAIN b : l = b[j]
          <6>1. PICK j \in DOMAIN b : l = b[j]
            BY <5>2
          <6>2. ASSUME NEW i \in DOMAIN a PROVE a[i] # l
            <7>1. a[i].seq < b[j].seq /\ a[i].seq \in Nat
              BY <1>2, <1>7
            <7>2. QED BY <6>1, <7>1
          <6>3. QED BY <1>7, <6>1, <6>2
        <5>3. QED BY <1>10, <3>2, <5>1, <5>2
      <4>2. <<l.client, l.run>> = s
        BY <1>2, <4>1
      <4>3. \A i \in DOMAIN up'[s] : up'[s][i] # l
        BY <1>8, <1>11, <4>1
      <4>4. l.run <= run'[c] /\ l.run # run'[c]
        BY <1>13, <1>14, <4>1
      <4>5. QED BY <1>13, <4>1, <4>2, <4>3, <4>4
    <3>3. QED BY <3>1, <3>2
  <2>2. QED BY <2>1 DEF LostRequestsAreGone
<1>17. ServerWaits'
  <2>1. ASSUME NEW d \in Clients
        PROVE  /\ cid_tcp_socket_[d] = NoSocket => cid_next_exp_seq_num_[d] = 1
               /\ cid_tcp_socket_[d] # NoSocket =>
                     /\ cid_tcp_socket_[d][1] = d /\ cid_tcp_socket_[d][2] <= run'[d]
                     /\ \A i \in DOMAIN up'[cid_tcp_socket_[d]] :
                           cid_next_exp_seq_num_[d] <= up'[cid_tcp_socket_[d]][i].seq
                     /\ \A r \in lost_requests' : cid_tcp_socket_[d] = <<r.client, r.run>> =>
                           cid_next_exp_seq_num_[d] <= r.seq
               /\ cid_tcp_socket_[d] = MySocket(d)' =>
                     /\ cid_next_exp_seq_num_[d] <= next_outgoing_seq_num_'[d]
                     /\ \A i \in DOMAIN send_buffer_'[d] :
                           cid_next_exp_seq_num_[d] <= send_buffer_'[d][i].seq
    <3>1. /\ cid_tcp_socket_[d] = NoSocket => cid_next_exp_seq_num_[d] = 1
          /\ cid_tcp_socket_[d] # NoSocket =>
                /\ cid_tcp_socket_[d][1] = d /\ cid_tcp_socket_[d][2] <= run[d]
                /\ \A i \in DOMAIN up[cid_tcp_socket_[d]] :
                      cid_next_exp_seq_num_[d] <= up[cid_tcp_socket_[d]][i].seq
                /\ \A r \in lost_requests : cid_tcp_socket_[d] = <<r.client, r.run>> =>
                      cid_next_exp_seq_num_[d] <= r.seq
          /\ cid_tcp_socket_[d] = MySocket(d) =>
                /\ cid_next_exp_seq_num_[d] <= next_outgoing_seq_num_[d]
                /\ \A i \in DOMAIN send_buffer_[d] :
                      cid_next_exp_seq_num_[d] <= send_buffer_[d][i].seq
      BY <1>6 DEF ServerWaits
    <3>2. cid_tcp_socket_[d] # NoSocket => /\ cid_tcp_socket_[d] \in Sockets
                                           /\ cid_tcp_socket_[d][2] \in Nat
      BY <1>0, ClientTypes, SocketTypes
    <3>3. cid_tcp_socket_[d] # NoSocket => cid_tcp_socket_[d][2] <= run'[d]
      BY <1>13, <3>1, <3>2
    <3>4. ASSUME cid_tcp_socket_[d] # NoSocket, NEW r \in lost_requests',
                 cid_tcp_socket_[d] = <<r.client, r.run>>
          PROVE  cid_next_exp_seq_num_[d] <= r.seq
      <4>1. CASE r \in lost_requests
        BY <3>1, <3>4, <4>1
      <4>2. CASE \E i \in DOMAIN a : i > n /\ r = a[i]
        <5>1. PICK i \in DOMAIN a : r = a[i]
          BY <4>2
        <5>2. cid_tcp_socket_[d] = s
          BY <1>2, <1>7, <3>4, <5>1
        <5>3. QED BY <3>1, <3>4, <5>1, <5>2 DEF a
      <4>3. CASE \E j \in DOMAIN b : r = b[j]
        <5>1. PICK j \in DOMAIN b : r = b[j]
          BY <4>3
        <5>2. cid_tcp_socket_[d] = s
          BY <1>2, <1>7, <3>4, <5>1
        <5>3. d = c
          BY <1>2, <3>1, <3>4, <5>2
        <5>4. QED BY <3>1, <5>1, <5>2, <5>3 DEF b, s
      <4>4. QED BY <1>10, <4>1, <4>2, <4>3
    <3>5. ASSUME cid_tcp_socket_[d] = MySocket(d)'
          PROVE  /\ cid_next_exp_seq_num_[d] <= next_outgoing_seq_num_'[d]
                 /\ \A i \in DOMAIN send_buffer_'[d] :
                       cid_next_exp_seq_num_[d] <= send_buffer_'[d][i].seq
      <4>1. d # c
        BY <1>3, <1>14, <3>5
      <4>2. QED BY <1>13, <1>14, <3>1, <3>5, <4>1
    <3>6. QED BY <1>12, <3>1, <3>2, <3>3, <3>4, <3>5
  <2>2. QED BY <1>5, <2>1 DEF ServerWaits
<1>18. SocketLists' /\ backlog' \in Seq(Sockets)
  <2>1. /\ NoneTwice(receive_sockets_) /\ NoneTwice(backlog) /\ NoneTwice(todo)
        /\ \A i \in DOMAIN receive_sockets_, j \in DOMAIN backlog :
              receive_sockets_[i] # backlog[j]
        /\ \A i \in DOMAIN receive_sockets_ : receive_sockets_[i][2] <= run[receive_sockets_[i][1]]
        /\ \A i \in DOMAIN backlog : backlog[i][2] <= run[backlog[i][1]]
        /\ \A i \in DOMAIN todo : todo[i][2] <= run[todo[i][1]]
    BY <1>6 DEF SocketLists
  <2> DEFINE g == Append(backlog, new)
  <2>2. /\ g \in Seq(Sockets)
        /\ \A i \in DOMAIN g : (i \in DOMAIN backlog /\ g[i] = backlog[i]) \/ g[i] = new
    BY <1>2, <1>3, AppendLists
  <2>3. NoneTwice(g)
    BY <1>2, <1>3, <2>1, AppendNoneTwice
  <2>4. backlog' = g
    BY <1>4
  <2> HIDE DEF g
  <2>5. \A i \in DOMAIN receive_sockets_, j \in DOMAIN g : receive_sockets_[i] # g[j]
    BY <1>3, <2>1, <2>2
  <2>6. ASSUME NEW u \in Sockets, u[2] <= run[u[1]] PROVE u[2] <= run'[u[1]]
    <3>1. u[1] \in Clients /\ u[2] \in Nat
      BY <1>0, SocketTypes
    <3>2. QED BY <1>13, <2>6, <3>1
  <2>7. \A i \in DOMAIN receive_sockets_ : receive_sockets_[i][2] <= run'[receive_sockets_[i][1]]
    <3>1. receive_sockets_ \in Seq(Sockets)
      BY <1>0 DEF TypeOK
    <3>2. \A i \in DOMAIN receive_sockets_ : receive_sockets_[i] \in Sockets
      BY <3>1
    <3>3. QED BY <2>1, <2>6, <3>2
  <2>8. \A i \in DOMAIN g : g[i][2] <= run'[g[i][1]]
    <3>1. \A i \in DOMAIN backlog : backlog[i] \in Sockets
      BY <1>2
    <3>2. new[2] <= run'[new[1]]
      BY <1>2, <1>3, <1>13 DEF k
    <3>3. QED BY <2>1, <2>2, <2>6, <3>1, <3>2
  <2>9. \A i \in DOMAIN todo : todo[i][2] <= run'[todo[i][1]]
    <3>1. todo \in Seq(Sockets)
      BY <1>0 DEF TypeOK
    <3>2. \A i \in DOMAIN todo : todo[i] \in Sockets
      BY <3>1
    <3>3. QED BY <2>1, <2>6, <3>2
  <2>10. QED BY <1>5, <2>1, <2>2, <2>3, <2>4, <2>5, <2>7, <2>8, <2>9 DEF SocketLists, NoneTwice
<1>19. Pending' /\ RequestsOnce' /\ NoneSkipped'
  BY <1>0, <1>5, AcceptedStays DEF RequestsInv
<1>20. QED BY <1>10, <1>11, <1>15, <1>16, <1>17, <1>18, <1>19 DEF RequestsInv

\* The responses on a connection end with it; the new gateway waits for number
\* 1, which its connection never carries.
LEMMA RestartResponses ==
    ASSUME OrderEntryInv, NEW c \in Clients, Restart(c)
    PROVE  ResponsesInv' /\ down' \in [Sockets -> Seq(Responses)]
<1> DEFINE s == MySocket(c)
           new == <<c, run[c] + 1>>
<1>0. TypeOK /\ ResponsesInv /\ run[c] < MaxRuns
  BY DEF OrderEntryInv, Restart
<1>1. /\ new \in Sockets /\ new # s /\ cid_tcp_socket_[c] # new
      /\ DOMAIN down[new] = {} /\ DOMAIN server_buffer_[new] = {}
  BY <1>0, NewSocket
<1>2. /\ run' = [run EXCEPT ![c] = run[c] + 1] /\ down' = [down EXCEPT ![s] = << >>]
      /\ next_exp_seq_num_' = [next_exp_seq_num_ EXCEPT ![c] = 1]
      /\ delivered' = [delivered EXCEPT ![c] = << >>]
  BY DEF Restart
<1>3. /\ lost_responses' = lost_responses /\ cid_tcp_socket_' = cid_tcp_socket_
      /\ cid_next_outgoing_seq_num_' = cid_next_outgoing_seq_num_
      /\ server_buffer_' = server_buffer_ /\ aborted' = aborted
      /\ answered' = answered /\ responses' = responses
  BY DEF Restart, server, table, engine
<1>4. ResponsesOnTheWay /\ LostResponsesAreGone /\ GatewayWaits /\ ResponsesQueued
  BY <1>0 DEF ResponsesInv
<1>5. /\ run'[c] = run[c] + 1 /\ \A d \in Clients : d # c => run'[d] = run[d]
  BY <1>0, <1>2 DEF TypeOK
<1>6. /\ next_exp_seq_num_'[c] = 1 /\ delivered'[c] = << >>
      /\ \A d \in Clients : d # c => /\ next_exp_seq_num_'[d] = next_exp_seq_num_[d]
                                     /\ delivered'[d] = delivered[d]
  BY <1>0, <1>2 DEF TypeOK
<1>7. /\ down' \in [Sockets -> Seq(Responses)] /\ down'[s] = << >>
      /\ \A u \in Sockets : u # s => down'[u] = down[u]
  <2>1. s \in Sockets /\ << >> \in Seq(Responses)
    BY <1>0, ClientTypes
  <2>2. down \in [Sockets -> Seq(Responses)]
    BY <1>0 DEF TypeOK
  <2> HIDE DEF s
  <2>3. QED BY <1>2, <2>1, <2>2, Update
<1>8. /\ MySocket(c)' = new /\ \A d \in Clients : d # c => MySocket(d)' = MySocket(d)
      /\ \A d \in Clients : MySocket(d) \in Sockets /\ (d # c => MySocket(d) # s)
  <2>1. MySocket(c)' = new /\ \A d \in Clients : d # c => MySocket(d)' = MySocket(d)
    BY <1>5 DEF MySocket
  <2>2. \A d \in Clients : MySocket(d) \in Sockets /\ (d # c => MySocket(d) # s)
    BY <1>0, ClientTypes
  <2>3. QED BY <2>1, <2>2
<1> HIDE DEF s, new
<1>9. \A u \in Sockets : /\ GoUp(down'[u])
                         /\ \A i \in DOMAIN down'[u] :
                               i \in DOMAIN down[u] /\ down'[u][i] = down[u][i]
  <2>1. GoUp(<< >>) /\ DOMAIN << >> = {}
    BY DEF GoUp
  <2>2. \A u \in Sockets : u # s => GoUp(down'[u])
    BY <1>4, <1>7 DEF ResponsesOnTheWay
  <2>3. QED BY <1>7, <2>1, <2>2
<1>10. ResponsesOnTheWay'
  <2>1. ASSUME NEW u \in Sockets
        PROVE  /\ GoUp(down'[u]) /\ GoUp(server_buffer_[u])
               /\ \A i \in DOMAIN down'[u] : Numbered(down'[u][i], u)
               /\ \A i \in DOMAIN server_buffer_[u] :
                     /\ Numbered(server_buffer_[u][i], u)
                     /\ \A j \in DOMAIN down'[u] : down'[u][j].seq < server_buffer_[u][i].seq
    BY <1>4, <1>9 DEF ResponsesOnTheWay
  <2>2. QED BY <1>3, <2>1 DEF ResponsesOnTheWay, Numbered, GoUp
<1>11. LostResponsesAreGone'
  <2>1. ASSUME NEW l \in lost_responses
        PROVE  /\ cid_tcp_socket_[l.client] # NoSocket
               /\ l.seq < cid_next_outgoing_seq_num_[l.client]
               /\ \A i \in DOMAIN down'[cid_tcp_socket_[l.client]] :
                     down'[cid_tcp_socket_[l.client]][i].seq # l.seq
               /\ \A i \in DOMAIN server_buffer_[cid_tcp_socket_[l.client]] :
                     server_buffer_[cid_tcp_socket_[l.client]][i].seq # l.seq
               /\ cid_tcp_socket_[l.client] = MySocket(l.client)' =>
                     next_exp_seq_num_'[l.client] <= l.seq
    <3>1. /\ cid_tcp_socket_[l.client] # NoSocket
          /\ l.seq < cid_next_outgoing_seq_num_[l.client]
          /\ \A i \in DOMAIN down[cid_tcp_socket_[l.client]] :
                down[cid_tcp_socket_[l.client]][i].seq # l.seq
          /\ \A i \in DOMAIN server_buffer_[cid_tcp_socket_[l.client]] :
                server_buffer_[cid_tcp_socket_[l.client]][i].seq # l.seq
          /\ cid_tcp_socket_[l.client] = MySocket(l.client) =>
                next_exp_seq_num_[l.client] <= l.seq
      BY <1>4 DEF LostResponsesAreGone
    <3>2. l.client \in Clients
      BY <1>0 DEF TypeOK, Responses
    <3>3. cid_tcp_socket_[l.client] \in Sockets
      BY <1>0, <3>1, <3>2, ClientTypes
    <3>4. cid_tcp_socket_[l.client] = MySocket(l.client)' => l.client # c
      BY <1>1, <1>8
    <3>5. QED BY <1>6, <1>8, <1>9, <3>1, <3>2, <3>3, <3>4
  <2>2. QED BY <1>3, <2>1 DEF LostResponsesAreGone
<1>12. GatewayWaits'
  <2>1. ASSUME NEW d \in Clients
        PROVE  /\ next_exp_seq_num_'[d] <= cid_next_outgoing_seq_num_[d]
               /\ \A i \in DOMAIN down'[MySocket(d)'] :
                     next_exp_seq_num_'[d] <= down'[MySocket(d)'][i].seq
               /\ \A i \in DOMAIN server_buffer_[MySocket(d)'] :
                     next_exp_seq_num_'[d] <= server_buffer_[MySocket(d)'][i].seq
               /\ Len(delivered'[d]) = next_exp_seq_num_'[d] - 1
               /\ \A i \in DOMAIN delivered'[d] : delivered'[d][i] = i
    <3>1. CASE d = c
      <4>1. 1 <= cid_next_outgoing_seq_num_[c]
        BY <1>0, ClientTypes
      <4>2. down'[new] = down[new]
        BY <1>1, <1>7
      <4>3. Len(delivered'[c]) = next_exp_seq_num_'[c] - 1 /\ DOMAIN delivered'[c] = {}
        BY <1>6
      <4>4. QED BY <1>1, <1>6, <1>8, <3>1, <4>1, <4>2, <4>3
    <3>2. CASE d # c
      BY <1>4, <1>6, <1>7, <1>8, <3>2 DEF GatewayWaits
    <3>3. QED BY <3>1, <3>2
  <2>2. QED BY <1>3, <2>1 DEF GatewayWaits
<1>13. ResponsesQueued'
  BY <1>3, <1>4, QueueStays
<1>14. QED BY <1>0, <1>3, <1>7, <1>10, <1>11, <1>12, <1>13 DEF ResponsesInv

\* A process ends and is started again.
LEMMA RestartKeeps ==
    ASSUME OrderEntryInv, NEW c \in Clients, Restart(c)
    PROVE  OrderEntryInv'
<1>0. TypeOK
  BY DEF OrderEntryInv
<1>1. /\ RequestsInv' /\ up' \in [Sockets -> Seq(Requests)] /\ lost_requests' \subseteq Requests
      /\ backlog' \in Seq(Sockets)
  BY RestartRequests
<1>2. ResponsesInv' /\ down' \in [Sockets -> Seq(Responses)]
  BY RestartResponses
<1>3. /\ run' \in [Clients -> 1 .. MaxRuns]
      /\ next_outgoing_seq_num_' \in [Clients -> 1 .. MaxRequests + 1]
      /\ next_exp_seq_num_' \in [Clients -> Nat \ {0}]
      /\ send_buffer_' \in [Clients -> Seq(Requests)] /\ delivered' \in [Clients -> Seq(Nat)]
  <2>1. run[c] + 1 \in 1 .. MaxRuns /\ 1 \in 1 .. MaxRequests + 1 /\ 1 \in Nat \ {0}
    <3>1. run[c] \in 1 .. MaxRuns /\ MaxRuns \in Nat /\ MaxRequests \in Nat /\ run[c] < MaxRuns
      BY <1>0, CountsAssumption, ClientTypes DEF Restart
    <3>2. QED BY <3>1
  <2>2. << >> \in Seq(Requests) /\ << >> \in Seq(Nat)
    OBVIOUS
  <2>3. run' \in [Clients -> 1 .. MaxRuns]
    BY <1>0, <2>1 DEF TypeOK, Restart
  <2>4. next_outgoing_seq_num_' \in [Clients -> 1 .. MaxRequests + 1]
    BY <1>0, <2>1 DEF TypeOK, Restart
  <2>5. next_exp_seq_num_' \in [Clients -> Nat \ {0}]
    BY <1>0, <2>1 DEF TypeOK, Restart
  <2>6. send_buffer_' \in [Clients -> Seq(Requests)]
    BY <1>0, <2>2 DEF TypeOK, Restart
  <2>7. delivered' \in [Clients -> Seq(Nat)]
    BY <1>0, <2>2 DEF TypeOK, Restart
  <2>8. QED BY <2>3, <2>4, <2>5, <2>6, <2>7
<1>4. /\ lost_responses' = lost_responses /\ pc' = pc /\ todo' = todo
      /\ receive_sockets_' = receive_sockets_ /\ disconnected_sockets_' = disconnected_sockets_
      /\ cid_tcp_socket_' = cid_tcp_socket_ /\ cid_next_exp_seq_num_' = cid_next_exp_seq_num_
      /\ cid_next_outgoing_seq_num_' = cid_next_outgoing_seq_num_
      /\ server_buffer_' = server_buffer_
      /\ pending_client_requests_' = pending_client_requests_ /\ aborted' = aborted
      /\ sequenced' = sequenced /\ taken' = taken /\ answered' = answered
      /\ responses' = responses
  BY DEF Restart, server, engine, loop, sockets, table
<1>5. TypeOK'
  BY <1>0, <1>1, <1>2, <1>3, <1>4 DEF TypeOK
<1>6. QED BY <1>1, <1>2, <1>5 DEF OrderEntryInv

\* The requests and the responses on the wires depend on these variables only.
LEMMA WiresStay ==
    ASSUME RequestsOnTheWay, LostRequestsAreGone, ServerWaits, ResponsesInv,
           UNCHANGED <<gateways, wires, table, cid_next_outgoing_seq_num_, server_buffer_,
                       aborted, answered, responses>>
    PROVE  RequestsOnTheWay' /\ LostRequestsAreGone' /\ ServerWaits' /\ ResponsesInv'
<1>1. /\ run' = run /\ next_outgoing_seq_num_' = next_outgoing_seq_num_
      /\ next_exp_seq_num_' = next_exp_seq_num_ /\ send_buffer_' = send_buffer_
      /\ delivered' = delivered /\ up' = up /\ down' = down
      /\ lost_requests' = lost_requests /\ lost_responses' = lost_responses
      /\ cid_tcp_socket_' = cid_tcp_socket_ /\ cid_next_exp_seq_num_' = cid_next_exp_seq_num_
      /\ cid_next_outgoing_seq_num_' = cid_next_outgoing_seq_num_
      /\ server_buffer_' = server_buffer_ /\ aborted' = aborted
      /\ answered' = answered /\ responses' = responses
  BY DEF gateways, wires, table
<1>2. RequestsOnTheWay'
  BY <1>1 DEF RequestsOnTheWay, GoUp, MySocket
<1>3. LostRequestsAreGone'
  BY <1>1 DEF LostRequestsAreGone
<1>4. ServerWaits'
  BY <1>1 DEF ServerWaits, MySocket
<1>5. ResponsesQueued'
  BY <1>1, QueueStays DEF ResponsesInv
<1>6. ResponsesOnTheWay'
  <2>1. ResponsesOnTheWay
    BY DEF ResponsesInv
  <2>2. QED BY <1>1, <2>1 DEF ResponsesOnTheWay, Numbered, GoUp
<1>7. LostResponsesAreGone'
  BY <1>1 DEF ResponsesInv, LostResponsesAreGone, MySocket
<1>8. GatewayWaits'
  BY <1>1 DEF ResponsesInv, GatewayWaits, MySocket
<1>9. QED BY <1>1, <1>2, <1>3, <1>4, <1>5, <1>6, <1>7, <1>8 DEF ResponsesInv

\* A pass begins with no pending requests, and every socket is in its list once.
LEMMA PollKeeps ==
    ASSUME OrderEntryInv, poll
    PROVE  OrderEntryInv'
<1> DEFINE kept == Without(receive_sockets_, disconnected_sockets_)
<1>0. TypeOK /\ RequestsInv /\ ResponsesInv
  BY DEF OrderEntryInv
<1>1. /\ pc = "poll" /\ receive_sockets_' = kept \o backlog /\ todo' = kept \o backlog
      /\ backlog' = << >> /\ pc' = "serve"
      /\ UNCHANGED <<gateways, wires, table, cid_next_outgoing_seq_num_, server_buffer_,
                     pending_client_requests_, aborted, sequenced, engine, responses>>
  BY DEF poll
<1>2. PICK hup \in SUBSET {s \in ToSet(kept) : ~Alive(s)} :
         disconnected_sockets_' = disconnected_sockets_ \cup hup
  BY DEF poll
<1>3. /\ receive_sockets_ \in Seq(Sockets) /\ backlog \in Seq(Sockets)
      /\ disconnected_sockets_ \subseteq Sockets
  BY <1>0 DEF TypeOK
<1>4. /\ NoneTwice(receive_sockets_) /\ NoneTwice(backlog)
      /\ \A i \in DOMAIN receive_sockets_, j \in DOMAIN backlog :
            receive_sockets_[i] # backlog[j]
      /\ \A i \in DOMAIN receive_sockets_ : receive_sockets_[i][2] <= run[receive_sockets_[i][1]]
      /\ \A i \in DOMAIN backlog : backlog[i][2] <= run[backlog[i][1]]
  BY <1>0 DEF RequestsInv, SocketLists
<1>5. /\ kept \in Seq(Sockets) /\ NoneTwice(kept)
      /\ \A i \in DOMAIN kept : \E j \in DOMAIN receive_sockets_ : receive_sockets_[j] = kept[i]
  BY <1>3, <1>4, WithoutKeeps
<1>6. disconnected_sockets_' \subseteq Sockets
  <2>1. ToSet(kept) \subseteq Sockets
    BY <1>5, Members
  <2>2. QED BY <1>2, <1>3, <2>1
<1> HIDE DEF kept
<1> DEFINE all == kept \o backlog
<1>7. /\ all \in Seq(Sockets)
      /\ \A i \in DOMAIN all : \/ \E j \in DOMAIN kept : all[i] = kept[j]
                               \/ \E j \in DOMAIN backlog : all[i] = backlog[j]
  <2>1. /\ all \in Seq(Sockets)
        /\ \A i \in DOMAIN all : \/ i \in DOMAIN kept /\ all[i] = kept[i]
                                 \/ i - Len(kept) \in DOMAIN backlog /\ i > Len(kept)
                                    /\ all[i] = backlog[i - Len(kept)]
    BY <1>3, <1>5, ConcatLists
  <2> HIDE DEF all
  <2>2. QED BY <2>1
<1>8. NoneTwice(all)
  <2>1. \A i \in DOMAIN kept, j \in DOMAIN backlog : kept[i] # backlog[j]
    BY <1>4, <1>5
  <2>2. QED BY <1>3, <1>4, <1>5, <2>1, ConcatNoneTwice
<1>9. receive_sockets_' = all /\ todo' = all
  BY <1>1
<1> HIDE DEF all
<1>10. run' = run /\ pending_client_requests_' = pending_client_requests_
       /\ cid_tcp_socket_' = cid_tcp_socket_ /\ cid_next_exp_seq_num_' = cid_next_exp_seq_num_
       /\ sequenced' = sequenced /\ aborted' = aborted
       /\ UNCHANGED <<gateways, wires, table, cid_next_outgoing_seq_num_, server_buffer_,
                      aborted, answered, responses>>
  BY <1>1 DEF gateways, table, engine
<1>11. SocketLists'
  <2>1. NoneTwice(<< >>) /\ DOMAIN << >> = {}
    BY DEF NoneTwice
  <2>2. \A i \in DOMAIN all : all[i][2] <= run[all[i][1]]
    BY <1>4, <1>5, <1>7
  <2>3. QED BY <1>1, <1>8, <1>9, <1>10, <2>1, <2>2 DEF SocketLists, NoneTwice
<1>12. pending_client_requests_ = << >>
  BY <1>0, <1>1 DEF RequestsInv, Pending
<1>13. Pending'
  BY <1>10, <1>12 DEF Pending
<1>14. RequestsOnce' /\ NoneSkipped'
  <2>1. RequestsOnce'
    BY <1>0, <1>10 DEF RequestsInv, RequestsOnce
  <2>2. NoneSkipped'
    BY <1>0, <1>10 DEF RequestsInv, NoneSkipped, WasAccepted, Serving
  <2>3. QED BY <2>1, <2>2
<1>15. RequestsOnTheWay' /\ LostRequestsAreGone' /\ ServerWaits' /\ ResponsesInv'
  BY <1>0, <1>10, WiresStay DEF RequestsInv
<1>16. TypeOK'
  <2>1. << >> \in Seq(Sockets) /\ pc' \in {"poll", "serve", "respond"}
    BY <1>1
  <2>2. /\ next_outgoing_seq_num_' = next_outgoing_seq_num_
        /\ next_exp_seq_num_' = next_exp_seq_num_ /\ send_buffer_' = send_buffer_
        /\ delivered' = delivered /\ up' = up /\ down' = down
        /\ lost_requests' = lost_requests /\ lost_responses' = lost_responses
        /\ cid_next_outgoing_seq_num_' = cid_next_outgoing_seq_num_
        /\ server_buffer_' = server_buffer_
        /\ taken' = taken /\ answered' = answered /\ responses' = responses
    BY <1>1 DEF gateways, wires, engine
  <2>3. QED BY <1>0, <1>1, <1>6, <1>7, <1>9, <1>10, <2>1, <2>2 DEF TypeOK
<1>17. QED BY <1>11, <1>13, <1>14, <1>15, <1>16 DEF OrderEntryInv, RequestsInv

\* The numbers of socket s that the server may not get past when it reads n
\* requests: those left on the wire, those that were lost, and, while its client
\* is connected, those it has not sent.
NotYet(s, n) ==
    {up[s][i].seq : i \in {j \in DOMAIN up[s] : j > n}}
      \cup {l.seq : l \in {r \in lost_requests : <<r.client, r.run>> = s}}
      \cup {x \in Nat : MySocket(s[1]) = s /\ x = next_outgoing_seq_num_[s[1]]}
      \cup {x \in Nat : /\ MySocket(s[1]) = s
                        /\ \E i \in DOMAIN send_buffer_[s[1]] : x = send_buffer_[s[1]][i].seq}

\* What the server reads of the next socket.
LEMMA ServeReads ==
    ASSUME TypeOK, RequestsInv, NEW s \in Sockets, NEW n \in 0 .. Len(up[s]), NEW t \in Stamps
    PROVE  /\ Accepted(s, t, up[s], n) \in ServerStates
           /\ Served(Accepted(s, t, up[s], n), s, t, NotYet(s, n))
           /\ NotYet(s, n) \in SUBSET Nat
<1> DEFINE c == s[1]
           a == up[s]
           b == send_buffer_[c]
           o == next_outgoing_seq_num_[c]
           e == cid_next_exp_seq_num_[c]
           Left == {a[i].seq : i \in {j \in DOMAIN a : j > n}}
           Lost == {l.seq : l \in {r \in lost_requests : <<r.client, r.run>> = s}}
           Next1 == {x \in Nat : MySocket(c) = s /\ x = o}
           Unsent == {x \in Nat : MySocket(c) = s /\ \E i \in DOMAIN b : x = b[i].seq}
           Later == NotYet(s, n)
<1>1. /\ c \in Clients /\ s # NoSocket /\ a \in Seq(Requests) /\ b \in Seq(Requests)
      /\ s = <<c, s[2]>> /\ o \in Nat /\ 1 <= o /\ e \in Nat /\ n \in Nat
  <2>1. c \in Clients /\ s # NoSocket /\ a \in Seq(Requests) /\ s = <<c, s[2]>>
    BY SocketTypes
  <2>2. b \in Seq(Requests) /\ o \in 1 .. MaxRequests + 1 /\ o \in Nat /\ e \in Nat
    BY <2>1, ClientTypes
  <2>3. n \in Nat /\ 1 <= o
    BY <2>2, CountsAssumption
  <2>4. QED BY <2>1, <2>2, <2>3
<1>2. /\ \A i \in DOMAIN a : a[i] \in Requests /\ a[i].seq \in Nat /\ 1 <= a[i].seq
      /\ \A i \in DOMAIN b : b[i] \in Requests /\ b[i].seq \in Nat /\ 1 <= b[i].seq
      /\ \A l \in lost_requests : l \in Requests /\ l.seq \in Nat /\ 1 <= l.seq
  <2>1. /\ \A i \in DOMAIN a : a[i] \in Requests
        /\ \A i \in DOMAIN b : b[i] \in Requests
    BY <1>1
  <2>2. \A l \in lost_requests : l \in Requests
    BY DEF TypeOK
  <2>3. ASSUME NEW r \in Requests PROVE r.seq \in Nat /\ 1 <= r.seq
    <3>1. r.seq \in 1 .. MaxRequests /\ r.seq \in Nat /\ MaxRequests \in Nat
      BY RequestTypes, CountsAssumption
    <3>2. QED BY <3>1
  <2>4. QED BY <2>1, <2>2, <2>3
<1>3. RequestsOnTheWay /\ LostRequestsAreGone /\ ServerWaits
  BY DEF RequestsInv
<1>4. /\ GoUp(a) /\ \A i \in DOMAIN a : a[i].client = c /\ a[i].run = s[2]
      /\ MySocket(c) = s => \A i \in DOMAIN a : /\ a[i].seq < o
                                                /\ \A j \in DOMAIN b : a[i].seq < b[j].seq
  BY <1>1, <1>3 DEF RequestsOnTheWay
<1>5. \A l \in lost_requests : <<l.client, l.run>> = s => \A i \in DOMAIN a : a[i].seq # l.seq
  <2>1. ASSUME NEW l \in lost_requests, <<l.client, l.run>> = s, NEW i \in DOMAIN a
        PROVE  a[i].seq # l.seq
    <3>1. a[i] # l
      <4>1. \A j \in DOMAIN up[<<l.client, l.run>>] : up[<<l.client, l.run>>][j] # l
        BY <1>3 DEF LostRequestsAreGone
      <4>2. QED BY <2>1, <4>1
    <3>2. l.client = c /\ l.run = s[2]
      BY <2>1
    <3>3. /\ a[i] = [client |-> a[i].client, run |-> a[i].run, seq |-> a[i].seq]
          /\ l = [client |-> l.client, run |-> l.run, seq |-> l.seq]
      BY <1>2, RequestTypes
    <3>4. a[i].client = c /\ a[i].run = s[2]
      BY <1>4
    <3> HIDE DEF a, c
    <3>5. QED BY <3>1, <3>2, <3>3, <3>4
  <2>2. QED BY <2>1
<1>6. cid_tcp_socket_[c] = NoSocket => e = 1
  BY <1>1, <1>3 DEF ServerWaits
<1>7. ASSUME cid_tcp_socket_[c] = s
      PROVE  /\ \A i \in DOMAIN a : e <= a[i].seq
             /\ \A l \in lost_requests : <<l.client, l.run>> = s => e <= l.seq
             /\ MySocket(c) = s => e <= o /\ \A i \in DOMAIN b : e <= b[i].seq
  BY <1>1, <1>3, <1>7 DEF ServerWaits
<1>8. Later = Left \cup Lost \cup Next1 \cup Unsent
  BY DEF NotYet
<1> HIDE DEF Later, a, b, o, e, c
<1>9. Later \in SUBSET Nat
  <2>1. Left \subseteq Nat /\ Lost \subseteq Nat /\ Next1 \subseteq Nat /\ Unsent \subseteq Nat
    BY <1>2
  <2> HIDE DEF Left, Lost, Next1, Unsent
  <2>2. QED BY <1>8, <2>1
<1>10. ASSUME NEW x \in Later
       PROVE  /\ 1 <= x
              /\ cid_tcp_socket_[c] = s => e <= x
              /\ \A i \in 1 .. n : a[i].seq # x
  <2>0. \A i \in 1 .. n : i \in DOMAIN a /\ i <= n /\ i \in Nat
    BY <1>1 DEF a
  <2>1. CASE x \in Left
    <3>1. PICK k \in DOMAIN a : k > n /\ x = a[k].seq
      BY <2>1
    <3>2. ASSUME NEW i \in 1 .. n PROVE a[i].seq # x
      <4>1. i < k /\ i \in DOMAIN a
        BY <1>1, <2>0, <3>1
      <4>2. a[i].seq < a[k].seq /\ a[i].seq \in Nat /\ a[k].seq \in Nat
        BY <1>2, <1>4, <4>1 DEF GoUp
      <4>3. QED BY <3>1, <4>2
    <3>3. QED BY <1>2, <1>7, <3>1, <3>2
  <2>2. CASE x \in Lost
    <3>1. PICK l \in lost_requests : <<l.client, l.run>> = s /\ x = l.seq
      BY <2>2
    <3>2. QED BY <1>2, <1>5, <1>7, <2>0, <3>1
  <2>3. CASE x \in Next1
    <3>1. MySocket(c) = s /\ x = o
      BY <2>3
    <3>2. ASSUME NEW i \in 1 .. n PROVE a[i].seq # o
      <4>1. a[i].seq < o /\ a[i].seq \in Nat
        BY <1>2, <1>4, <2>0, <3>1
      <4>2. QED BY <1>1, <4>1
    <3>3. QED BY <1>1, <1>7, <3>1, <3>2
  <2>4. CASE x \in Unsent
    <3>1. PICK k \in DOMAIN b : MySocket(c) = s /\ x = b[k].seq
      BY <2>4
    <3>2. ASSUME NEW i \in 1 .. n PROVE a[i].seq # x
      <4>1. a[i].seq < b[k].seq /\ a[i].seq \in Nat /\ b[k].seq \in Nat
        BY <1>2, <1>4, <2>0, <3>1
      <4>2. QED BY <3>1, <4>1
    <3>3. QED BY <1>2, <1>7, <3>1, <3>2
  <2>5. QED BY <1>8, <2>1, <2>2, <2>3, <2>4
<1>11. cid_tcp_socket_[c] \in {s, NoSocket} => \A x \in Later : e <= x
  BY <1>6, <1>10
<1>12. Accepted(s, t, a, n) \in ServerStates /\ Served(Accepted(s, t, a, n), s, t, Later)
  <2>1. n \in 0 .. Len(a)
    BY DEF a
  <2>2. \A i \in DOMAIN a : a[i].client = s[1] /\ a[i].run = s[2]
    BY <1>4 DEF c
  <2>3. cid_tcp_socket_[s[1]] \in {s, NoSocket} =>
           \A x \in Later : cid_next_exp_seq_num_[s[1]] <= x
    BY <1>11 DEF c, e
  <2>4. \A x \in Later : \A i \in 1 .. n : a[i].seq # x
    BY <1>10
  <2>5. a \in Seq(Requests)
    BY <1>1
  <2>6. QED BY <1>9, <2>1, <2>2, <2>3, <2>4, <2>5, Accepting
<1>13. QED BY <1>9, <1>12 DEF a, Later

\* The pending requests after a read: those of the client of s are new, since
\* the server reads a socket once in a pass.
LEMMA ServePending ==
    ASSUME TypeOK, Pending, NoneSkipped, NoneTwice(todo), pc = "serve", aborted = "no",
           todo # << >>, NEW t \in Stamps, NEW st \in ServerStates, NEW Later,
           Served(st, Head(todo), t, Later),
           cid_tcp_socket_' = st.socket, cid_next_exp_seq_num_' = st.exp,
           pending_client_requests_' = st.pending, aborted' = "no" => st.aborted = "no",
           pc' = pc, todo' = Tail(todo), sequenced' = sequenced
    PROVE  Pending' /\ NoneSkipped'
<1> DEFINE s == Head(todo)
           c == s[1]
           p == pending_client_requests_
           q == st.pending
           e == cid_next_exp_seq_num_[c]
           Now(r) == st.socket[r.client] = <<r.client, r.run>> /\ r.seq < st.exp[r.client]
<1>1. /\ s \in Sockets /\ c \in Clients /\ s # NoSocket /\ s = <<c, s[2]>> /\ e \in Nat
      /\ p \in Seq(PendingRecords) /\ Len(p) \in Nat /\ q \in Seq(PendingRecords)
      /\ Len(q) \in Nat /\ DOMAIN p = 1 .. Len(p) /\ DOMAIN q = 1 .. Len(q)
      /\ st.exp[c] \in Nat /\ sequenced \in Seq(Requests)
  <2>1. todo \in Seq(Sockets) /\ p \in Seq(PendingRecords) /\ sequenced \in Seq(Requests)
    BY DEF TypeOK, PendingRecords
  <2>2. s \in Sockets
    BY <2>1, TailLists
  <2>3. c \in Clients /\ s # NoSocket /\ s = <<c, s[2]>>
    BY <2>2, SocketTypes
  <2>4. e \in Nat
    BY <2>3, ClientTypes
  <2>5. q \in Seq(PendingRecords) /\ st.exp[c] \in 1 .. MaxRequests + 1 /\ MaxRequests \in Nat
    BY <2>3, CountsAssumption DEF ServerStates
  <2>6. st.exp[c] \in Nat
    BY <2>5
  <2>7. Len(p) \in Nat /\ DOMAIN p = 1 .. Len(p) /\ Len(q) \in Nat /\ DOMAIN q = 1 .. Len(q)
    BY <2>1, <2>5
  <2>8. QED BY <2>1, <2>2, <2>3, <2>4, <2>5, <2>6, <2>7
<1>2. /\ \A d \in Clients : d # c => st.socket[d] = cid_tcp_socket_[d] /\ st.exp[d] = cid_next_exp_seq_num_[d]
      /\ cid_tcp_socket_[c] # NoSocket => st.socket[c] = cid_tcp_socket_[c]
      /\ st.socket[c] # s => st.exp[c] = e /\ q = p
      /\ Len(p) <= Len(q)
      /\ \A j \in DOMAIN p : q[j] = p[j]
      /\ \A j \in DOMAIN q : j > Len(p) => q[j] = Taken(s, t, j)
      /\ e + (Len(q) - Len(p)) <= st.exp[c]
      /\ st.aborted = "no" => e + (Len(q) - Len(p)) = st.exp[c]
  BY DEF Served
<1>3. \A i \in DOMAIN p :
         /\ WasAccepted(p[i].request_)
         /\ \A n \in DOMAIN todo : todo[n] # cid_tcp_socket_[p[i].request_.client]
         /\ \A j \in DOMAIN p : p[j].request_.client = p[i].request_.client =>
               /\ p[j].recv_time_ = p[i].recv_time_
               /\ i < j => p[i].request_.seq < p[j].request_.seq
         /\ \A j \in DOMAIN sequenced : sequenced[j].client = p[i].request_.client =>
               sequenced[j].seq < p[i].request_.seq
  BY DEF Pending
<1>4. /\ \A i \in DOMAIN Tail(todo) : \E j \in DOMAIN todo : Tail(todo)[i] = todo[j]
      /\ \A i \in DOMAIN Tail(todo) : Tail(todo)[i] # s
      /\ 1 \in DOMAIN todo /\ s = todo[1]
  <2>1. todo \in Seq(Sockets)
    BY DEF TypeOK
  <2>2. QED BY <2>1, TailLists
<1>5. /\ \A i \in DOMAIN p : p[i].request_ \in Requests
      /\ \A i \in DOMAIN sequenced : sequenced[i] \in Requests
  <2>1. \A i \in DOMAIN p : p[i] \in PendingRecords
    BY <1>1
  <2>2. \A x \in PendingRecords : x.request_ \in Requests
    BY DEF PendingRecords
  <2>3. \A i \in DOMAIN sequenced : sequenced[i] \in Requests
    BY <1>1
  <2>4. QED BY <2>1, <2>2, <2>3
<1>6. ASSUME NEW j \in DOMAIN q, j > Len(p)
      PROVE  /\ q[j].recv_time_ = t /\ q[j].request_.client = c /\ q[j].request_.run = s[2]
             /\ q[j].request_.seq = e + (j - Len(p)) - 1
             /\ st.socket[c] = s
  <2>1. q[j] = Taken(s, t, j)
    BY <1>2, <1>6
  <2>2. q # p
    BY <1>1, <1>6
  <2>3. st.socket[c] = s
    BY <1>2, <2>2
  <2>4. QED BY <2>1, <2>3 DEF Taken
<1> HIDE DEF s, c, p, q, e
<1>7. ASSUME st.socket[c] = s, NEW i \in DOMAIN p PROVE p[i].request_.client # c
  <2>1. SUFFICES ASSUME p[i].request_.client = c PROVE FALSE
    OBVIOUS
  <2>2. cid_tcp_socket_[c] = <<c, p[i].request_.run>>
    BY <1>3, <2>1 DEF WasAccepted
  <2>3. cid_tcp_socket_[c] # NoSocket
    <3>1. <<c, p[i].request_.run>> \in Sockets
      BY <1>5, <2>1, RequestTypes
    <3>2. QED BY <2>2, <3>1, NoSocketAssumption
  <2>4. cid_tcp_socket_[c] = todo[1]
    BY <1>2, <1>4, <1>7, <2>3
  <2>5. QED BY <1>3, <1>4, <2>1, <2>4
<1>8. \A i \in DOMAIN p :
         /\ st.socket[p[i].request_.client] = cid_tcp_socket_[p[i].request_.client]
         /\ st.exp[p[i].request_.client] = cid_next_exp_seq_num_[p[i].request_.client]
  <2>1. ASSUME NEW i \in DOMAIN p, p[i].request_.client = c
        PROVE  st.socket[c] = cid_tcp_socket_[c] /\ st.exp[c] = cid_next_exp_seq_num_[c]
    <3>1. st.socket[c] # s
      BY <1>7, <2>1
    <3>2. cid_tcp_socket_[c] = <<c, p[i].request_.run>>
      BY <1>3, <2>1 DEF WasAccepted
    <3>3. <<c, p[i].request_.run>> \in Sockets
      BY <1>5, <2>1, RequestTypes
    <3>4. cid_tcp_socket_[c] # NoSocket
      BY <3>2, <3>3, NoSocketAssumption
    <3>5. QED BY <1>2, <3>1, <3>4 DEF e
  <2>2. \A i \in DOMAIN p : p[i].request_.client \in Clients
    BY <1>5, RequestTypes
  <2>3. QED BY <1>2, <2>1, <2>2
<1>9. /\ DOMAIN p \subseteq DOMAIN q
      /\ \A i \in DOMAIN q : i \in DOMAIN p \/ i > Len(p)
  BY <1>1, <1>2
<1>10. /\ pending_client_requests_' = q /\ cid_tcp_socket_' = st.socket
       /\ cid_next_exp_seq_num_' = st.exp
  BY DEF q
<1>11. ASSUME NEW i \in DOMAIN q
       PROVE  /\ Now(q[i].request_)
              /\ \A n \in DOMAIN Tail(todo) : Tail(todo)[n] # st.socket[q[i].request_.client]
              /\ \A j \in DOMAIN sequenced : sequenced[j].client = q[i].request_.client =>
                    sequenced[j].seq < q[i].request_.seq
  <2>1. CASE i \in DOMAIN p
    <3>1. q[i] = p[i]
      BY <1>2, <2>1
    <3>2. WasAccepted(p[i].request_)
      BY <1>3, <2>1
    <3>3. Now(p[i].request_)
      BY <1>8, <2>1, <3>2 DEF WasAccepted
    <3>4. ASSUME NEW n \in DOMAIN Tail(todo)
          PROVE  Tail(todo)[n] # st.socket[p[i].request_.client]
      BY <1>3, <1>4, <1>8, <2>1
    <3>5. \A j \in DOMAIN sequenced : sequenced[j].client = p[i].request_.client =>
             sequenced[j].seq < p[i].request_.seq
      BY <1>3, <2>1
    <3>6. QED BY <3>1, <3>3, <3>4, <3>5
  <2>2. CASE i > Len(p)
    <3> DEFINE r == q[i].request_
    <3>1. r.client = c /\ r.run = s[2] /\ r.seq = e + (i - Len(p)) - 1 /\ st.socket[c] = s
      BY <1>6, <2>2
    <3> HIDE DEF r
    <3>2. i \in Nat /\ i <= Len(q) /\ e <= r.seq /\ r.seq < st.exp[c] /\ r.seq \in Nat
      BY <1>1, <1>2, <2>2, <3>1
    <3>3. Now(r)
      BY <1>1, <3>1, <3>2
    <3>4. ASSUME NEW j \in DOMAIN sequenced, sequenced[j].client = c PROVE sequenced[j].seq < r.seq
      <4>1. sequenced[j].seq < e /\ sequenced[j].seq \in Nat
        <5>1. WasAccepted(sequenced[j])
          BY DEF NoneSkipped
        <5>2. sequenced[j].seq \in Nat
          BY <1>5, RequestTypes
        <5>3. QED BY <3>4, <5>1, <5>2 DEF WasAccepted, e
      <4>2. QED BY <1>1, <3>2, <4>1
    <3>5. QED BY <1>4, <3>1, <3>3, <3>4 DEF r
  <2>3. QED BY <1>9, <2>1, <2>2
<1>12. ASSUME NEW i \in DOMAIN q, NEW j \in DOMAIN q, q[j].request_.client = q[i].request_.client
       PROVE  /\ q[j].recv_time_ = q[i].recv_time_
              /\ i < j => q[i].request_.seq < q[j].request_.seq
  <2>1. CASE i \in DOMAIN p /\ j \in DOMAIN p
    BY <1>2, <1>3, <1>12, <2>1
  <2>2. CASE i \in DOMAIN p /\ j > Len(p)
    BY <1>2, <1>6, <1>7, <1>12, <2>2
  <2>3. CASE i > Len(p) /\ j \in DOMAIN p
    BY <1>2, <1>6, <1>7, <1>12, <2>3
  <2>4. CASE i > Len(p) /\ j > Len(p)
    <3>1. /\ q[i].recv_time_ = t /\ q[i].request_.seq = e + (i - Len(p)) - 1
          /\ q[j].recv_time_ = t /\ q[j].request_.seq = e + (j - Len(p)) - 1
      BY <1>6, <2>4
    <3>2. i \in Nat /\ j \in Nat
      BY <1>1
    <3>3. i < j => e + (i - Len(p)) - 1 < e + (j - Len(p)) - 1
      BY <1>1, <3>2
    <3>4. QED BY <3>1, <3>3
  <2>5. QED BY <1>9, <2>1, <2>2, <2>3, <2>4
<1>13. Pending'
  BY <1>10, <1>11, <1>12 DEF Pending, WasAccepted
<1>14. \A i \in DOMAIN sequenced : Now(sequenced[i])
  <2>1. ASSUME NEW i \in DOMAIN sequenced PROVE Now(sequenced[i])
    <3> DEFINE r == sequenced[i]
               d == r.client
    <3>1. /\ cid_tcp_socket_[d] = <<d, r.run>> /\ r.seq < cid_next_exp_seq_num_[d]
      BY DEF NoneSkipped, WasAccepted
    <3>2. d \in Clients /\ r.seq \in Nat /\ <<d, r.run>> \in Sockets
      BY <1>5, RequestTypes
    <3> HIDE DEF r, d
    <3>3. st.socket[d] = <<d, r.run>> /\ r.seq < st.exp[d]
      <4>1. CASE d = c
        <5>1. cid_tcp_socket_[c] # NoSocket
          BY <3>1, <3>2, <4>1, NoSocketAssumption
        <5>2. r.seq < e /\ e <= st.exp[c]
          BY <1>1, <1>2, <3>1, <4>1 DEF e
        <5>3. r.seq < st.exp[c]
          BY <1>1, <3>2, <5>2
        <5>4. QED BY <1>2, <3>1, <4>1, <5>1, <5>3
      <4>2. CASE d # c
        BY <1>2, <3>1, <3>2, <4>2
      <4>3. QED BY <4>1, <4>2
    <3>4. QED BY <3>3 DEF d, r
  <2>2. QED BY <2>1
<1>15. ASSUME aborted' = "no", NEW d \in Clients, NEW m \in 1 .. st.exp[d] - 1
       PROVE  \/ \E i \in DOMAIN sequenced : sequenced[i].client = d /\ sequenced[i].seq = m
              \/ \E i \in DOMAIN q : q[i].request_.client = d /\ q[i].request_.seq = m
  <2>1. CASE m \in 1 .. cid_next_exp_seq_num_[d] - 1
    <3>1. \/ \E i \in DOMAIN sequenced : sequenced[i].client = d /\ sequenced[i].seq = m
          \/ \E i \in DOMAIN p : p[i].request_.client = d /\ p[i].request_.seq = m
      BY <2>1 DEF NoneSkipped, Serving, p
    <3>2. QED BY <1>2, <1>9, <3>1
  <2>2. CASE m \notin 1 .. cid_next_exp_seq_num_[d] - 1
    <3>1. d = c
      BY <1>2, <2>2
    <3>2. e + (Len(q) - Len(p)) = st.exp[c]
      BY <1>2, <1>15
    <3>3. m \in Nat /\ e <= m /\ m < e + (Len(q) - Len(p))
      BY <1>1, <2>2, <3>1, <3>2 DEF e
    <3> DEFINE j == Len(p) + (m - e) + 1
    <3>4. j \in DOMAIN q /\ j > Len(p) /\ e + (j - Len(p)) - 1 = m
      BY <1>1, <3>3
    <3> HIDE DEF j
    <3>5. QED BY <1>6, <3>1, <3>4
  <2>3. QED BY <2>1, <2>2
<1>16. NoneSkipped'
  BY <1>10, <1>14, <1>15 DEF NoneSkipped, WasAccepted, Serving
<1>17. QED BY <1>13, <1>16

\* A read takes requests from the wire, and the server does not get past those
\* it leaves there.
LEMMA ServeWires ==
    ASSUME TypeOK, RequestsOnTheWay, LostRequestsAreGone, ServerWaits, NEW s \in Sockets,
           s[2] <= run[s[1]], NEW n \in 0 .. Len(up[s]), NEW t, NEW st \in ServerStates,
           Served(st, s, t, NotYet(s, n)),
           up' = [up EXCEPT ![s] = Rest(@, n)], cid_tcp_socket_' = st.socket,
           cid_next_exp_seq_num_' = st.exp, UNCHANGED <<gateways, lost_requests>>
    PROVE  /\ RequestsOnTheWay' /\ LostRequestsAreGone' /\ ServerWaits'
           /\ up' \in [Sockets -> Seq(Requests)]
<1> DEFINE c == s[1]
           a == up[s]
           f == Rest(a, n)
<1>0. /\ run' = run /\ next_outgoing_seq_num_' = next_outgoing_seq_num_
      /\ send_buffer_' = send_buffer_ /\ lost_requests' = lost_requests
  BY DEF gateways
<1>1. /\ c \in Clients /\ s # NoSocket /\ a \in Seq(Requests) /\ s = <<c, s[2]>>
      /\ up \in [Sockets -> Seq(Requests)] /\ lost_requests \subseteq Requests
  <2>1. c \in Clients /\ s # NoSocket /\ a \in Seq(Requests) /\ s = <<c, s[2]>>
    BY SocketTypes
  <2>2. up \in [Sockets -> Seq(Requests)] /\ lost_requests \subseteq Requests
    BY DEF TypeOK
  <2>3. QED BY <2>1, <2>2
<1>2. GoUp(a)
  BY DEF RequestsOnTheWay
<1>3. /\ f \in Seq(Requests) /\ GoUp(f)
      /\ \A i \in DOMAIN f : i + n \in DOMAIN a /\ i + n > n /\ f[i] = a[i + n]
  BY <1>1, <1>2, RestLists
<1>4. /\ up' \in [Sockets -> Seq(Requests)] /\ up'[s] = f
      /\ \A u \in Sockets : u # s => up'[u] = up[u]
  <2> DEFINE g == [up EXCEPT ![s] = f]
  <2>1. up' = g
    OBVIOUS
  <2> HIDE DEF f
  <2>2. /\ g \in [Sockets -> Seq(Requests)] /\ g[s] = f
        /\ \A u \in Sockets : u # s => g[u] = up[u]
    BY <1>1, <1>3, Update, Zenon
  <2> HIDE DEF g
  <2>3. QED BY <2>1, <2>2, Zenon
<1>5. \A i \in DOMAIN f : \E j \in DOMAIN a : j > n /\ f[i] = a[j]
  BY <1>3
<1> HIDE DEF f
<1>6. \A u \in Sockets : /\ GoUp(up'[u])
                         /\ \A i \in DOMAIN up'[u] : \E j \in DOMAIN up[u] : up'[u][i] = up[u][j]
  <2>1. \A u \in Sockets : u # s => GoUp(up'[u])
    BY <1>4 DEF RequestsOnTheWay
  <2>2. GoUp(up'[s]) /\ \A i \in DOMAIN up'[s] : \E j \in DOMAIN up[s] : up'[s][i] = up[s][j]
    BY <1>3, <1>4, <1>5
  <2>3. QED BY <1>4, <2>1, <2>2
<1>7. \A d \in Clients : MySocket(d) \in Sockets /\ MySocket(d)' = MySocket(d)
  BY <1>0, ClientTypes DEF MySocket
<1>8. RequestsOnTheWay'
  <2>1. ASSUME NEW u \in Sockets
        PROVE  /\ GoUp(up'[u])
               /\ \A i \in DOMAIN up'[u] : up'[u][i].client = u[1] /\ up'[u][i].run = u[2]
               /\ up'[u] # << >> => u[2] <= run[u[1]]
    <3>1. \A i \in DOMAIN up'[u] : up'[u][i].client = u[1] /\ up'[u][i].run = u[2]
      BY <1>6 DEF RequestsOnTheWay
    <3>2. up'[u] # << >> => u[2] <= run[u[1]]
      <4>1. CASE u = s
        BY <4>1
      <4>2. CASE u # s
        BY <1>4, <4>2 DEF RequestsOnTheWay
      <4>3. QED BY <4>1, <4>2
    <3>3. QED BY <1>6, <3>1, <3>2
  <2>2. ASSUME NEW d \in Clients
        PROVE  /\ GoUp(send_buffer_[d])
               /\ \A i \in DOMAIN send_buffer_[d] :
                     /\ send_buffer_[d][i].client = d /\ send_buffer_[d][i].run = run[d]
                     /\ send_buffer_[d][i].seq < next_outgoing_seq_num_[d]
               /\ \A i \in DOMAIN up'[MySocket(d)] :
                     /\ up'[MySocket(d)][i].seq < next_outgoing_seq_num_[d]
                     /\ \A j \in DOMAIN send_buffer_[d] :
                           up'[MySocket(d)][i].seq < send_buffer_[d][j].seq
    BY <1>6, <1>7 DEF RequestsOnTheWay
  <2>3. QED BY <1>0, <1>7, <2>1, <2>2 DEF RequestsOnTheWay, GoUp
<1>9. LostRequestsAreGone'
  <2>1. ASSUME NEW l \in lost_requests
        PROVE  /\ l.run <= run[l.client]
               /\ l.run = run[l.client] => l.seq < next_outgoing_seq_num_[l.client]
               /\ \A i \in DOMAIN up'[<<l.client, l.run>>] : up'[<<l.client, l.run>>][i] # l
               /\ \A i \in DOMAIN send_buffer_[l.client] : send_buffer_[l.client][i] # l
    <3>1. <<l.client, l.run>> \in Sockets
      BY <1>1, RequestTypes
    <3>2. QED BY <1>6, <3>1 DEF LostRequestsAreGone
  <2>2. QED BY <1>0, <2>1 DEF LostRequestsAreGone
<1>10. /\ \A d \in Clients : d # c => st.socket[d] = cid_tcp_socket_[d] /\ st.exp[d] = cid_next_exp_seq_num_[d]
       /\ st.socket[c] \in {cid_tcp_socket_[c], s}
       /\ st.socket[c] # s => st.exp[c] = cid_next_exp_seq_num_[c]
       /\ st.socket[c] = s => \A x \in NotYet(s, n) : st.exp[c] <= x
  BY DEF Served
<1>11. ServerWaits'
  <2>1. ASSUME NEW d \in Clients
        PROVE  /\ st.socket[d] = NoSocket => st.exp[d] = 1
               /\ st.socket[d] # NoSocket =>
                     /\ st.socket[d][1] = d /\ st.socket[d][2] <= run[d]
                     /\ \A i \in DOMAIN up'[st.socket[d]] :
                           st.exp[d] <= up'[st.socket[d]][i].seq
                     /\ \A r \in lost_requests : st.socket[d] = <<r.client, r.run>> =>
                           st.exp[d] <= r.seq
               /\ st.socket[d] = MySocket(d) =>
                     /\ st.exp[d] <= next_outgoing_seq_num_[d]
                     /\ \A i \in DOMAIN send_buffer_[d] :
                           st.exp[d] <= send_buffer_[d][i].seq
    <3>1. CASE st.socket[d] = cid_tcp_socket_[d] /\ st.exp[d] = cid_next_exp_seq_num_[d]
      <4>1. cid_tcp_socket_[d] # NoSocket => cid_tcp_socket_[d] \in Sockets
        BY ClientTypes
      <4>2. /\ cid_tcp_socket_[d] = NoSocket => cid_next_exp_seq_num_[d] = 1
            /\ cid_tcp_socket_[d] # NoSocket =>
                  /\ cid_tcp_socket_[d][1] = d /\ cid_tcp_socket_[d][2] <= run[d]
                  /\ \A i \in DOMAIN up[cid_tcp_socket_[d]] :
                        cid_next_exp_seq_num_[d] <= up[cid_tcp_socket_[d]][i].seq
                  /\ \A r \in lost_requests : cid_tcp_socket_[d] = <<r.client, r.run>> =>
                        cid_next_exp_seq_num_[d] <= r.seq
            /\ cid_tcp_socket_[d] = MySocket(d) =>
                  /\ cid_next_exp_seq_num_[d] <= next_outgoing_seq_num_[d]
                  /\ \A i \in DOMAIN send_buffer_[d] :
                        cid_next_exp_seq_num_[d] <= send_buffer_[d][i].seq
        BY DEF ServerWaits
      <4>3. QED BY <1>6, <3>1, <4>1, <4>2
    <3>2. CASE ~(st.socket[d] = cid_tcp_socket_[d] /\ st.exp[d] = cid_next_exp_seq_num_[d])
      <4>1. d = c /\ st.socket[c] = s
        BY <1>10, <3>2
      <4>2. \A x \in NotYet(s, n) : st.exp[c] <= x
        BY <1>10, <4>1
      <4>3. \A i \in DOMAIN f : st.exp[c] <= f[i].seq
        <5>1. \A j \in DOMAIN a : j > n => a[j].seq \in NotYet(s, n)
          BY DEF NotYet
        <5>2. QED BY <1>5, <4>2, <5>1
      <4>4. \A r \in lost_requests : s = <<r.client, r.run>> => st.exp[c] <= r.seq
        <5>1. \A r \in lost_requests : s = <<r.client, r.run>> => r.seq \in NotYet(s, n)
          BY DEF NotYet
        <5>2. QED BY <4>2, <5>1
      <4>5. ASSUME s = MySocket(c)
            PROVE  /\ st.exp[c] <= next_outgoing_seq_num_[c]
                   /\ \A i \in DOMAIN send_buffer_[c] : st.exp[c] <= send_buffer_[c][i].seq
        <5>1. next_outgoing_seq_num_[c] \in Nat /\ send_buffer_[c] \in Seq(Requests)
          BY <1>1, ClientTypes
        <5>2. \A i \in DOMAIN send_buffer_[c] : send_buffer_[c][i] \in Requests
          BY <5>1
        <5>3. \A i \in DOMAIN send_buffer_[c] : send_buffer_[c][i].seq \in Nat
          BY <5>2, RequestTypes
        <5>4. next_outgoing_seq_num_[c] \in NotYet(s, n)
          BY <4>5, <5>1 DEF NotYet
        <5>5. \A i \in DOMAIN send_buffer_[c] : send_buffer_[c][i].seq \in NotYet(s, n)
          BY <4>5, <5>3 DEF NotYet
        <5>6. QED BY <4>2, <5>4, <5>5
      <4>6. QED BY <1>1, <1>4, <4>1, <4>3, <4>4, <4>5
    <3>3. QED BY <3>1, <3>2
  <2>2. QED BY <1>0, <1>7, <2>1 DEF ServerWaits
<1>12. QED BY <1>4, <1>8, <1>9, <1>11

\* The first n responses in the send buffer of s go out, the others are lost.
SendsPart(s, n) ==
    /\ n \in 0 .. Len(server_buffer_[s])
    /\ down' = [down EXCEPT ![s] = @ \o Prefix(server_buffer_[s], n)]
    /\ lost_responses' = lost_responses \cup ToSet(Rest(server_buffer_[s], n))

\* The send buffer of a socket goes out, in part or as a whole.
LEMMA ServeResponses ==
    ASSUME TypeOK, ResponsesInv, NEW s \in Sockets, NEW n, SendsPart(s, n),
           \A d \in Clients : cid_tcp_socket_[d] # NoSocket =>
                                  cid_tcp_socket_'[d] = cid_tcp_socket_[d],
           server_buffer_' = [server_buffer_ EXCEPT ![s] = << >>],
           UNCHANGED <<gateways, cid_next_outgoing_seq_num_, answered, responses>>
    PROVE  /\ ResponsesQueued' /\ ResponsesOnTheWay' /\ LostResponsesAreGone' /\ GatewayWaits'
           /\ down' \in [Sockets -> Seq(Responses)]
           /\ lost_responses' \subseteq Responses
           /\ server_buffer_' \in [Sockets -> Seq(Responses)]
<1> DEFINE a == down[s]
           b == server_buffer_[s]
<1>0. /\ run' = run /\ next_exp_seq_num_' = next_exp_seq_num_ /\ delivered' = delivered
      /\ cid_next_outgoing_seq_num_' = cid_next_outgoing_seq_num_ /\ answered' = answered
      /\ responses' = responses
  BY DEF gateways
<1>1. /\ a \in Seq(Responses) /\ b \in Seq(Responses) /\ s # NoSocket
      /\ down \in [Sockets -> Seq(Responses)] /\ server_buffer_ \in [Sockets -> Seq(Responses)]
      /\ lost_responses \subseteq Responses
  <2>1. a \in Seq(Responses) /\ b \in Seq(Responses) /\ s # NoSocket
    BY SocketTypes
  <2>2. /\ down \in [Sockets -> Seq(Responses)] /\ server_buffer_ \in [Sockets -> Seq(Responses)]
        /\ lost_responses \subseteq Responses
    BY DEF TypeOK
  <2>3. QED BY <2>1, <2>2
<1>2. ResponsesOnTheWay /\ LostResponsesAreGone /\ GatewayWaits /\ ResponsesQueued
  BY DEF ResponsesInv
<1>3. /\ GoUp(a) /\ GoUp(b)
      /\ \A i \in DOMAIN a : Numbered(a[i], s)
      /\ \A i \in DOMAIN b : Numbered(b[i], s) /\ \A j \in DOMAIN a : a[j].seq < b[i].seq
  BY <1>2 DEF ResponsesOnTheWay
<1>4. \A r \in Responses : r.client \in Clients /\ r.seq \in Nat
  BY DEF Responses
<1>4a. n \in 0 .. Len(b) /\ n \in Nat
  BY <1>1 DEF SendsPart
<1> HIDE DEF a, b
<1>5. /\ server_buffer_' \in [Sockets -> Seq(Responses)] /\ server_buffer_'[s] = << >>
      /\ \A u \in Sockets : u # s => server_buffer_'[u] = server_buffer_[u]
  <2>1. << >> \in Seq(Responses)
    OBVIOUS
  <2>2. QED BY <1>1, <2>1, Update
<1>6. /\ down' \in [Sockets -> Seq(Responses)] /\ GoUp(down'[s])
      /\ \A u \in Sockets : u # s => down'[u] = down[u]
      /\ \A i \in DOMAIN down'[s] : \/ \E j \in DOMAIN a : down'[s][i] = a[j]
                                    \/ \E j \in DOMAIN b : j <= n /\ down'[s][i] = b[j]
  <2> DEFINE h == Prefix(b, n)
             g == a \o h
  <2>1. /\ h \in Seq(Responses) /\ GoUp(h)
        /\ \A i \in DOMAIN h : i \in DOMAIN b /\ i <= n /\ h[i] = b[i]
    BY <1>1, <1>3, <1>4a, PrefixLists
  <2>2. down' = [down EXCEPT ![s] = g]
    BY DEF a, b, SendsPart
  <2> HIDE DEF h
  <2>3. g \in Seq(Responses) /\ GoUp(g)
    BY <1>1, <1>3, <2>1, ConcatLists, ConcatGoesUp
  <2>4. \A i \in DOMAIN g : \/ \E j \in DOMAIN a : g[i] = a[j]
                            \/ \E j \in DOMAIN b : j <= n /\ g[i] = b[j]
    <3>1. \A i \in DOMAIN g : \/ i \in DOMAIN a /\ g[i] = a[i]
                              \/ i - Len(a) \in DOMAIN h /\ g[i] = h[i - Len(a)]
      BY <1>1, <2>1, ConcatLists
    <3> HIDE DEF g
    <3>2. QED BY <2>1, <3>1
  <2> HIDE DEF g
  <2>5. /\ down' \in [Sockets -> Seq(Responses)] /\ down'[s] = g
        /\ \A u \in Sockets : u # s => down'[u] = down[u]
    BY <1>1, <2>2, <2>3, Update
  <2>6. QED BY <2>3, <2>4, <2>5
<1>7. /\ lost_responses' \subseteq Responses
      /\ \A l \in lost_responses' : l \in lost_responses \/ \E j \in DOMAIN b : j > n /\ l = b[j]
  <2> DEFINE h == Rest(b, n)
  <2>1. /\ h \in Seq(Responses)
        /\ \A i \in DOMAIN h : i + n \in DOMAIN b /\ i + n > n /\ h[i] = b[i + n]
    BY <1>1, <1>4a, RestLists
  <2>2. lost_responses' = lost_responses \cup ToSet(h)
    BY DEF b, SendsPart
  <2> HIDE DEF h
  <2>3. QED BY <1>1, <2>1, <2>2, Members
<1>8. ASSUME NEW r, NEW u \in Sockets, Numbered(r, u)
      PROVE  /\ r.client = u[1] /\ cid_tcp_socket_'[r.client] = u
             /\ r.id = r.seq /\ 1 <= r.seq /\ r.seq < cid_next_outgoing_seq_num_[r.client]
  <2>1. u[1] \in Clients /\ u # NoSocket
    BY SocketTypes
  <2>2. QED BY <1>8, <2>1 DEF Numbered
<1>9. ResponsesOnTheWay'
  <2> DEFINE Num(r, u) == /\ r.client = u[1] /\ cid_tcp_socket_'[r.client] = u
                          /\ r.id = r.seq /\ 1 <= r.seq
                          /\ r.seq < cid_next_outgoing_seq_num_[r.client]
  <2>1. ASSUME NEW u \in Sockets
        PROVE  /\ GoUp(down'[u]) /\ GoUp(server_buffer_'[u])
               /\ \A i \in DOMAIN down'[u] : Num(down'[u][i], u)
               /\ \A i \in DOMAIN server_buffer_'[u] :
                     /\ Num(server_buffer_'[u][i], u)
                     /\ \A j \in DOMAIN down'[u] : down'[u][j].seq < server_buffer_'[u][i].seq
    <3>0. \A r : Numbered(r, u) => Num(r, u)
      BY <1>8
    <3>1. CASE u = s
      <4>1. GoUp(<< >>) /\ DOMAIN << >> = {}
        BY DEF GoUp
      <4> HIDE DEF Num
      <4>2. QED BY <1>3, <1>5, <1>6, <3>0, <3>1, <4>1
    <3>2. CASE u # s
      <4> HIDE DEF Num
      <4>1. QED BY <1>2, <1>5, <1>6, <3>0, <3>2 DEF ResponsesOnTheWay
    <3>3. QED BY <3>1, <3>2
  <2>2. QED BY <1>0, <2>1 DEF ResponsesOnTheWay, Numbered, GoUp
<1>10. LostResponsesAreGone'
  <2>1. ASSUME NEW l \in lost_responses'
        PROVE  /\ cid_tcp_socket_'[l.client] # NoSocket
               /\ l.seq < cid_next_outgoing_seq_num_[l.client]
               /\ \A i \in DOMAIN down'[cid_tcp_socket_'[l.client]] :
                     down'[cid_tcp_socket_'[l.client]][i].seq # l.seq
               /\ \A i \in DOMAIN server_buffer_'[cid_tcp_socket_'[l.client]] :
                     server_buffer_'[cid_tcp_socket_'[l.client]][i].seq # l.seq
               /\ cid_tcp_socket_'[l.client] = MySocket(l.client) =>
                     next_exp_seq_num_[l.client] <= l.seq
    <3>0. l.client \in Clients /\ l.seq \in Nat
      BY <1>4, <1>7
    <3> DEFINE k == cid_tcp_socket_[l.client]
    <3>1. CASE l \in lost_responses
      <4>1. /\ k # NoSocket /\ l.seq < cid_next_outgoing_seq_num_[l.client]
            /\ \A i \in DOMAIN down[k] : down[k][i].seq # l.seq
            /\ \A i \in DOMAIN server_buffer_[k] : server_buffer_[k][i].seq # l.seq
            /\ k = MySocket(l.client) => next_exp_seq_num_[l.client] <= l.seq
        BY <1>2, <3>1 DEF LostResponsesAreGone
      <4>2. k \in Sockets /\ cid_tcp_socket_'[l.client] = k
        BY <3>0, <4>1, ClientTypes
      <4> HIDE DEF k
      <4>3. /\ \A i \in DOMAIN down'[k] : down'[k][i].seq # l.seq
            /\ \A i \in DOMAIN server_buffer_'[k] : server_buffer_'[k][i].seq # l.seq
        <5>1. CASE k = s
          BY <1>5, <1>6, <4>1, <5>1 DEF a, b
        <5>2. CASE k # s
          BY <1>5, <1>6, <4>1, <4>2, <5>2
        <5>3. QED BY <5>1, <5>2
      <4>4. QED BY <4>1, <4>2, <4>3
    <3>2. CASE l \notin lost_responses
      <4>1. PICK j \in DOMAIN b : j > n /\ l = b[j]
        BY <1>7, <3>2
      <4>2. Numbered(l, s) /\ \A i \in DOMAIN a : a[i].seq < l.seq
        BY <1>3, <4>1
      <4>3. cid_tcp_socket_'[l.client] = s /\ l.seq < cid_next_outgoing_seq_num_[l.client]
        BY <1>8, <4>2
      <4>4. \A i \in DOMAIN down'[s] : down'[s][i].seq # l.seq
        <5>1. ASSUME NEW i \in DOMAIN a PROVE a[i].seq # l.seq
          <6>1. a[i].seq < l.seq /\ a[i] \in Responses
            BY <1>1, <4>2
          <6>2. a[i].seq \in Nat
            BY <1>4, <6>1
          <6>3. QED BY <3>0, <6>1, <6>2
        <5>2. ASSUME NEW i \in DOMAIN b, i <= n PROVE b[i].seq # l.seq
          <6>1. i < j /\ DOMAIN b = 1 .. Len(b)
            BY <1>1, <1>4a, <4>1, <5>2
          <6>2. b[i].seq < l.seq
            BY <1>3, <4>1, <6>1 DEF GoUp
          <6>3. b[i].seq \in Nat
            BY <1>1, <1>4
          <6>4. QED BY <3>0, <6>2, <6>3
        <5>3. QED BY <1>6, <5>1, <5>2
      <4>5. s = MySocket(l.client) => next_exp_seq_num_[l.client] <= l.seq
        BY <1>2, <3>0, <4>1 DEF GatewayWaits, b
      <4>6. QED BY <1>1, <1>5, <4>3, <4>4, <4>5
    <3>3. QED BY <3>1, <3>2
  <2>2. QED BY <1>0, <2>1 DEF LostResponsesAreGone, MySocket
<1>11. GatewayWaits'
  <2>1. ASSUME NEW d \in Clients
        PROVE  /\ next_exp_seq_num_[d] <= cid_next_outgoing_seq_num_[d]
               /\ \A i \in DOMAIN down'[MySocket(d)] :
                     next_exp_seq_num_[d] <= down'[MySocket(d)][i].seq
               /\ \A i \in DOMAIN server_buffer_'[MySocket(d)] :
                     next_exp_seq_num_[d] <= server_buffer_'[MySocket(d)][i].seq
               /\ Len(delivered[d]) = next_exp_seq_num_[d] - 1
               /\ \A i \in DOMAIN delivered[d] : delivered[d][i] = i
    <3>1. MySocket(d) \in Sockets
      BY ClientTypes
    <3>2. /\ next_exp_seq_num_[d] <= cid_next_outgoing_seq_num_[d]
          /\ \A i \in DOMAIN down[MySocket(d)] :
                next_exp_seq_num_[d] <= down[MySocket(d)][i].seq
          /\ \A i \in DOMAIN server_buffer_[MySocket(d)] :
                next_exp_seq_num_[d] <= server_buffer_[MySocket(d)][i].seq
          /\ Len(delivered[d]) = next_exp_seq_num_[d] - 1
          /\ \A i \in DOMAIN delivered[d] : delivered[d][i] = i
      BY <1>2 DEF GatewayWaits
    <3>3. CASE MySocket(d) = s
      BY <1>5, <1>6, <3>2, <3>3 DEF a, b
    <3>4. CASE MySocket(d) # s
      BY <1>5, <1>6, <3>1, <3>2, <3>4
    <3>5. QED BY <3>3, <3>4
  <2>2. QED BY <1>0, <2>1 DEF GatewayWaits, MySocket
<1>12. ResponsesQueued'
  <2>1. \A i \in DOMAIN responses : cid_tcp_socket_'[responses[i].client] # NoSocket
    BY <1>2, QueueTypes DEF ResponsesQueued
  <2>2. QED BY <1>0, <1>2, <2>1 DEF ResponsesQueued
<1>13. QED BY <1>5, <1>6, <1>7, <1>9, <1>10, <1>11, <1>12

\* One sendAndRecv() of the server.
LEMMA ServeKeeps ==
    ASSUME OrderEntryInv, serve
    PROVE  OrderEntryInv'
<1> DEFINE s == Head(todo)
           c == s[1]
<1>0. TypeOK /\ RequestsInv /\ ResponsesInv /\ pc = "serve" /\ todo # << >> /\ aborted = "no"
  BY DEF OrderEntryInv, serve, Serving
<1>1. PICK n \in 0 .. Len(up[s]), t \in Stamps, outcome \in {"sent", "failed", "partial"} :
         Serve(n, t, outcome)
  BY DEF serve
<1> DEFINE st == Accepted(s, t, up[s], n)
<1>1a. PICK k \in Passed(s, outcome, st.aborted # "no") :
         /\ down' = [down EXCEPT ![s] = @ \o Prefix(server_buffer_[s], k)]
         /\ lost_responses' = lost_responses \cup ToSet(Rest(server_buffer_[s], k))
  BY <1>1 DEF Serve
<1>2. /\ up' = [up EXCEPT ![s] = Rest(@, n)]
      /\ cid_tcp_socket_' = st.socket /\ cid_next_exp_seq_num_' = st.exp
      /\ pending_client_requests_' = st.pending
      /\ server_buffer_' = [server_buffer_ EXCEPT ![s] = << >>]
      /\ todo' = Tail(todo)
      /\ UNCHANGED <<gateways, lost_requests, backlog, pc, sockets,
                     cid_next_outgoing_seq_num_, sequenced, engine, responses>>
  BY <1>1 DEF Serve, Emptied
<1>3. aborted' = IF st.aborted # "no" THEN st.aborted
                 ELSE IF outcome = "partial" THEN "partial send" ELSE "no"
  BY <1>1 DEF Serve
<1>4. /\ todo \in Seq(Sockets) /\ s \in Sockets /\ c \in Clients /\ Tail(todo) \in Seq(Sockets)
      /\ s = todo[1] /\ 1 \in DOMAIN todo
  <2>1. todo \in Seq(Sockets)
    BY <1>0 DEF TypeOK
  <2>2. s \in Sockets /\ Tail(todo) \in Seq(Sockets) /\ s = todo[1] /\ 1 \in DOMAIN todo
    BY <1>0, <2>1, TailLists
  <2>3. c \in Clients
    BY <1>0, <2>2, SocketTypes
  <2>4. QED BY <2>1, <2>2, <2>3
<1>5. st \in ServerStates /\ Served(st, s, t, NotYet(s, n))
  BY <1>0, <1>4, ServeReads
<1>6. /\ st.socket \in [Clients -> Sockets \cup {NoSocket}]
      /\ st.exp \in [Clients -> 1 .. MaxRequests + 1]
      /\ st.pending \in Seq(PendingRecords) /\ st.aborted \in {"no", "full"}
  BY <1>5 DEF ServerStates
<1>7. /\ Len(st.pending) <= MaxPending
      /\ \A d \in Clients : cid_tcp_socket_[d] # NoSocket => st.socket[d] = cid_tcp_socket_[d]
  BY <1>5 DEF Served
<1> HIDE DEF st
<1>8. /\ aborted' \in {"no", "full", "partial send", "no socket"} /\ aborted' # "no socket"
      /\ aborted' = "no" => st.aborted = "no"
  BY <1>3, <1>6
<1>9. SocketLists /\ s[2] <= run[s[1]] /\ NoneTwice(todo)
  BY <1>0, <1>4 DEF RequestsInv, SocketLists
<1>9a. SendsPart(s, k)
  <2>1. Len(server_buffer_[s]) \in Nat
    BY <1>0, <1>4 DEF TypeOK
  <2>2. k \in 0 .. Len(server_buffer_[s])
    BY <2>1 DEF Passed
  <2>3. QED BY <1>1a, <2>2 DEF SendsPart
<1> HIDE DEF s
<1>10. /\ RequestsOnTheWay' /\ LostRequestsAreGone' /\ ServerWaits'
       /\ up' \in [Sockets -> Seq(Requests)]
  <2>1. UNCHANGED <<gateways, lost_requests>>
    BY <1>2
  <2>2. RequestsOnTheWay /\ LostRequestsAreGone /\ ServerWaits
    BY <1>0 DEF RequestsInv
  <2>3. QED BY <1>0, <1>2, <1>4, <1>5, <1>9, <2>1, <2>2, ServeWires
<1>11. /\ ResponsesQueued' /\ ResponsesOnTheWay' /\ LostResponsesAreGone' /\ GatewayWaits'
       /\ down' \in [Sockets -> Seq(Responses)] /\ lost_responses' \subseteq Responses
       /\ server_buffer_' \in [Sockets -> Seq(Responses)]
  <2>1. UNCHANGED <<gateways, cid_next_outgoing_seq_num_, answered, responses>>
    BY <1>2 DEF engine
  <2>2. \A d \in Clients : cid_tcp_socket_[d] # NoSocket =>
                               cid_tcp_socket_'[d] = cid_tcp_socket_[d]
    BY <1>2, <1>7
  <2>3. QED BY <1>0, <1>2, <1>4, <1>9a, <2>1, <2>2, ServeResponses
<1>12. Pending' /\ NoneSkipped'
  <2>1. Pending /\ NoneSkipped
    BY <1>0 DEF RequestsInv
  <2>2. Served(st, Head(todo), t, NotYet(s, n))
    BY <1>5 DEF s
  <2>3. pc' = pc /\ sequenced' = sequenced
    BY <1>2
  <2>4. QED BY <1>0, <1>2, <1>5, <1>8, <1>9, <2>1, <2>2, <2>3, ServePending
<1>13. RequestsOnce'
  <2>1. RequestsOnce /\ sequenced' = sequenced
    BY <1>0, <1>2 DEF RequestsInv
  <2>2. QED BY <2>1 DEF RequestsOnce
<1>14. SocketLists'
  <2>1. /\ NoneTwice(receive_sockets_) /\ NoneTwice(backlog) /\ NoneTwice(todo)
        /\ \A i \in DOMAIN receive_sockets_, j \in DOMAIN backlog :
              receive_sockets_[i] # backlog[j]
        /\ \A i \in DOMAIN receive_sockets_ : receive_sockets_[i][2] <= run[receive_sockets_[i][1]]
        /\ \A i \in DOMAIN backlog : backlog[i][2] <= run[backlog[i][1]]
        /\ \A i \in DOMAIN todo : todo[i][2] <= run[todo[i][1]]
    BY <1>9 DEF SocketLists
  <2>2. receive_sockets_' = receive_sockets_ /\ backlog' = backlog /\ run' = run
    BY <1>2 DEF sockets, gateways
  <2>3. /\ NoneTwice(Tail(todo))
        /\ \A i \in DOMAIN Tail(todo) : i + 1 \in DOMAIN todo /\ Tail(todo)[i] = todo[i + 1]
    BY <1>0, <1>4, <2>1, TailLists
  <2>4. \A i \in DOMAIN Tail(todo) : Tail(todo)[i][2] <= run[Tail(todo)[i][1]]
    BY <2>1, <2>3
  <2>5. todo' = Tail(todo)
    BY <1>2
  <2>6. QED BY <2>1, <2>2, <2>3, <2>4, <2>5 DEF SocketLists, NoneTwice
<1>15. TypeOK'
  <2>1. /\ run' = run /\ next_outgoing_seq_num_' = next_outgoing_seq_num_
        /\ next_exp_seq_num_' = next_exp_seq_num_ /\ send_buffer_' = send_buffer_
        /\ delivered' = delivered /\ backlog' = backlog
        /\ lost_requests' = lost_requests /\ pc' = pc
        /\ receive_sockets_' = receive_sockets_ /\ disconnected_sockets_' = disconnected_sockets_
        /\ cid_next_outgoing_seq_num_' = cid_next_outgoing_seq_num_
        /\ sequenced' = sequenced /\ taken' = taken /\ answered' = answered
        /\ responses' = responses
    BY <1>2 DEF gateways, sockets, engine
  <2>2. todo' \in Seq(Sockets)
    BY <1>2, <1>4
  <2>3. /\ pending_client_requests_' \in Seq([recv_time_ : Stamps, request_ : Requests])
        /\ Len(pending_client_requests_') <= MaxPending
        /\ cid_tcp_socket_' \in [Clients -> Sockets \cup {NoSocket}]
        /\ cid_next_exp_seq_num_' \in [Clients -> 1 .. MaxRequests + 1]
    BY <1>2, <1>6, <1>7 DEF PendingRecords
  <2>4. QED BY <1>0, <1>8, <1>10, <1>11, <2>1, <2>2, <2>3 DEF TypeOK
<1>16. QED BY <1>8, <1>10, <1>11, <1>12, <1>13, <1>14, <1>15
           DEF OrderEntryInv, RequestsInv, ResponsesInv

\* What std::sort leaves: every pending request once, in the order of their
\* times, and equal times in the order they came in when there are few.
LEMMA SortedBatch ==
    ASSUME NEW p \in Seq(PendingRecords), NEW batch \in Sorted(p)
    PROVE  /\ batch \in Seq(Requests)
           /\ \E f \in [DOMAIN batch -> DOMAIN p] :
                 /\ \A i \in DOMAIN batch : batch[i] = p[f[i]].request_
                 /\ \A i, j \in DOMAIN batch : i # j => f[i] # f[j]
                 /\ \A k \in DOMAIN p : \E i \in DOMAIN batch : f[i] = k
                 /\ \A i, j \in DOMAIN batch : i < j =>
                       \/ p[f[i]].recv_time_ < p[f[j]].recv_time_
                       \/ /\ p[f[i]].recv_time_ = p[f[j]].recv_time_
                          /\ Len(p) <= StableUpTo => f[i] < f[j]
<1>1. PICK f \in Bijection(DOMAIN p, DOMAIN p) :
         /\ batch = [i \in DOMAIN p |-> p[f[i]].request_]
         /\ \A i, j \in DOMAIN p : i < j =>
               \/ p[f[i]].recv_time_ < p[f[j]].recv_time_
               \/ /\ p[f[i]].recv_time_ = p[f[j]].recv_time_
                  /\ Len(p) <= StableUpTo => f[i] < f[j]
  BY DEF Sorted
<1>2. /\ f \in [DOMAIN p -> DOMAIN p]
      /\ \A i, j \in DOMAIN p : f[i] = f[j] => i = j
      /\ \A k \in DOMAIN p : \E i \in DOMAIN p : f[i] = k
  BY DEF Bijection, Injection, Surjection, IsInjective
<1>3. DOMAIN batch = DOMAIN p /\ \A i \in DOMAIN batch : batch[i] = p[f[i]].request_
  BY <1>1
<1>4. batch \in Seq(Requests)
  <2>1. DOMAIN p = 1 .. Len(p) /\ Len(p) \in Nat /\ \A k \in DOMAIN p : p[k] \in PendingRecords
    OBVIOUS
  <2>2. \A x \in PendingRecords : x.request_ \in Requests
    BY DEF PendingRecords
  <2>3. \A i \in DOMAIN p : p[f[i]].request_ \in Requests
    BY <1>2, <2>1, <2>2
  <2>4. batch \in [1 .. Len(p) -> Requests]
    BY <1>1, <2>1, <2>3
  <2>5. QED BY <2>1, <2>4
<1>5. /\ f \in [DOMAIN batch -> DOMAIN p]
      /\ \A i, j \in DOMAIN batch : i # j => f[i] # f[j]
      /\ \A k \in DOMAIN p : \E i \in DOMAIN batch : f[i] = k
  BY <1>2, <1>3
<1>6. \A i, j \in DOMAIN batch : i < j =>
         \/ p[f[i]].recv_time_ < p[f[j]].recv_time_
         \/ /\ p[f[i]].recv_time_ = p[f[j]].recv_time_
            /\ Len(p) <= StableUpTo => f[i] < f[j]
  BY <1>1, <1>3
<1>7. QED BY <1>3, <1>4, <1>5, <1>6, Zenon

\* The requests of a client go to the engine in the order it numbered them.
InOrder ==
    \A i, j \in DOMAIN sequenced :
        i < j /\ sequenced[i].client = sequenced[j].client => sequenced[i].seq < sequenced[j].seq

\* A batch is published.
LEMMA SequenceKeeps ==
    ASSUME OrderEntryInv, sequenceAndPulish
    PROVE  /\ OrderEntryInv'
           /\ InOrder /\ Len(pending_client_requests_) <= StableUpTo => InOrder'
<1> DEFINE p == pending_client_requests_
<1>0. TypeOK /\ RequestsInv /\ ResponsesInv /\ Serving
  BY DEF OrderEntryInv, sequenceAndPulish
<1>1. PICK batch \in Sorted(p) : sequenced' = sequenced \o batch
  BY DEF sequenceAndPulish
<1>2. /\ pc' = "respond" /\ pending_client_requests_' = << >>
      /\ UNCHANGED <<gateways, wires, backlog, todo, sockets, table,
                     cid_next_outgoing_seq_num_, server_buffer_, aborted, engine, responses>>
  BY DEF sequenceAndPulish
<1>3. /\ run' = run /\ backlog' = backlog /\ todo' = todo /\ receive_sockets_' = receive_sockets_
      /\ cid_tcp_socket_' = cid_tcp_socket_ /\ cid_next_exp_seq_num_' = cid_next_exp_seq_num_
      /\ aborted' = aborted
      /\ UNCHANGED <<gateways, wires, table, cid_next_outgoing_seq_num_, server_buffer_,
                     aborted, answered, responses>>
  BY <1>2 DEF gateways, sockets, table, engine
<1>4. p \in Seq(PendingRecords) /\ sequenced \in Seq(Requests)
  BY <1>0 DEF TypeOK, PendingRecords
<1>5. PICK f \in [DOMAIN batch -> DOMAIN p] :
         /\ \A i \in DOMAIN batch : batch[i] = p[f[i]].request_
         /\ \A i, j \in DOMAIN batch : i # j => f[i] # f[j]
         /\ \A k \in DOMAIN p : \E i \in DOMAIN batch : f[i] = k
         /\ \A i, j \in DOMAIN batch : i < j =>
               \/ p[f[i]].recv_time_ < p[f[j]].recv_time_
               \/ /\ p[f[i]].recv_time_ = p[f[j]].recv_time_
                  /\ Len(p) <= StableUpTo => f[i] < f[j]
  BY <1>4, SortedBatch
<1>6. batch \in Seq(Requests)
  BY <1>4, SortedBatch
<1>7. \A k \in DOMAIN p :
         /\ WasAccepted(p[k].request_)
         /\ \A l \in DOMAIN p : p[l].request_.client = p[k].request_.client =>
               /\ p[l].recv_time_ = p[k].recv_time_
               /\ k < l => p[k].request_.seq < p[l].request_.seq
         /\ \A j \in DOMAIN sequenced : sequenced[j].client = p[k].request_.client =>
               sequenced[j].seq < p[k].request_.seq
  BY <1>0 DEF RequestsInv, Pending
<1>8. /\ \A i \in DOMAIN sequenced : WasAccepted(sequenced[i])
      /\ \A c \in Clients : \A m \in 1 .. cid_next_exp_seq_num_[c] - 1 :
            \/ \E i \in DOMAIN sequenced : sequenced[i].client = c /\ sequenced[i].seq = m
            \/ \E i \in DOMAIN p : p[i].request_.client = c /\ p[i].request_.seq = m
  BY <1>0 DEF RequestsInv, NoneSkipped
<1>9. /\ \A k \in DOMAIN p : /\ p[k] \in PendingRecords /\ p[k].request_ \in Requests
                             /\ p[k].request_.seq \in Nat /\ p[k].recv_time_ \in Nat
      /\ \A i \in DOMAIN sequenced : sequenced[i] \in Requests /\ sequenced[i].seq \in Nat
      /\ DOMAIN p = 1 .. Len(p) /\ Len(p) \in Nat
  <2>1. \A k \in DOMAIN p : p[k] \in PendingRecords
    BY <1>4
  <2>2. \A x \in PendingRecords : x.request_ \in Requests /\ x.recv_time_ \in Nat
    BY CountsAssumption DEF PendingRecords
  <2>3. \A i \in DOMAIN sequenced : sequenced[i] \in Requests
    BY <1>4
  <2>4. DOMAIN p = 1 .. Len(p) /\ Len(p) \in Nat
    BY <1>4
  <2>5. QED BY <2>1, <2>2, <2>3, <2>4, RequestTypes
<1> HIDE DEF p
<1> DEFINE all == sequenced \o batch
<1>10. /\ all \in Seq(Requests) /\ Len(all) = Len(sequenced) + Len(batch)
       /\ \A i \in DOMAIN all : \/ i \in DOMAIN sequenced /\ all[i] = sequenced[i]
                                \/ /\ i - Len(sequenced) \in DOMAIN batch /\ i > Len(sequenced)
                                   /\ all[i] = batch[i - Len(sequenced)]
       /\ \A i \in DOMAIN sequenced : i \in DOMAIN all /\ all[i] = sequenced[i]
       /\ \A i \in DOMAIN batch : /\ i + Len(sequenced) \in DOMAIN all
                                  /\ all[i + Len(sequenced)] = batch[i]
  BY <1>4, <1>6, ConcatLists
<1>11. sequenced' = all
  BY <1>1
<1> HIDE DEF all
<1>12. \A i \in DOMAIN all : \/ i \in DOMAIN sequenced /\ all[i] = sequenced[i]
                             \/ \E k \in DOMAIN p : all[i] = p[k].request_
  BY <1>5, <1>10
<1>13. \A k \in DOMAIN p : \E i \in DOMAIN all : all[i] = p[k].request_
  BY <1>5, <1>10
<1>14. \A i \in DOMAIN all : all[i] \in Requests /\ all[i].seq \in Nat /\ all[i].client \in Clients
  <2>1. \A i \in DOMAIN all : all[i] \in Requests
    BY <1>10
  <2>2. QED BY <2>1, RequestTypes
<1>15. \A i \in DOMAIN all : WasAccepted(all[i])
  BY <1>7, <1>8, <1>12
<1>16. \A c \in Clients : \A m \in 1 .. cid_next_exp_seq_num_[c] - 1 :
          \E i \in DOMAIN all : all[i].client = c /\ all[i].seq = m
  <2>1. ASSUME NEW c \in Clients, NEW m \in 1 .. cid_next_exp_seq_num_[c] - 1
        PROVE  \E i \in DOMAIN all : all[i].client = c /\ all[i].seq = m
    <3>1. CASE \E i \in DOMAIN sequenced : sequenced[i].client = c /\ sequenced[i].seq = m
      BY <1>10, <3>1
    <3>2. CASE \E i \in DOMAIN p : p[i].request_.client = c /\ p[i].request_.seq = m
      BY <1>13, <3>2
    <3>3. QED BY <1>8, <3>1, <3>2
  <2>2. QED BY <2>1
<1>17. ASSUME NEW i \in DOMAIN all, NEW j \in DOMAIN all, i < j, all[i].client = all[j].client
       PROVE  /\ all[i].seq # all[j].seq
              /\ InOrder /\ Len(p) <= StableUpTo => all[i].seq < all[j].seq
  <2>0. i \in Nat /\ j \in Nat /\ Len(sequenced) \in Nat /\ DOMAIN sequenced = 1 .. Len(sequenced)
    BY <1>4, <1>10
  <2>1. CASE i \in DOMAIN sequenced /\ j \in DOMAIN sequenced
    <3>1. all[i] = sequenced[i] /\ all[j] = sequenced[j] /\ i # j
      BY <1>10, <1>17, <2>0, <2>1
    <3>2. sequenced[i].seq # sequenced[j].seq
      BY <1>0, <1>17, <2>1, <3>1 DEF RequestsInv, RequestsOnce
    <3>3. InOrder => sequenced[i].seq < sequenced[j].seq
      BY <1>17, <2>1, <3>1 DEF InOrder
    <3>4. QED BY <3>1, <3>2, <3>3
  <2>2. CASE i \in DOMAIN sequenced /\ j \notin DOMAIN sequenced
    <3>1. all[i] = sequenced[i] /\ \E k \in DOMAIN p : all[j] = p[k].request_
      BY <1>10, <1>12, <2>2
    <3>2. all[i].seq < all[j].seq
      BY <1>7, <1>17, <2>2, <3>1
    <3>3. all[i].seq \in Nat /\ all[j].seq \in Nat
      BY <1>14
    <3>4. QED BY <3>2, <3>3
  <2>3. CASE i \notin DOMAIN sequenced
    <3> DEFINE x == i - Len(sequenced)
               y == j - Len(sequenced)
    <3>1. j \notin DOMAIN sequenced
      BY <1>17, <2>0, <2>3
    <3>2. /\ x \in DOMAIN batch /\ all[i] = batch[x]
          /\ y \in DOMAIN batch /\ all[j] = batch[y] /\ x < y /\ x # y
      BY <1>10, <1>17, <2>0, <2>3, <3>1
    <3> HIDE DEF x, y
    <3>3. /\ f[x] \in DOMAIN p /\ f[y] \in DOMAIN p /\ f[x] # f[y]
          /\ all[i] = p[f[x]].request_ /\ all[j] = p[f[y]].request_
          /\ \/ p[f[x]].recv_time_ < p[f[y]].recv_time_
             \/ Len(p) <= StableUpTo => f[x] < f[y]
      BY <1>5, <3>2
    <3>4. p[f[x]].recv_time_ = p[f[y]].recv_time_ /\ p[f[x]].recv_time_ \in Nat
      BY <1>7, <1>9, <1>17, <3>3
    <3>5. Len(p) <= StableUpTo => f[x] < f[y]
      BY <3>3, <3>4
    <3>6. /\ f[x] < f[y] => all[i].seq < all[j].seq
          /\ f[y] < f[x] => all[j].seq < all[i].seq
      BY <1>7, <1>17, <3>3
    <3>7. f[x] < f[y] \/ f[y] < f[x]
      BY <1>9, <3>3
    <3>8. all[i].seq \in Nat /\ all[j].seq \in Nat
      BY <1>14
    <3>9. QED BY <3>5, <3>6, <3>7, <3>8
  <2>4. QED BY <2>1, <2>2, <2>3
<1>18. RequestsOnce'
  <2>1. ASSUME NEW i \in DOMAIN all, NEW m \in 1 .. all[i].seq - 1
        PROVE  \E j \in DOMAIN all : all[j] = [all[i] EXCEPT !.seq = m]
    <3> DEFINE r == all[i]
               c == r.client
    <3>1. /\ c \in Clients /\ r \in Requests /\ r.seq \in Nat
          /\ cid_tcp_socket_[c] = <<c, r.run>> /\ r.seq < cid_next_exp_seq_num_[c]
      BY <1>14, <1>15 DEF WasAccepted
    <3>2. cid_next_exp_seq_num_[c] \in Nat
      BY <1>0, <3>1, ClientTypes
    <3>3. m \in 1 .. cid_next_exp_seq_num_[c] - 1
      BY <3>1, <3>2
    <3>4. PICK j \in DOMAIN all : all[j].client = c /\ all[j].seq = m
      BY <1>16, <3>1, <3>3
    <3>5. cid_tcp_socket_[c] = <<c, all[j].run>>
      BY <1>15, <3>4 DEF WasAccepted
    <3>6. all[j].run = r.run
      BY <3>1, <3>5
    <3>7. /\ all[j] = [client |-> all[j].client, run |-> all[j].run, seq |-> all[j].seq]
          /\ r = [client |-> r.client, run |-> r.run, seq |-> r.seq]
      BY <1>14, RequestTypes
    <3>8. all[j] = [client |-> c, run |-> r.run, seq |-> m]
      BY <3>4, <3>6, <3>7
    <3> HIDE DEF r
    <3>9. [r EXCEPT !.seq = m] = [client |-> c, run |-> r.run, seq |-> m]
      BY <3>7
    <3>10. QED BY <3>8, <3>9 DEF r
  <2>2. ASSUME NEW i \in DOMAIN all, NEW j \in DOMAIN all, j # i, all[j].client = all[i].client
        PROVE  all[j].run = all[i].run /\ all[j].seq # all[i].seq
    <3>1. all[j].run = all[i].run
      BY <1>15, <2>2 DEF WasAccepted
    <3>2. i < j \/ j < i
      BY <1>10, <2>2
    <3>3. QED BY <1>17, <2>2, <3>1, <3>2
  <2>3. QED BY <1>11, <2>1, <2>2 DEF RequestsOnce
<1>19. NoneSkipped'
  BY <1>3, <1>11, <1>15, <1>16 DEF NoneSkipped, WasAccepted
<1>20. Pending'
  BY <1>2 DEF Pending
<1>21. SocketLists'
  BY <1>0, <1>3 DEF RequestsInv, SocketLists, NoneTwice
<1>22. RequestsOnTheWay' /\ LostRequestsAreGone' /\ ServerWaits' /\ ResponsesInv'
  BY <1>0, <1>3, WiresStay DEF RequestsInv
<1>23. TypeOK'
  <2>1. /\ next_outgoing_seq_num_' = next_outgoing_seq_num_
        /\ next_exp_seq_num_' = next_exp_seq_num_ /\ send_buffer_' = send_buffer_
        /\ delivered' = delivered /\ up' = up /\ down' = down
        /\ lost_requests' = lost_requests /\ lost_responses' = lost_responses
        /\ cid_next_outgoing_seq_num_' = cid_next_outgoing_seq_num_
        /\ disconnected_sockets_' = disconnected_sockets_
        /\ server_buffer_' = server_buffer_
        /\ taken' = taken /\ answered' = answered /\ responses' = responses
    BY <1>2 DEF gateways, wires, engine, sockets
  <2>2. /\ pending_client_requests_' \in Seq([recv_time_ : Stamps, request_ : Requests])
        /\ Len(pending_client_requests_') <= MaxPending
        /\ pc' \in {"poll", "serve", "respond"}
    BY <1>2, CountsAssumption
  <2>3. sequenced' \in Seq(Requests)
    BY <1>10, <1>11
  <2>4. taken \in 0 .. Len(all)
    <3>1. taken \in 0 .. Len(sequenced)
      BY <1>0 DEF TypeOK
    <3>2. Len(sequenced) \in Nat /\ Len(batch) \in Nat
      BY <1>4, <1>6
    <3>3. QED BY <1>10, <3>1, <3>2
  <2>5. taken' \in 0 .. Len(sequenced')
    BY <1>11, <2>1, <2>4
  <2>6. QED BY <1>0, <1>3, <2>1, <2>2, <2>3, <2>5 DEF TypeOK
<1>24. OrderEntryInv'
  BY <1>18, <1>19, <1>20, <1>21, <1>22, <1>23 DEF OrderEntryInv, RequestsInv
<1>25. InOrder /\ Len(p) <= StableUpTo => InOrder'
  BY <1>11, <1>17 DEF InOrder
<1>26. QED BY <1>24, <1>25 DEF p

\* The way of the requests depends on these variables only.
LEMMA RequestsStay ==
    ASSUME RequestsInv,
           UNCHANGED <<run, next_outgoing_seq_num_, send_buffer_, up, lost_requests, backlog, pc,
                       todo, receive_sockets_, cid_tcp_socket_, cid_next_exp_seq_num_,
                       pending_client_requests_, aborted, sequenced>>
    PROVE  RequestsInv'
<1>1. /\ RequestsOnTheWay /\ LostRequestsAreGone /\ ServerWaits /\ SocketLists
      /\ Pending /\ RequestsOnce /\ NoneSkipped
  BY DEF RequestsInv
<1>2. RequestsOnTheWay'
  BY <1>1 DEF RequestsOnTheWay, GoUp, MySocket
<1>3. LostRequestsAreGone'
  BY <1>1 DEF LostRequestsAreGone
<1>4. ServerWaits'
  BY <1>1 DEF ServerWaits, MySocket
<1>5. SocketLists'
  BY <1>1 DEF SocketLists, NoneTwice
<1>6. Pending' /\ RequestsOnce' /\ NoneSkipped'
  BY <1>1, AcceptedStays
<1>7. QED BY <1>2, <1>3, <1>4, <1>5, <1>6 DEF RequestsInv

\* The first response in the queue is the one the server numbers next.
LEMMA NextResponse ==
    ASSUME TypeOK, ResponsesQueued, responses # << >>
    PROVE  /\ responses[1].client \in Clients /\ 1 \in DOMAIN responses
           /\ cid_tcp_socket_[responses[1].client] # NoSocket
           /\ responses[1].id = cid_next_outgoing_seq_num_[responses[1].client]
           /\ responses[1].id <= answered[responses[1].client]
<1> DEFINE r == responses[1]
           c == r.client
           o == cid_next_outgoing_seq_num_[c]
<1>1. 1 \in DOMAIN responses
  <2>1. responses \in Seq([client : Clients, id : Nat])
    BY DEF TypeOK
  <2>2. QED BY <2>1
<1>2. c \in Clients /\ r.id \in Nat
  BY <1>1, QueueTypes
<1>3. o \in Nat /\ answered[c] \in Nat
  BY <1>2, ClientTypes
<1>4. cid_tcp_socket_[c] # NoSocket /\ o <= r.id /\ r.id <= answered[c]
  BY <1>1 DEF ResponsesQueued
<1>5. \A j \in DOMAIN responses : 1 < j /\ responses[j].client = c => r.id < responses[j].id
  BY <1>1 DEF ResponsesQueued
<1>6. PICK i \in DOMAIN responses : responses[i].client = c /\ responses[i].id = o
  <2>1. o \in o .. answered[c]
    BY <1>2, <1>3, <1>4
  <2>2. QED BY <1>2, <2>1 DEF ResponsesQueued
<1>7. i \in Nat /\ (i = 1 \/ 1 < i)
  BY QueueTypes
<1>8. r.id = o
  <2>1. CASE i = 1
    BY <1>6, <2>1
  <2>2. CASE 1 < i
    BY <1>2, <1>3, <1>4, <1>5, <1>6, <2>2
  <2>3. QED BY <1>7, <2>1, <2>2
<1>9. QED BY <1>1, <1>2, <1>4, <1>8

\* A response is numbered and goes to the send buffer of its client's socket.
LEMMA SendResponseKeeps ==
    ASSUME OrderEntryInv, SendResponse
    PROVE  OrderEntryInv'
<1> DEFINE r == responses[1]
           c == r.client
           k == cid_tcp_socket_[c]
           o == cid_next_outgoing_seq_num_[c]
           x == [client |-> c, id |-> r.id, seq |-> o]
           b == server_buffer_[k]
<1>0. TypeOK /\ RequestsInv /\ ResponsesInv /\ responses # << >>
  BY DEF OrderEntryInv, SendResponse
<1>1. responses \in Seq([client : Clients, id : Nat])
  BY <1>0 DEF TypeOK
<1>2. /\ c \in Clients /\ k # NoSocket /\ r.id = o /\ r.id <= answered[c] /\ 1 \in DOMAIN responses
  BY <1>0, NextResponse DEF ResponsesInv
<1>3. /\ k \in Sockets /\ o \in Nat \ {0} /\ answered[c] \in Nat /\ b \in Seq(Responses) /\ k[1] = c
  <2>1. k \in Sockets /\ o \in Nat \ {0} /\ answered[c] \in Nat
    BY <1>0, <1>2, ClientTypes
  <2>2. b \in Seq(Responses)
    BY <1>0, <2>1, SocketTypes
  <2>3. k[1] = c
    BY <1>0, <1>2 DEF RequestsInv, ServerWaits
  <2>4. QED BY <2>1, <2>2, <2>3
<1>4. Head(responses) = r
  BY <1>0, <1>1
<1>5. /\ server_buffer_' = [server_buffer_ EXCEPT ![k] = Append(b, x)]
      /\ cid_next_outgoing_seq_num_' = [cid_next_outgoing_seq_num_ EXCEPT ![c] = o + 1]
      /\ responses' = Tail(responses) /\ aborted' = aborted
  BY <1>2, <1>4 DEF SendResponse
<1>6. UNCHANGED <<gateways, wires, backlog, loop, sockets, table,
                  pending_client_requests_, sequenced, engine>>
  BY DEF SendResponse
<1>7. /\ run' = run /\ next_outgoing_seq_num_' = next_outgoing_seq_num_
      /\ next_exp_seq_num_' = next_exp_seq_num_ /\ send_buffer_' = send_buffer_
      /\ delivered' = delivered /\ up' = up /\ down' = down /\ backlog' = backlog
      /\ lost_requests' = lost_requests /\ lost_responses' = lost_responses
      /\ pc' = pc /\ todo' = todo
      /\ receive_sockets_' = receive_sockets_ /\ disconnected_sockets_' = disconnected_sockets_
      /\ cid_tcp_socket_' = cid_tcp_socket_ /\ cid_next_exp_seq_num_' = cid_next_exp_seq_num_
      /\ pending_client_requests_' = pending_client_requests_
      /\ sequenced' = sequenced /\ taken' = taken /\ answered' = answered
  BY <1>6 DEF gateways, wires, loop, sockets, table, engine
<1>8. x \in Responses /\ x.client = c /\ x.id = o /\ x.seq = o
  BY <1>2, <1>3 DEF Responses
<1> HIDE DEF x, b, k, o, c, r
<1>9. /\ Append(b, x) \in Seq(Responses)
      /\ \A i \in DOMAIN Append(b, x) : \/ i \in DOMAIN b /\ Append(b, x)[i] = b[i]
                                        \/ Append(b, x)[i] = x
  BY <1>3, <1>8, AppendLists
<1>10. /\ server_buffer_' \in [Sockets -> Seq(Responses)] /\ server_buffer_'[k] = Append(b, x)
       /\ \A u \in Sockets : u # k => server_buffer_'[u] = server_buffer_[u]
  <2>1. server_buffer_ \in [Sockets -> Seq(Responses)]
    BY <1>0 DEF TypeOK
  <2>2. QED BY <1>3, <1>5, <1>9, <2>1, Update
<1>11. /\ cid_next_outgoing_seq_num_' \in [Clients -> Nat \ {0}]
       /\ cid_next_outgoing_seq_num_'[c] = o + 1
       /\ \A d \in Clients : d # c => cid_next_outgoing_seq_num_'[d] = cid_next_outgoing_seq_num_[d]
       /\ \A d \in Clients : /\ cid_next_outgoing_seq_num_[d] \in Nat
                             /\ cid_next_outgoing_seq_num_'[d] \in Nat
                             /\ cid_next_outgoing_seq_num_[d] <= cid_next_outgoing_seq_num_'[d]
  <2>1. cid_next_outgoing_seq_num_ \in [Clients -> Nat \ {0}] /\ o + 1 \in Nat \ {0}
    <3>1. cid_next_outgoing_seq_num_ \in [Clients -> Nat \ {0}]
      BY <1>0 DEF TypeOK
    <3>2. o + 1 \in Nat \ {0}
      BY <1>3
    <3>3. QED BY <3>1, <3>2
  <2>2. /\ cid_next_outgoing_seq_num_' \in [Clients -> Nat \ {0}]
        /\ cid_next_outgoing_seq_num_'[c] = o + 1
        /\ \A d \in Clients : d # c => cid_next_outgoing_seq_num_'[d] = cid_next_outgoing_seq_num_[d]
    BY <1>2, <1>5, <2>1, Update
  <2>3. o <= o + 1 /\ cid_next_outgoing_seq_num_[c] = o
    BY <1>3 DEF o
  <2>4. \A d \in Clients : cid_next_outgoing_seq_num_[d] \in Nat
    BY <2>1
  <2>5. QED BY <2>1, <2>2, <2>3, <2>4
<1>12. ResponsesOnTheWay /\ LostResponsesAreGone /\ GatewayWaits /\ ResponsesQueued
  BY <1>0 DEF ResponsesInv
<1>13. \A d \in Clients : cid_tcp_socket_[d] = k => d = c
  BY <1>0, <1>2, <1>3 DEF RequestsInv, ServerWaits
<1>14. ResponsesQueued'
  <2> DEFINE T == Tail(responses)
  <2>1. /\ T \in Seq([client : Clients, id : Nat])
        /\ \A i \in DOMAIN T : i + 1 \in DOMAIN responses /\ T[i] = responses[i + 1] /\ 1 < i + 1
        /\ \A i \in DOMAIN responses : i # 1 => i - 1 \in DOMAIN T /\ T[i - 1] = responses[i]
        /\ \A i, j \in DOMAIN T : i < j => i + 1 < j + 1
    <3>1. DOMAIN T = 1 .. Len(responses) - 1 /\ DOMAIN responses = 1 .. Len(responses)
          /\ Len(responses) \in Nat /\ T \in Seq([client : Clients, id : Nat])
          /\ \A i \in 1 .. Len(responses) - 1 : T[i] = responses[i + 1]
      BY <1>0, <1>1
    <3> HIDE DEF T
    <3>2. QED BY <3>1
  <2> HIDE DEF T
  <2>2. \A i \in DOMAIN responses :
           /\ responses[i].client \in Clients /\ responses[i].id \in Nat
           /\ cid_tcp_socket_[responses[i].client] # NoSocket
           /\ cid_next_outgoing_seq_num_[responses[i].client] <= responses[i].id
           /\ responses[i].id <= answered[responses[i].client]
           /\ \A j \in DOMAIN responses : i < j /\ responses[i].client = responses[j].client =>
                 responses[i].id < responses[j].id
    BY <1>0, <1>12, QueueTypes DEF ResponsesQueued
  <2>3. ASSUME NEW i \in DOMAIN T
        PROVE  /\ cid_tcp_socket_[T[i].client] # NoSocket
               /\ cid_next_outgoing_seq_num_'[T[i].client] <= T[i].id
               /\ T[i].id <= answered[T[i].client]
               /\ \A j \in DOMAIN T : i < j /\ T[i].client = T[j].client => T[i].id < T[j].id
    <3>1. /\ i + 1 \in DOMAIN responses /\ T[i] = responses[i + 1] /\ 1 < i + 1
          /\ T[i].id \in Nat /\ T[i].client \in Clients
      BY <2>1, <2>2
    <3>2. cid_next_outgoing_seq_num_'[T[i].client] <= T[i].id
      <4>1. CASE T[i].client = c
        <5>1. r.id < T[i].id
          BY <1>2, <2>2, <3>1, <4>1 DEF r, c
        <5>2. o + 1 <= T[i].id
          BY <1>2, <1>3, <3>1, <5>1
        <5>3. QED BY <1>11, <4>1, <5>2
      <4>2. CASE T[i].client # c
        BY <1>11, <2>2, <3>1, <4>2
      <4>3. QED BY <4>1, <4>2
    <3>3. \A j \in DOMAIN T : i < j /\ T[i].client = T[j].client => T[i].id < T[j].id
      BY <2>1, <2>2
    <3>4. QED BY <2>2, <3>1, <3>2, <3>3
  <2>4. ASSUME NEW d \in Clients
        PROVE  /\ cid_next_outgoing_seq_num_'[d] <= answered[d] + 1
               /\ \A m \in cid_next_outgoing_seq_num_'[d] .. answered[d] :
                     \E i \in DOMAIN T : T[i].client = d /\ T[i].id = m
    <3>0. answered[d] \in Nat
      BY <1>0, ClientTypes
    <3>1. cid_next_outgoing_seq_num_'[d] <= answered[d] + 1
      <4>1. CASE d = c
        <5>1. o + 1 <= answered[c] + 1
          BY <1>2, <1>3
        <5>2. QED BY <1>11, <4>1, <5>1
      <4>2. CASE d # c
        BY <1>11, <1>12, <4>2 DEF ResponsesQueued
      <4>3. QED BY <4>1, <4>2
    <3>2. ASSUME NEW m \in cid_next_outgoing_seq_num_'[d] .. answered[d]
          PROVE  \E i \in DOMAIN T : T[i].client = d /\ T[i].id = m
      <4>1. m \in cid_next_outgoing_seq_num_[d] .. answered[d]
        BY <1>11, <3>0
      <4>2. PICK i \in DOMAIN responses : responses[i].client = d /\ responses[i].id = m
        BY <1>12, <4>1 DEF ResponsesQueued
      <4>3. i # 1
        <5>1. SUFFICES ASSUME i = 1 PROVE FALSE
          OBVIOUS
        <5>2. d = c /\ m = o
          BY <1>2, <4>2, <5>1 DEF c, r
        <5>3. o + 1 <= m
          BY <1>11, <3>0, <5>2
        <5>4. QED BY <1>3, <5>2, <5>3
      <4>4. QED BY <2>1, <4>2, <4>3
    <3>3. QED BY <3>1, <3>2
  <2>5. responses' = T
    BY <1>5 DEF T
  <2>6. QED BY <1>7, <2>3, <2>4, <2>5 DEF ResponsesQueued
<1>15. ResponsesOnTheWay'
  <2> DEFINE Num(y, u) == /\ y.client = u[1] /\ cid_tcp_socket_[y.client] = u
                          /\ y.id = y.seq /\ 1 <= y.seq
                          /\ y.seq < cid_next_outgoing_seq_num_'[y.client]
  <2>1. ASSUME NEW y \in Responses, NEW u, Numbered(y, u) PROVE Num(y, u)
    <3>1. /\ y.client = u[1] /\ cid_tcp_socket_[y.client] = u
          /\ y.id = y.seq /\ 1 <= y.seq /\ y.seq < cid_next_outgoing_seq_num_[y.client]
      BY <2>1 DEF Numbered
    <3>2. y.client \in Clients /\ y.seq \in Nat
      BY DEF Responses
    <3>3. y.seq < cid_next_outgoing_seq_num_'[y.client]
      BY <1>11, <3>1, <3>2
    <3>4. QED BY <3>1, <3>3
  <2>2. Num(x, k)
    <3>1. cid_tcp_socket_[c] = k /\ 1 <= o /\ o < o + 1
      BY <1>3 DEF k
    <3>2. QED BY <1>3, <1>8, <1>11, <3>1
  <2>3. ASSUME NEW u \in Sockets
        PROVE  /\ GoUp(down[u]) /\ GoUp(server_buffer_[u])
               /\ \A i \in DOMAIN down[u] : Num(down[u][i], u) /\ Numbered(down[u][i], u)
               /\ \A i \in DOMAIN server_buffer_[u] :
                     /\ Num(server_buffer_[u][i], u) /\ Numbered(server_buffer_[u][i], u)
                     /\ \A j \in DOMAIN down[u] : down[u][j].seq < server_buffer_[u][i].seq
    <3> HIDE DEF Num
    <3>1. QED BY <1>0, <1>12, <2>1, WireTypes DEF ResponsesOnTheWay
  <2>4. /\ \A i \in DOMAIN down[k] : down[k][i].seq < o
        /\ \A i \in DOMAIN b : b[i].seq < o
    <3>1. ASSUME NEW y, Numbered(y, k) PROVE y.seq < o
      BY <1>3, <3>1 DEF Numbered, o
    <3>2. QED BY <1>3, <2>3, <3>1 DEF b
  <2>5. GoUp(Append(b, x))
    BY <1>3, <1>8, <2>3, <2>4, AppendGoesUp DEF b
  <2> HIDE DEF Num
  <2>6. ASSUME NEW u \in Sockets
        PROVE  /\ GoUp(server_buffer_'[u])
               /\ \A i \in DOMAIN server_buffer_'[u] :
                     /\ Num(server_buffer_'[u][i], u)
                     /\ \A j \in DOMAIN down[u] : down[u][j].seq < server_buffer_'[u][i].seq
    <3>1. CASE u = k
      <4>1. /\ \A i \in DOMAIN b : /\ Num(b[i], k)
                                   /\ \A j \in DOMAIN down[k] : down[k][j].seq < b[i].seq
        BY <1>3, <2>3 DEF b
      <4>2. ASSUME NEW i \in DOMAIN Append(b, x)
            PROVE  /\ Num(Append(b, x)[i], k)
                   /\ \A j \in DOMAIN down[k] : down[k][j].seq < Append(b, x)[i].seq
        BY <1>8, <1>9, <2>2, <2>4, <4>1
      <4>3. QED BY <1>10, <2>5, <3>1, <4>2
    <3>2. CASE u # k
      BY <1>10, <2>3, <3>2
    <3>3. QED BY <3>1, <3>2
  <2>7. QED BY <1>7, <2>3, <2>6 DEF ResponsesOnTheWay, Numbered, GoUp, Num
<1>16. LostResponsesAreGone'
  <2>1. ASSUME NEW l \in lost_responses
        PROVE  /\ l.seq < cid_next_outgoing_seq_num_'[l.client]
               /\ \A i \in DOMAIN server_buffer_'[cid_tcp_socket_[l.client]] :
                     server_buffer_'[cid_tcp_socket_[l.client]][i].seq # l.seq
    <3> DEFINE q == cid_tcp_socket_[l.client]
    <3>1. /\ q # NoSocket /\ l.seq < cid_next_outgoing_seq_num_[l.client]
          /\ \A i \in DOMAIN server_buffer_[q] : server_buffer_[q][i].seq # l.seq
      BY <1>12 DEF LostResponsesAreGone
    <3>2. l.client \in Clients /\ l.seq \in Nat
      BY <1>0 DEF TypeOK, Responses
    <3>3. q \in Sockets
      BY <1>0, <3>1, <3>2, ClientTypes
    <3>4. l.seq < cid_next_outgoing_seq_num_'[l.client]
      BY <1>11, <3>1, <3>2
    <3>5. \A i \in DOMAIN server_buffer_'[q] : server_buffer_'[q][i].seq # l.seq
      <4>1. CASE q = k
        <5>1. l.seq < o /\ l.seq # o
          <6>1. l.client = c
            BY <1>13, <3>2, <4>1
          <6>2. l.seq < o
            BY <3>1, <6>1 DEF o
          <6>3. QED BY <1>3, <3>2, <6>2
        <5>2. \A i \in DOMAIN b : b[i].seq # l.seq
          BY <3>1, <4>1 DEF b
        <5> HIDE DEF q
        <5>3. QED BY <1>8, <1>9, <1>10, <4>1, <5>1, <5>2
      <4>2. CASE q # k
        BY <1>10, <3>1, <3>3, <4>2
      <4>3. QED BY <4>1, <4>2
    <3>6. QED BY <3>4, <3>5
  <2>2. QED BY <1>7, <1>12, <2>1 DEF LostResponsesAreGone, MySocket
<1>17. GatewayWaits'
  <2>1. ASSUME NEW d \in Clients
        PROVE  /\ next_exp_seq_num_[d] <= cid_next_outgoing_seq_num_'[d]
               /\ \A i \in DOMAIN server_buffer_'[MySocket(d)] :
                     next_exp_seq_num_[d] <= server_buffer_'[MySocket(d)][i].seq
    <3>1. /\ next_exp_seq_num_[d] <= cid_next_outgoing_seq_num_[d]
          /\ \A i \in DOMAIN server_buffer_[MySocket(d)] :
                next_exp_seq_num_[d] <= server_buffer_[MySocket(d)][i].seq
      BY <1>12 DEF GatewayWaits
    <3>2. next_exp_seq_num_[d] \in Nat /\ MySocket(d) \in Sockets /\ MySocket(d)[1] = d
      BY <1>0, ClientTypes
    <3>3. next_exp_seq_num_[d] <= cid_next_outgoing_seq_num_'[d]
      BY <1>11, <3>1, <3>2
    <3>4. CASE MySocket(d) = k
      <4>1. next_exp_seq_num_[d] <= o
        BY <1>3, <3>1, <3>2, <3>4 DEF o
      <4>2. \A i \in DOMAIN b : next_exp_seq_num_[d] <= b[i].seq
        BY <3>1, <3>4 DEF b
      <4>3. QED BY <1>8, <1>9, <1>10, <3>3, <3>4, <4>1, <4>2
    <3>5. CASE MySocket(d) # k
      BY <1>10, <3>1, <3>2, <3>3, <3>5
    <3>6. QED BY <3>4, <3>5
  <2>2. QED BY <1>7, <1>12, <2>1 DEF GatewayWaits, MySocket
<1>18. RequestsInv'
  BY <1>0, <1>5, <1>7, RequestsStay
<1>19. ResponsesInv'
  BY <1>0, <1>5, <1>14, <1>15, <1>16, <1>17 DEF ResponsesInv
<1>20. TypeOK'
  <2>1. responses' \in Seq([client : Clients, id : Nat])
    BY <1>0, <1>1, <1>5
  <2>2. QED BY <1>0, <1>5, <1>7, <1>10, <1>11, <2>1 DEF TypeOK
<1>21. QED BY <1>18, <1>19, <1>20 DEF OrderEntryInv

\* The server has taken every response and polls again.
LEMMA ResponsesDoneKeeps ==
    ASSUME OrderEntryInv, ResponsesDone
    PROVE  OrderEntryInv'
<1>0. TypeOK /\ RequestsInv /\ ResponsesInv /\ pc = "respond" /\ pc' = "poll"
  BY DEF OrderEntryInv, ResponsesDone
<1>1. UNCHANGED <<gateways, wires, backlog, todo, sockets, table,
                  cid_next_outgoing_seq_num_, server_buffer_,
                  pending_client_requests_, aborted, sequenced, engine, responses>>
  BY DEF ResponsesDone
<1>2. /\ run' = run /\ next_outgoing_seq_num_' = next_outgoing_seq_num_
      /\ next_exp_seq_num_' = next_exp_seq_num_ /\ send_buffer_' = send_buffer_
      /\ delivered' = delivered /\ up' = up /\ down' = down /\ backlog' = backlog
      /\ lost_requests' = lost_requests /\ lost_responses' = lost_responses /\ todo' = todo
      /\ receive_sockets_' = receive_sockets_ /\ disconnected_sockets_' = disconnected_sockets_
      /\ cid_tcp_socket_' = cid_tcp_socket_ /\ cid_next_exp_seq_num_' = cid_next_exp_seq_num_
      /\ cid_next_outgoing_seq_num_' = cid_next_outgoing_seq_num_
      /\ server_buffer_' = server_buffer_
      /\ pending_client_requests_' = pending_client_requests_ /\ aborted' = aborted
      /\ sequenced' = sequenced /\ taken' = taken /\ answered' = answered
      /\ responses' = responses
  BY <1>1 DEF gateways, wires, sockets, table, engine
<1>3. RequestsOnTheWay' /\ LostRequestsAreGone' /\ ServerWaits' /\ ResponsesInv'
  <2>1. UNCHANGED <<gateways, wires, table, cid_next_outgoing_seq_num_, server_buffer_,
                    aborted, answered, responses>>
    BY <1>1 DEF engine
  <2>2. QED BY <1>0, <2>1, WiresStay DEF RequestsInv
<1>4. SocketLists'
  BY <1>0, <1>2 DEF RequestsInv, SocketLists, NoneTwice
<1>5. Pending'
  <2>1. pending_client_requests_ = << >>
    BY <1>0 DEF RequestsInv, Pending
  <2>2. QED BY <1>2, <2>1 DEF Pending
<1>6. RequestsOnce' /\ NoneSkipped'
  <2>1. RequestsOnce'
    BY <1>0, <1>2 DEF RequestsInv, RequestsOnce
  <2>2. NoneSkipped'
    BY <1>0, <1>2 DEF RequestsInv, NoneSkipped, WasAccepted, Serving
  <2>3. QED BY <2>1, <2>2
<1>7. TypeOK'
  BY <1>0, <1>2 DEF TypeOK
<1>8. QED BY <1>3, <1>4, <1>5, <1>6, <1>7 DEF OrderEntryInv, RequestsInv

\* ResponsesQueued of the queue and the counts of st.
Queue(st) ==
    /\ st.responses \in Seq([client : Clients, id : Nat]) /\ st.answered \in [Clients -> Nat]
    /\ \A i \in DOMAIN st.responses :
          /\ cid_tcp_socket_[st.responses[i].client] # NoSocket
          /\ cid_next_outgoing_seq_num_[st.responses[i].client] <= st.responses[i].id
          /\ st.responses[i].id <= st.answered[st.responses[i].client]
          /\ \A j \in DOMAIN st.responses :
                i < j /\ st.responses[i].client = st.responses[j].client =>
                st.responses[i].id < st.responses[j].id
    /\ \A c \in Clients :
          /\ cid_next_outgoing_seq_num_[c] <= st.answered[c] + 1
          /\ \A m \in cid_next_outgoing_seq_num_[c] .. st.answered[c] :
                \E i \in DOMAIN st.responses : st.responses[i].client = c /\ st.responses[i].id = m

\* One more response for a client that has a socket.
LEMMA AnswerQueued ==
    ASSUME TypeOK, NEW st, Queue(st), NEW c \in Clients, cid_tcp_socket_[c] # NoSocket
    PROVE  Queue(Answer(st, c))
<1> DEFINE w == Answer(st, c)
           Q == [client : Clients, id : Nat]
           x == [client |-> c, id |-> st.answered[c] + 1]
           q == st.responses
           a == st.answered
           R == Append(q, x)
           A == [a EXCEPT ![c] = a[c] + 1]
<1>1. w.responses = R /\ w.answered = A
  BY DEF Answer
<1>2. q \in Seq(Q) /\ a \in [Clients -> Nat] /\ a[c] \in Nat
  BY DEF Queue
<1>3. x \in Q /\ x.client = c /\ x.id = a[c] + 1
  BY <1>2
<1>4. \A y \in Q : y.client \in Clients /\ y.id \in Nat
  OBVIOUS
<1>5. /\ \A i \in DOMAIN q :
            /\ cid_tcp_socket_[q[i].client] # NoSocket
            /\ cid_next_outgoing_seq_num_[q[i].client] <= q[i].id
            /\ q[i].id <= a[q[i].client]
            /\ \A j \in DOMAIN q : i < j /\ q[i].client = q[j].client => q[i].id < q[j].id
      /\ \A d \in Clients : cid_next_outgoing_seq_num_[d] <= a[d] + 1
  BY DEF Queue
<1>6. \A d \in Clients : \A m \in cid_next_outgoing_seq_num_[d] .. a[d] :
         \E i \in DOMAIN q : q[i].client = d /\ q[i].id = m
  BY DEF Queue
<1> HIDE DEF w, Q, x, q, a, A
<1>7. /\ R \in Seq(Q) /\ DOMAIN q = 1 .. Len(q) /\ Len(q) \in Nat
      /\ \A i \in DOMAIN R : \/ i \in DOMAIN q /\ R[i] = q[i]
                             \/ i = Len(q) + 1 /\ R[i] = x
      /\ \A i \in DOMAIN q : i \in DOMAIN R /\ R[i] = q[i]
      /\ Len(q) + 1 \in DOMAIN R /\ R[Len(q) + 1] = x
  BY <1>2, <1>3, AppendLists
<1>8. \A i \in DOMAIN q : q[i].client \in Clients /\ q[i].id \in Nat
  BY <1>2, <1>4
<1>9. /\ A \in [Clients -> Nat] /\ A[c] = a[c] + 1 /\ \A d \in Clients : d # c => A[d] = a[d]
      /\ \A d \in Clients : a[d] \in Nat /\ A[d] \in Nat /\ a[d] <= A[d]
  <2>1. A \in [Clients -> Nat] /\ A[c] = a[c] + 1 /\ \A d \in Clients : d # c => A[d] = a[d]
    BY <1>2 DEF A
  <2>2. a[c] <= a[c] + 1 /\ \A d \in Clients : a[d] \in Nat
    BY <1>2
  <2>3. QED BY <2>1, <2>2
<1> HIDE DEF R
<1>10. \A d \in Clients : cid_next_outgoing_seq_num_[d] \in Nat
  BY ClientTypes
<1>11. ASSUME NEW i \in DOMAIN R
       PROVE  /\ cid_tcp_socket_[R[i].client] # NoSocket
              /\ cid_next_outgoing_seq_num_[R[i].client] <= R[i].id
              /\ R[i].id <= A[R[i].client]
              /\ \A j \in DOMAIN R : i < j /\ R[i].client = R[j].client => R[i].id < R[j].id
  <2>1. CASE i \in DOMAIN q /\ R[i] = q[i]
    <3>1. /\ cid_tcp_socket_[q[i].client] # NoSocket
          /\ cid_next_outgoing_seq_num_[q[i].client] <= q[i].id
          /\ q[i].id <= a[q[i].client] /\ q[i].client \in Clients /\ q[i].id \in Nat
      BY <1>5, <1>8, <2>1
    <3>2. q[i].id <= A[q[i].client]
      BY <1>9, <3>1
    <3>3. ASSUME NEW j \in DOMAIN R, i < j, q[i].client = R[j].client PROVE q[i].id < R[j].id
      <4>1. CASE j \in DOMAIN q /\ R[j] = q[j]
        BY <1>5, <2>1, <3>3, <4>1
      <4>2. CASE R[j] = x
        <5>1. q[i].id <= a[c] /\ R[j].id = a[c] + 1
          BY <1>3, <3>1, <3>3, <4>2
        <5>2. QED BY <1>2, <3>1, <5>1
      <4>3. QED BY <1>7, <4>1, <4>2
    <3>4. QED BY <2>1, <3>1, <3>2, <3>3
  <2>2. CASE i = Len(q) + 1 /\ R[i] = x
    <3>1. a[c] + 1 <= A[c]
      BY <1>2, <1>9
    <3>2. \A j \in DOMAIN R : ~(i < j)
      BY <1>7, <2>2
    <3>3. QED BY <1>3, <1>5, <2>2, <3>1, <3>2
  <2>3. QED BY <1>7, <2>1, <2>2
<1>12. ASSUME NEW d \in Clients
       PROVE  /\ cid_next_outgoing_seq_num_[d] <= A[d] + 1
              /\ \A m \in cid_next_outgoing_seq_num_[d] .. A[d] :
                    \E i \in DOMAIN R : R[i].client = d /\ R[i].id = m
  <2>1. cid_next_outgoing_seq_num_[d] <= A[d] + 1
    BY <1>5, <1>9, <1>10
  <2>2. ASSUME NEW m \in cid_next_outgoing_seq_num_[d] .. A[d]
        PROVE  \E i \in DOMAIN R : R[i].client = d /\ R[i].id = m
    <3>1. CASE m \in cid_next_outgoing_seq_num_[d] .. a[d]
      <4>1. PICK i \in DOMAIN q : q[i].client = d /\ q[i].id = m
        BY <1>6, <3>1
      <4>2. QED BY <1>7, <4>1
    <3>2. CASE m \notin cid_next_outgoing_seq_num_[d] .. a[d]
      <4>1. d = c
        BY <1>9, <3>2
      <4>2. m = a[c] + 1
        BY <1>2, <1>9, <1>10, <3>2, <4>1
      <4>3. QED BY <1>3, <1>7, <4>1, <4>2
    <3>3. QED BY <3>1, <3>2
  <2>3. QED BY <2>1, <2>2
<1>13. Queue(w)
  <2>1. w.responses \in Seq([client : Clients, id : Nat]) /\ w.answered \in [Clients -> Nat]
    BY <1>1, <1>7, <1>9 DEF Q
  <2>2. \A i \in DOMAIN w.responses :
           /\ cid_tcp_socket_[w.responses[i].client] # NoSocket
           /\ cid_next_outgoing_seq_num_[w.responses[i].client] <= w.responses[i].id
           /\ w.responses[i].id <= w.answered[w.responses[i].client]
           /\ \A j \in DOMAIN w.responses :
                 i < j /\ w.responses[i].client = w.responses[j].client =>
                 w.responses[i].id < w.responses[j].id
    BY <1>1, <1>11
  <2>3. \A d \in Clients :
           /\ cid_next_outgoing_seq_num_[d] <= w.answered[d] + 1
           /\ \A m \in cid_next_outgoing_seq_num_[d] .. w.answered[d] :
                 \E i \in DOMAIN w.responses : w.responses[i].client = d /\ w.responses[i].id = m
    BY <1>1, <1>12
  <2>4. QED BY <2>1, <2>2, <2>3, Zenon DEF Queue
<1>14. QED BY <1>13 DEF w

\* The matching engine answers a request.
LEMMA MatchKeeps ==
    ASSUME OrderEntryInv, Match
    PROVE  OrderEntryInv'
<1> DEFINE c   == sequenced[taken + 1].client
           old == [answered |-> answered, responses |-> responses]
           one == Answer(old, c)
<1>0. TypeOK /\ RequestsInv /\ ResponsesInv /\ taken < Len(sequenced) /\ taken' = taken + 1
  BY DEF OrderEntryInv, Match
<1>1. PICK st \in {one} \cup {Answer(Answer(one, c), m) : m \in Known} :
         responses' = st.responses /\ answered' = st.answered
  BY DEF Match
<1>2. UNCHANGED <<gateways, wires, backlog, server, sequenced>>
  BY DEF Match
<1>3. /\ run' = run /\ next_outgoing_seq_num_' = next_outgoing_seq_num_
      /\ next_exp_seq_num_' = next_exp_seq_num_ /\ send_buffer_' = send_buffer_
      /\ delivered' = delivered /\ up' = up /\ down' = down /\ backlog' = backlog
      /\ lost_requests' = lost_requests /\ lost_responses' = lost_responses
      /\ pc' = pc /\ todo' = todo
      /\ receive_sockets_' = receive_sockets_ /\ disconnected_sockets_' = disconnected_sockets_
      /\ cid_tcp_socket_' = cid_tcp_socket_ /\ cid_next_exp_seq_num_' = cid_next_exp_seq_num_
      /\ cid_next_outgoing_seq_num_' = cid_next_outgoing_seq_num_
      /\ server_buffer_' = server_buffer_
      /\ pending_client_requests_' = pending_client_requests_ /\ aborted' = aborted
      /\ sequenced' = sequenced
  BY <1>2 DEF gateways, wires, server, loop, sockets, table
<1>4. sequenced \in Seq(Requests) /\ taken \in 0 .. Len(sequenced) /\ Len(sequenced) \in Nat
  <2>1. sequenced \in Seq(Requests) /\ taken \in 0 .. Len(sequenced)
    BY <1>0 DEF TypeOK
  <2>2. QED BY <2>1
<1>5. /\ taken + 1 \in 0 .. Len(sequenced) /\ taken + 1 \in DOMAIN sequenced
      /\ \A i \in 1 .. taken : i \in DOMAIN sequenced
  BY <1>0, <1>4
<1>6. \A i \in DOMAIN sequenced : /\ sequenced[i].client \in Clients
                                  /\ cid_tcp_socket_[sequenced[i].client] # NoSocket
  <2>1. ASSUME NEW i \in DOMAIN sequenced
        PROVE  /\ sequenced[i].client \in Clients
               /\ cid_tcp_socket_[sequenced[i].client] # NoSocket
    <3>1. sequenced[i] \in Requests
      BY <1>4
    <3>2. sequenced[i].client \in Clients /\ <<sequenced[i].client, sequenced[i].run>> \in Sockets
      BY <3>1, RequestTypes
    <3>3. cid_tcp_socket_[sequenced[i].client] = <<sequenced[i].client, sequenced[i].run>>
      BY <1>0 DEF RequestsInv, NoneSkipped, WasAccepted
    <3>4. QED BY <3>2, <3>3, NoSocketAssumption
  <2>2. QED BY <2>1
<1>7. /\ c \in Clients /\ cid_tcp_socket_[c] # NoSocket
      /\ \A m \in Known : m \in Clients /\ cid_tcp_socket_[m] # NoSocket
  BY <1>5, <1>6 DEF Known
<1>8. Queue(old)
  <2>1. responses \in Seq([client : Clients, id : Nat]) /\ answered \in [Clients -> Nat]
    BY <1>0 DEF TypeOK
  <2>2. old.responses = responses /\ old.answered = answered
    OBVIOUS
  <2>3. ResponsesQueued
    BY <1>0 DEF ResponsesInv
  <2> HIDE DEF old
  <2>4. QED BY <2>1, <2>2, <2>3 DEF Queue, ResponsesQueued
<1> HIDE DEF c, old, one
<1>9. Queue(one)
  BY <1>0, <1>7, <1>8, AnswerQueued DEF one
<1>10. Queue(Answer(one, c))
  BY <1>0, <1>7, <1>9, AnswerQueued
<1>11. \A m \in Known : Queue(Answer(Answer(one, c), m))
  BY <1>0, <1>7, <1>10, AnswerQueued
<1>12. Queue(st)
  BY <1>1, <1>9, <1>11
<1>13. /\ ResponsesQueued' /\ responses' \in Seq([client : Clients, id : Nat])
       /\ answered' \in [Clients -> Nat]
  <2>1. responses' \in Seq([client : Clients, id : Nat]) /\ answered' \in [Clients -> Nat]
    BY <1>1, <1>12 DEF Queue
  <2>2. ResponsesQueued'
    BY <1>1, <1>3, <1>12 DEF Queue, ResponsesQueued
  <2>3. QED BY <2>1, <2>2
<1>14. ResponsesOnTheWay' /\ LostResponsesAreGone' /\ GatewayWaits'
  <2>1. ResponsesOnTheWay /\ LostResponsesAreGone /\ GatewayWaits
    BY <1>0 DEF ResponsesInv
  <2>2. ResponsesOnTheWay'
    BY <1>3, <2>1 DEF ResponsesOnTheWay, Numbered, GoUp
  <2>3. LostResponsesAreGone'
    BY <1>3, <2>1 DEF LostResponsesAreGone, MySocket
  <2>4. GatewayWaits'
    BY <1>3, <2>1 DEF GatewayWaits, MySocket
  <2>5. QED BY <2>2, <2>3, <2>4
<1>15. RequestsInv'
  BY <1>0, <1>3, RequestsStay
<1>16. TypeOK'
  <2>1. taken' \in 0 .. Len(sequenced')
    BY <1>0, <1>3, <1>5
  <2>2. QED BY <1>0, <1>3, <1>13, <2>1 DEF TypeOK
<1>17. QED BY <1>0, <1>3, <1>13, <1>14, <1>15, <1>16 DEF OrderEntryInv, ResponsesInv

\* Nothing happens.
LEMMA StutterKeeps ==
    ASSUME OrderEntryInv, UNCHANGED vars
    PROVE  OrderEntryInv'
<1>0. TypeOK /\ RequestsInv /\ ResponsesInv
  BY DEF OrderEntryInv
<1>1. /\ run' = run /\ next_outgoing_seq_num_' = next_outgoing_seq_num_
      /\ next_exp_seq_num_' = next_exp_seq_num_ /\ send_buffer_' = send_buffer_
      /\ delivered' = delivered /\ up' = up /\ down' = down /\ backlog' = backlog
      /\ lost_requests' = lost_requests /\ lost_responses' = lost_responses
      /\ pc' = pc /\ todo' = todo
      /\ receive_sockets_' = receive_sockets_ /\ disconnected_sockets_' = disconnected_sockets_
      /\ cid_tcp_socket_' = cid_tcp_socket_ /\ cid_next_exp_seq_num_' = cid_next_exp_seq_num_
      /\ cid_next_outgoing_seq_num_' = cid_next_outgoing_seq_num_
      /\ server_buffer_' = server_buffer_
      /\ pending_client_requests_' = pending_client_requests_ /\ aborted' = aborted
      /\ sequenced' = sequenced /\ taken' = taken /\ answered' = answered
      /\ responses' = responses
  BY DEF vars, gateways, wires, server, loop, sockets, table, engine
<1>2. TypeOK'
  BY <1>0, <1>1 DEF TypeOK
<1>3. RequestsInv'
  BY <1>0, <1>1, RequestsStay
<1>4. ResponsesInv'
  <2>1. UNCHANGED <<gateways, wires, table, cid_next_outgoing_seq_num_, server_buffer_,
                    aborted, answered, responses>>
    BY <1>1 DEF gateways, wires, table
  <2>2. QED BY <1>0, <2>1, WiresStay DEF RequestsInv
<1>5. QED BY <1>2, <1>3, <1>4 DEF OrderEntryInv

\* Every step keeps the invariant.
LEMMA OrderEntryStep == OrderEntryInv /\ [Next]_vars => OrderEntryInv'
<1> SUFFICES ASSUME OrderEntryInv, [Next]_vars PROVE OrderEntryInv'
  OBVIOUS
<1>1. CASE \E c \in Clients : SendRequest(c) \/ GatewayStep(c) \/ Restart(c)
  BY <1>1, SendRequestKeeps, GatewayKeeps, RestartKeeps
<1>2. CASE poll \/ serve \/ sequenceAndPulish
  BY <1>2, PollKeeps, ServeKeeps, SequenceKeeps
<1>3. CASE SendResponse \/ ResponsesDone \/ Match
  BY <1>3, SendResponseKeeps, ResponsesDoneKeeps, MatchKeeps
<1>4. CASE UNCHANGED vars
  BY <1>4, StutterKeeps
<1>5. QED BY <1>1, <1>2, <1>3, <1>4 DEF Next

-----------------------------------------------------------------------------
(* The theorems.                                                           *)

\* The inductive invariant of the order-entry path: gateways, connections,
\* order server, sequencer and the two queues.
THEOREM OrderEntrySafety == Spec => []OrderEntryInv
BY OrderEntryInit, OrderEntryStep, PTL DEF Spec

\* What OrderGateway::recvCallback passes to its strategy is the responses 1, 2,
\* 3, ... that the matching engine gave its client.
THEOREM ResponsesArriveInOrder == Spec => []ResponsesInOrder
<1>1. ASSUME OrderEntryInv PROVE ResponsesInOrder
  <2>1. ASSUME NEW c \in Clients
        PROVE  /\ delivered[c] = [i \in 1 .. Len(delivered[c]) |-> i]
               /\ Len(delivered[c]) <= answered[c]
    <3>1. TypeOK /\ GatewayWaits /\ ResponsesQueued
      BY <1>1 DEF OrderEntryInv, ResponsesInv
    <3>2. /\ delivered[c] \in Seq(Nat) /\ next_exp_seq_num_[c] \in Nat
          /\ cid_next_outgoing_seq_num_[c] \in Nat /\ answered[c] \in Nat
      BY <3>1, ClientTypes
    <3>3. /\ next_exp_seq_num_[c] <= cid_next_outgoing_seq_num_[c]
          /\ Len(delivered[c]) = next_exp_seq_num_[c] - 1
          /\ \A i \in DOMAIN delivered[c] : delivered[c][i] = i
      BY <3>1 DEF GatewayWaits
    <3>4. cid_next_outgoing_seq_num_[c] <= answered[c] + 1
      BY <3>1 DEF ResponsesQueued
    <3>5. Len(delivered[c]) <= answered[c]
      BY <3>2, <3>3, <3>4
    <3>6. delivered[c] = [i \in 1 .. Len(delivered[c]) |-> i]
      BY <3>2, <3>3
    <3>7. QED BY <3>5, <3>6
  <2>2. QED BY <2>1 DEF ResponsesInOrder
<1>2. QED BY <1>1, OrderEntrySafety, PTL

\* A request or response that a failed send or a restart has lost is never got
\* past by its receiver.
THEOREM LostForGood == Spec => []LossSilences
<1>1. ASSUME OrderEntryInv PROVE LossSilences
  <2>0. /\ TypeOK /\ ServerWaits /\ NoneSkipped /\ LostRequestsAreGone /\ LostResponsesAreGone
    BY <1>1 DEF OrderEntryInv, RequestsInv, ResponsesInv
  <2>1. ASSUME NEW r \in lost_requests
        PROVE  /\ cid_tcp_socket_[r.client] = <<r.client, r.run>> =>
                     cid_next_exp_seq_num_[r.client] <= r.seq
               /\ r \notin ToSet(sequenced)
    <3>1. r \in Requests
      BY <2>0 DEF TypeOK
    <3>2. r.client \in Clients /\ <<r.client, r.run>> \in Sockets /\ r.seq \in Nat
      BY <3>1, RequestTypes
    <3>3. cid_tcp_socket_[r.client] = <<r.client, r.run>> =>
             cid_next_exp_seq_num_[r.client] <= r.seq
      BY <2>0, <3>2, NoSocketAssumption DEF ServerWaits
    <3>4. ASSUME r \in ToSet(sequenced) PROVE FALSE
      <4>1. sequenced \in Seq(Requests)
        BY <2>0 DEF TypeOK
      <4>2. PICK i \in DOMAIN sequenced : sequenced[i] = r
        BY <3>4, <4>1, Members
      <4>3. WasAccepted(r)
        BY <2>0, <4>2 DEF NoneSkipped
      <4>4. cid_next_exp_seq_num_[r.client] \in Nat
        BY <2>0, <3>2, ClientTypes
      <4>5. QED BY <3>2, <3>3, <4>3, <4>4 DEF WasAccepted
    <3>5. QED BY <3>3, <3>4
  <2>2. ASSUME NEW r \in lost_responses, cid_tcp_socket_[r.client] = MySocket(r.client)
        PROVE  next_exp_seq_num_[r.client] <= r.seq
    BY <2>0, <2>2 DEF LostResponsesAreGone
  <2>3. QED BY <2>1, <2>2 DEF LossSilences
<1>2. QED BY <1>1, OrderEntrySafety, PTL

\* OrderServer::run never meets a response to a client without a socket.
THEOREM EveryResponseHasASocket == Spec => []ResponsesHaveSockets
<1>1. OrderEntryInv => ResponsesHaveSockets
  BY DEF OrderEntryInv, ResponsesInv, ResponsesQueued, ResponsesHaveSockets
<1>2. QED BY <1>1, OrderEntrySafety, PTL

\* However std::sort breaks ties, the matching engine gets every request once,
\* and none without those before it.
THEOREM EveryRequestOnce == Spec => []RequestsOnce
<1>1. OrderEntryInv => RequestsOnce
  BY DEF OrderEntryInv, RequestsInv
<1>2. QED BY <1>1, OrderEntrySafety, PTL

\* Batches that are sorted stably keep the order of every client.
LEMMA InOrderStep ==
    OrderEntryInv /\ InOrder /\ Len(pending_client_requests_) <= StableUpTo /\ [Next]_vars
      => InOrder'
<1> SUFFICES ASSUME OrderEntryInv, InOrder, Len(pending_client_requests_) <= StableUpTo,
                    [Next]_vars
             PROVE  InOrder'
  OBVIOUS
<1>1. CASE sequenceAndPulish
  BY <1>1, SequenceKeeps
<1>2. CASE sequenced' = sequenced
  BY <1>2 DEF InOrder
<1>3. \A c \in Clients : SendRequest(c) \/ GatewayStep(c) \/ Restart(c) => sequenced' = sequenced
  BY DEF SendRequest, GatewayStep, GatewaySendAndRecv, Restart
<1>4. poll \/ serve \/ SendResponse \/ ResponsesDone \/ Match => sequenced' = sequenced
  BY DEF poll, serve, Serve, SendResponse, ResponsesDone, Match
<1>5. UNCHANGED vars => sequenced' = sequenced
  BY DEF vars
<1>6. QED BY <1>1, <1>2, <1>3, <1>4, <1>5 DEF Next

\* As long as a pass does not leave more pending requests than std::sort keeps
\* in order, the matching engine gets those of a client in the order its gateway
\* numbered them.
THEOREM RequestsArriveInOrder ==
    Spec /\ [](Len(pending_client_requests_) <= StableUpTo) => []RequestsInOrder
<1>1. Init => InOrder
  BY DEF Init, InOrder
<1>2. ASSUME OrderEntryInv, InOrder PROVE RequestsInOrder
  <2>1. TypeOK /\ RequestsOnce
    BY <1>2 DEF OrderEntryInv, RequestsInv
  <2>2. /\ sequenced \in Seq(Requests) /\ Len(sequenced) \in Nat
        /\ DOMAIN sequenced = 1 .. Len(sequenced)
        /\ \A i \in DOMAIN sequenced : sequenced[i] \in Requests
    <3>1. sequenced \in Seq(Requests)
      BY <2>1 DEF TypeOK
    <3>2. QED BY <3>1
  <2>3. ASSUME NEW i \in DOMAIN sequenced
        PROVE  /\ \A m \in 1 .. sequenced[i].seq - 1 :
                     \E j \in 1 .. i - 1 : sequenced[j] = [sequenced[i] EXCEPT !.seq = m]
               /\ \A j \in 1 .. i - 1 : sequenced[j].client = sequenced[i].client =>
                     sequenced[j].run = sequenced[i].run /\ sequenced[j].seq < sequenced[i].seq
    <3> DEFINE r == sequenced[i]
    <3>1. r \in Requests /\ r.seq \in Nat
      BY <2>2, RequestTypes
    <3>2. ASSUME NEW m \in 1 .. r.seq - 1
          PROVE  \E j \in 1 .. i - 1 : sequenced[j] = [r EXCEPT !.seq = m]
      <4>1. PICK j \in DOMAIN sequenced : sequenced[j] = [r EXCEPT !.seq = m]
        BY <2>1 DEF RequestsOnce
      <4>2. sequenced[j].client = r.client /\ sequenced[j].seq = m
        BY <3>1, <4>1 DEF Requests
      <4>3. m < r.seq /\ m \in Nat
        BY <3>1
      <4>4. ~(i < j) /\ i # j
        BY <1>2, <3>1, <4>2, <4>3 DEF InOrder
      <4>5. j \in 1 .. i - 1
        BY <2>2, <4>4
      <4>6. QED BY <4>1, <4>5
    <3>3. ASSUME NEW j \in 1 .. i - 1, sequenced[j].client = r.client
          PROVE  sequenced[j].run = r.run /\ sequenced[j].seq < r.seq
      <4>1. j \in DOMAIN sequenced /\ j < i /\ j # i
        BY <2>2
      <4>2. QED BY <1>2, <2>1, <3>3, <4>1 DEF RequestsOnce, InOrder
    <3>4. QED BY <3>2, <3>3
  <2>4. QED BY <2>3 DEF RequestsInOrder
<1>3. QED BY <1>1, <1>2, InOrderStep, OrderEntrySafety, PTL DEF Spec
=============================================================================
