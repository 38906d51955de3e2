------------------------------ MODULE OrderEntry ------------------------------
(***************************************************************************)
(* The order-entry path of Chapter10: one Trading::OrderGateway per client *)
(* (trading/order_gw/order_gateway.cpp), its TCP connection                *)
(* (common/tcp_socket.cpp), the Exchange::OrderServer with its TCPServer   *)
(* and FIFOSequencer (exchange/order_server, common/tcp_server.cpp), and   *)
(* the two queues to the matching engine, taken here as the FIFOs that     *)
(* LFQueue implements.  The matching engine is its environment: it takes   *)
(* one request at a time, answers it, and may tell another client that a   *)
(* resting order of his was filled.                                        *)
(*                                                                         *)
(* A socket is <<c, k>>: the connection of the k-th process of client c.   *)
(* A request is [client, run, seq]: the seq-th request of the run-th       *)
(* process of its client; a response is [client, id, seq]: the id-th one   *)
(* the matching engine gave for that client.  A half-received message      *)
(* waits in rcv_buffer_ exactly as it would on the wire, so sockets carry  *)
(* whole messages.                                                         *)
(*                                                                         *)
(* Two log lines of the server have a wrong number of arguments            *)
(* (order_server.cpp:37 and :83), which log() answers by ending the        *)
(* process at the first request; they are taken as repaired.               *)
(***************************************************************************)
EXTENDS Integers, Sequences, SequencesExt, FiniteSets

CONSTANTS
    Clients,
    NoSocket,      \* nullptr in cid_tcp_socket_
    MaxRequests,   \* bound: requests of one client process
    MaxRuns,       \* bound: processes of one client, one after the other
    Stamps,        \* kernel receive times that the reads of one pass may have
    MaxPending,    \* ME_MAX_PENDING_REQUESTS
    StableUpTo,    \* std::sort keeps equal elements in order up to this size
    Lossy          \* BOOLEAN: a non-blocking send may fail

ASSUME ClientsAssumption == IsFiniteSet(Clients)
ASSUME CountsAssumption ==
    /\ {MaxRequests, MaxPending, StableUpTo} \subseteq Nat /\ MaxRuns \in Nat \ {0}
    /\ Stamps \subseteq Nat /\ Stamps # {}
ASSUME FlagsAssumption == Lossy \in BOOLEAN

Sockets == Clients \X (1 .. MaxRuns)
Requests == [client : Clients, run : 1 .. MaxRuns, seq : 1 .. MaxRequests]
Responses == [client : Clients, id : Nat, seq : Nat]

ASSUME NoSocketAssumption == NoSocket \notin Sockets

VARIABLES
    \* the gateways
    run, next_outgoing_seq_num_, next_exp_seq_num_, send_buffer_, delivered,
    \* the connections
    up, down, backlog, lost_requests, lost_responses,
    \* the order server
    pc, todo, receive_sockets_, disconnected_sockets_,
    cid_tcp_socket_, cid_next_exp_seq_num_, cid_next_outgoing_seq_num_,
    server_buffer_, pending_client_requests_, aborted,
    \* the queues and the matching engine
    sequenced, taken, answered, responses

gateways == <<run, next_outgoing_seq_num_, next_exp_seq_num_, send_buffer_, delivered>>
wires == <<up, down, lost_requests, lost_responses>>
table == <<cid_tcp_socket_, cid_next_exp_seq_num_>>
sockets == <<receive_sockets_, disconnected_sockets_>>
loop == <<pc, todo>>
engine == <<taken, answered>>
server == <<loop, sockets, table, cid_next_outgoing_seq_num_, server_buffer_,
            pending_client_requests_, aborted>>
vars == <<gateways, wires, backlog, server, sequenced, engine, responses>>

MySocket(c) == <<c, run[c]>>
Alive(s) == run[s[1]] = s[2]

TypeOK ==
    /\ run \in [Clients -> 1 .. MaxRuns]
    /\ next_outgoing_seq_num_ \in [Clients -> 1 .. MaxRequests + 1]
    /\ next_exp_seq_num_ \in [Clients -> Nat \ {0}]
    /\ send_buffer_ \in [Clients -> Seq(Requests)]
    /\ delivered \in [Clients -> Seq(Nat)]
    /\ up \in [Sockets -> Seq(Requests)]
    /\ down \in [Sockets -> Seq(Responses)]
    /\ backlog \in Seq(Sockets)
    /\ lost_requests \subseteq Requests
    /\ lost_responses \subseteq Responses
    /\ pc \in {"poll", "serve", "respond"}
    /\ todo \in Seq(Sockets)
    /\ receive_sockets_ \in Seq(Sockets)
    /\ disconnected_sockets_ \subseteq Sockets
    /\ cid_tcp_socket_ \in [Clients -> Sockets \cup {NoSocket}]
    /\ cid_next_exp_seq_num_ \in [Clients -> 1 .. MaxRequests + 1]
    /\ cid_next_outgoing_seq_num_ \in [Clients -> Nat \ {0}]
    /\ server_buffer_ \in [Sockets -> Seq(Responses)]
    /\ pending_client_requests_ \in Seq([recv_time_ : Stamps, request_ : Requests])
    /\ Len(pending_client_requests_) <= MaxPending
    /\ aborted \in {"no", "full", "partial send", "no socket"}
    /\ sequenced \in Seq(Requests)
    /\ taken \in 0 .. Len(sequenced)
    /\ answered \in [Clients -> Nat]
    /\ responses \in Seq([client : Clients, id : Nat])

\* Every client has connected to a server that has not polled yet.
Init ==
    /\ run = [c \in Clients |-> 1]
    /\ next_outgoing_seq_num_ = [c \in Clients |-> 1]
    /\ next_exp_seq_num_ = [c \in Clients |-> 1]
    /\ send_buffer_ = [c \in Clients |-> << >>]
    /\ delivered = [c \in Clients |-> << >>]
    /\ up = [s \in Sockets |-> << >>]
    /\ down = [s \in Sockets |-> << >>]
    /\ backlog \in SetToSeqs({MySocket(c) : c \in Clients})
    /\ lost_requests = {}
    /\ lost_responses = {}
    /\ pc = "poll"
    /\ todo = << >>
    /\ receive_sockets_ = << >>
    /\ disconnected_sockets_ = {}
    /\ cid_tcp_socket_ = [c \in Clients |-> NoSocket]
    /\ cid_next_exp_seq_num_ = [c \in Clients |-> 1]
    /\ cid_next_outgoing_seq_num_ = [c \in Clients |-> 1]
    /\ server_buffer_ = [s \in Sockets |-> << >>]
    /\ pending_client_requests_ = << >>
    /\ aborted = "no"
    /\ sequenced = << >>
    /\ taken = 0
    /\ answered = [c \in Clients |-> 0]
    /\ responses = << >>

Serving == aborted = "no"

Prefix(s, n) == SubSeq(s, 1, n)
Rest(s, n) == SubSeq(s, n + 1, Len(s))

-----------------------------------------------------------------------------
(* The gateway thread of a client: tcp_socket_.sendAndRecv(), then every   *)
(* request its strategy has queued.                                        *)

SendRequest(c) ==
    /\ next_outgoing_seq_num_[c] <= MaxRequests
    /\ send_buffer_' = [send_buffer_ EXCEPT ![c] = Append(@,
           [client |-> c, run |-> run[c], seq |-> next_outgoing_seq_num_[c]])]
    /\ next_outgoing_seq_num_' = [next_outgoing_seq_num_ EXCEPT ![c] = @ + 1]
    /\ UNCHANGED <<run, next_exp_seq_num_, delivered, wires, backlog, server,
                   sequenced, engine, responses>>

\* Mutant: a response out of sequence is passed on.
AcceptAnyResponse(c, st, r) ==
    IF r.client # c THEN st
    ELSE [exp |-> r.seq + 1, got |-> Append(st.got, r.id)]

\* One response of OrderGateway::recvCallback.
AcceptResponse(c, st, r) ==
    IF r.client # c \/ r.seq # st.exp THEN st
    ELSE [exp |-> st.exp + 1, got |-> Append(st.got, r.id)]

\* The send buffer is emptied whether or not ::send() took it.
Emptied == << >>

\* The gateway of c when it has gone through the first n messages of arrived.
Received(c, arrived, n) ==
    LET st[i \in 0 .. n] ==
          IF i = 0 THEN [exp |-> next_exp_seq_num_[c], got |-> delivered[c]]
          ELSE AcceptResponse(c, st[i - 1], arrived[i])
    IN  st[n]

\* TCPSocket::sendAndRecv() of a gateway: n responses have arrived, and the
\* requests in the send buffer go out unless the send fails.
GatewaySendAndRecv(c, n, sent) ==
    LET s == MySocket(c)
        st == Received(c, down[s], n)
    IN  /\ n > 0 \/ send_buffer_[c] # << >>
        /\ ~sent => Lossy /\ send_buffer_[c] # << >>
        /\ next_exp_seq_num_' = [next_exp_seq_num_ EXCEPT ![c] = st.exp]
        /\ delivered' = [delivered EXCEPT ![c] = st.got]
        /\ down' = [down EXCEPT ![s] = Rest(@, n)]
        /\ IF sent
           THEN /\ up' = [up EXCEPT ![s] = @ \o send_buffer_[c]]
                /\ UNCHANGED lost_requests
           ELSE /\ lost_requests' = lost_requests \cup ToSet(send_buffer_[c])
                /\ UNCHANGED up
        /\ send_buffer_' = [send_buffer_ EXCEPT ![c] = Emptied]
        /\ UNCHANGED <<run, next_outgoing_seq_num_, lost_responses, backlog, server,
                       sequenced, engine, responses>>

\* The process of a client ends (it may also be the ASSERT of sendAndRecv() on
\* a partial send) and is started again: its gateway counts from 1 and has a
\* new connection.  Only a prefix of what it sent still reaches the server.
Restart(c) ==
    /\ Serving
    /\ run[c] < MaxRuns
    /\ \E n \in 0 .. Len(up[MySocket(c)]) :
        /\ up' = [up EXCEPT ![MySocket(c)] = Prefix(@, n)]
        /\ lost_requests' = lost_requests \cup ToSet(Rest(up[MySocket(c)], n))
                                          \cup ToSet(send_buffer_[c])
    /\ down' = [down EXCEPT ![MySocket(c)] = << >>]
    /\ run' = [run EXCEPT ![c] = @ + 1]
    /\ next_outgoing_seq_num_' = [next_outgoing_seq_num_ EXCEPT ![c] = 1]
    /\ next_exp_seq_num_' = [next_exp_seq_num_ EXCEPT ![c] = 1]
    /\ send_buffer_' = [send_buffer_ EXCEPT ![c] = << >>]
    /\ delivered' = [delivered EXCEPT ![c] = << >>]
    /\ backlog' = Append(backlog, <<c, run[c] + 1>>)
    /\ UNCHANGED <<lost_responses, server, sequenced, engine, responses>>

-----------------------------------------------------------------------------
(* The order server thread: poll(), sendAndRecv() on every socket in turn, *)
(* sequenceAndPulish(), then the responses the matching engine has queued. *)

\* The sockets of a list that are not in gone.
Without(list, gone) ==
    LET kept[i \in 0 .. Len(list)] ==
          IF i = 0 THEN << >>
          ELSE IF list[i] \in gone THEN kept[i - 1] ELSE Append(kept[i - 1], list[i])
    IN  kept[Len(list)]

\* TCPServer::poll(): sockets found hung up by an earlier poll are dropped,
\* some of the dead ones are found now, and waiting connections are accepted.
poll ==
    LET kept == Without(receive_sockets_, disconnected_sockets_)
    IN  /\ Serving
        /\ pc = "poll"
        /\ \E hup \in SUBSET {s \in ToSet(kept) : ~Alive(s)} :
               disconnected_sockets_' = disconnected_sockets_ \cup hup
        /\ receive_sockets_' = kept \o backlog
        /\ todo' = kept \o backlog
        /\ backlog' = << >>
        /\ pc' = "serve"
        /\ UNCHANGED <<gateways, wires, table, cid_next_outgoing_seq_num_, server_buffer_,
                       pending_client_requests_, aborted, sequenced, engine, responses>>

\* cid_tcp_socket_ keeps the socket of a client's first request.
Bind(socket, s, c) == IF socket[c] = NoSocket THEN [socket EXCEPT ![c] = s] ELSE socket

\* Mutant: requests are accepted whatever their sequence number.
InSequenceDropped(st, r) == TRUE

\* Mutant: a gap is passed over.
InSequenceAbove(st, r) == r.seq >= st.exp[r.client]

InSequence(st, r) == r.seq = st.exp[r.client]

\* FIFOSequencer::addClientRequest(); it ends the process when it is full.
addClientRequest(st, t, r) ==
    IF Len(st.pending) >= MaxPending THEN [st EXCEPT !.aborted = "full"]
    ELSE [st EXCEPT !.pending = Append(@, [recv_time_ |-> t, request_ |-> r])]

\* Mutant: the first request is accepted and its socket is not remembered.
AcceptRequestUnbound(s, t, st, r) ==
    IF st.aborted # "no" \/ st.socket[r.client] \notin {s, NoSocket} \/ ~InSequence(st, r) THEN st
    ELSE addClientRequest([st EXCEPT !.exp[r.client] = @ + 1], t, r)

\* One request of OrderServer::recvCallback.
AcceptRequest(s, t, st, r) ==
    LET bound == [st EXCEPT !.socket = Bind(st.socket, s, r.client)]
    IN  IF st.aborted # "no" THEN st
        ELSE IF bound.socket[r.client] # s \/ ~InSequence(st, r) THEN bound
        ELSE addClientRequest([bound EXCEPT !.exp[r.client] = @ + 1], t, r)

\* The server when it has gone through the first n messages that arrived on s.
Accepted(s, t, arrived, n) ==
    LET st[i \in 0 .. n] ==
          IF i = 0
          THEN [socket |-> cid_tcp_socket_, exp |-> cid_next_exp_seq_num_,
                pending |-> pending_client_requests_, aborted |-> "no"]
          ELSE AcceptRequest(s, t, st[i - 1], arrived[i])
    IN  st[n]

\* How many of the responses in the send buffer of s the gateway may get: none
\* if the receive callback has ended the process before the send, and the first
\* ones if the kernel has taken a part of the buffer.
Passed(s, outcome, ended) ==
    IF ended \/ ~Alive(s) \/ outcome = "failed" THEN {0}
    ELSE IF outcome = "sent" THEN {Len(server_buffer_[s])}
    ELSE 0 .. Len(server_buffer_[s]) - 1

\* TCPSocket::sendAndRecv() on the next socket: n requests have arrived there,
\* all with the kernel time t of this read, and the responses in the send
\* buffer of the socket go out.
Serve(n, t, outcome) ==
    LET s == Head(todo)
        st == Accepted(s, t, up[s], n)
    IN  /\ up' = [up EXCEPT ![s] = Rest(@, n)]
        /\ cid_tcp_socket_' = st.socket
        /\ cid_next_exp_seq_num_' = st.exp
        /\ pending_client_requests_' = st.pending
        /\ aborted' = IF st.aborted # "no" THEN st.aborted
                      ELSE IF outcome = "partial" THEN "partial send" ELSE "no"
        /\ outcome # "sent" => Lossy /\ server_buffer_[s] # << >>
        /\ \E k \in Passed(s, outcome, st.aborted # "no") :
               /\ down' = [down EXCEPT ![s] = @ \o Prefix(server_buffer_[s], k)]
               /\ lost_responses' = lost_responses \cup ToSet(Rest(server_buffer_[s], k))
        /\ server_buffer_' = [server_buffer_ EXCEPT ![s] = Emptied]
        /\ todo' = Tail(todo)
        /\ UNCHANGED <<gateways, lost_requests, backlog, pc, sockets,
                       cid_next_outgoing_seq_num_, sequenced, engine, responses>>

serve ==
    /\ Serving
    /\ pc = "serve"
    /\ todo # << >>
    /\ \E n \in 0 .. Len(up[Head(todo)]), t \in Stamps, outcome \in {"sent", "failed", "partial"} :
           Serve(n, t, outcome)

\* Mutant: the pending requests are published newest first.
SortedReversed(p) == {Reverse([i \in DOMAIN p |-> p[i].request_])}

\* What std::sort may leave of the pending requests: any order by recv_time_
\* in which equal times are in any order, or in the order they were added in
\* when there are few.
Sorted(p) ==
    {[i \in DOMAIN p |-> p[f[i]].request_] :
        f \in {f \in Bijection(DOMAIN p, DOMAIN p) :
            \A i, j \in DOMAIN p : i < j =>
                \/ p[f[i]].recv_time_ < p[f[j]].recv_time_
                \/ /\ p[f[i]].recv_time_ = p[f[j]].recv_time_
                   /\ Len(p) <= StableUpTo => f[i] < f[j]}}

\* FIFOSequencer::sequenceAndPulish().
sequenceAndPulish ==
    /\ Serving
    /\ pc = "serve"
    /\ todo = << >>
    /\ \E batch \in Sorted(pending_client_requests_) : sequenced' = sequenced \o batch
    /\ pending_client_requests_' = << >>
    /\ pc' = "respond"
    /\ UNCHANGED <<gateways, wires, backlog, todo, sockets, table,
                   cid_next_outgoing_seq_num_, server_buffer_, aborted, engine, responses>>

\* Mutant: the number of the response is not counted.
SendResponseUncounted ==
    /\ Serving
    /\ pc = "respond"
    /\ responses # << >>
    /\ LET r == Head(responses)
       IN server_buffer_' = [server_buffer_ EXCEPT ![cid_tcp_socket_[r.client]] = Append(@,
              [client |-> r.client, id |-> r.id, seq |-> cid_next_outgoing_seq_num_[r.client]])]
    /\ responses' = Tail(responses)
    /\ UNCHANGED <<gateways, wires, backlog, loop, sockets, table, cid_next_outgoing_seq_num_,
                   pending_client_requests_, aborted, sequenced, engine>>

\* One turn of the response loop of OrderServer::run.
SendResponse ==
    /\ Serving
    /\ pc = "respond"
    /\ responses # << >>
    /\ LET r == Head(responses)
           s == cid_tcp_socket_[r.client]
       IN  IF s = NoSocket
           THEN /\ aborted' = "no socket"
                /\ UNCHANGED <<server_buffer_, cid_next_outgoing_seq_num_, responses>>
           ELSE /\ server_buffer_' = [server_buffer_ EXCEPT ![s] = Append(@,
                       [client |-> r.client, id |-> r.id,
                        seq |-> cid_next_outgoing_seq_num_[r.client]])]
                /\ cid_next_outgoing_seq_num_' =
                       [cid_next_outgoing_seq_num_ EXCEPT ![r.client] = @ + 1]
                /\ responses' = Tail(responses)
                /\ UNCHANGED aborted
    /\ UNCHANGED <<gateways, wires, backlog, loop, sockets, table,
                   pending_client_requests_, sequenced, engine>>

ResponsesDone ==
    /\ Serving
    /\ pc = "respond"
    /\ responses = << >>
    /\ pc' = "poll"
    /\ UNCHANGED <<gateways, wires, backlog, todo, sockets, table,
                   cid_next_outgoing_seq_num_, server_buffer_,
                   pending_client_requests_, aborted, sequenced, engine, responses>>

-----------------------------------------------------------------------------
(* The matching engine thread, as the order server sees it.                *)

Known == {sequenced[i].client : i \in 1 .. taken}

\* One more response, for c.
Answer(st, c) ==
    [answered  |-> [st.answered EXCEPT ![c] = @ + 1],
     responses |-> Append(st.responses, [client |-> c, id |-> st.answered[c] + 1])]

\* The next request is answered; if it traded, its client and the owner of the
\* resting order are told of the fill.
Match ==
    /\ Serving
    /\ taken < Len(sequenced)
    /\ taken' = taken + 1
    /\ LET c   == sequenced[taken + 1].client
           one == Answer([answered |-> answered, responses |-> responses], c)
       IN \E st \in {one} \cup {Answer(Answer(one, c), m) : m \in Known} :
            /\ responses' = st.responses
            /\ answered' = st.answered
    /\ UNCHANGED <<gateways, wires, backlog, server, sequenced>>

GatewayStep(c) ==
    \E n \in 0 .. Len(down[MySocket(c)]), sent \in BOOLEAN : GatewaySendAndRecv(c, n, sent)

Next ==
    \/ \E c \in Clients : SendRequest(c) \/ GatewayStep(c) \/ Restart(c)
    \/ poll \/ serve \/ sequenceAndPulish \/ SendResponse \/ ResponsesDone
    \/ Match

Spec == Init /\ [][Next]_vars

\* Every thread spins, and TCP delivers in the end what was sent: a gateway
\* reads what has arrived, and a server that reads a socket again and again
\* does not always find it empty.
Fairness ==
    /\ WF_vars(poll) /\ WF_vars(serve) /\ WF_vars(sequenceAndPulish)
    /\ WF_vars(SendResponse) /\ WF_vars(ResponsesDone) /\ WF_vars(Match)
    /\ \A c \in Clients :
           WF_vars(\E sent \in BOOLEAN :
                      GatewaySendAndRecv(c, Len(down[MySocket(c)]), sent))
    /\ \A s \in Sockets :
           SF_vars(/\ Serving /\ pc = "serve" /\ todo # << >> /\ Head(todo) = s
                   /\ \E t \in Stamps, outcome \in {"sent", "failed", "partial"} :
                          Serve(Len(up[s]), t, outcome))

FairSpec == Spec /\ Fairness

-----------------------------------------------------------------------------
(* Properties *)

\* The matching engine gets the requests of a client once each, without a gap,
\* in the order the gateway numbered them, and from one process of the client
\* only, whatever sends fail, however the reads of the passes cut the streams
\* and in whatever order the sequencer publishes the clients.
RequestsInOrder ==
    \A i \in DOMAIN sequenced :
        LET r == sequenced[i]
        IN  /\ \A m \in 1 .. r.seq - 1 : \E j \in 1 .. i - 1 : sequenced[j] = [r EXCEPT !.seq = m]
            /\ \A j \in 1 .. i - 1 : sequenced[j].client = r.client =>
                  sequenced[j].run = r.run /\ sequenced[j].seq < r.seq

\* What a strategy gets is the responses to its client in the order the
\* matching engine gave them, from the first, without a gap.
ResponsesInOrder ==
    \A c \in Clients :
        /\ delivered[c] = [i \in 1 .. Len(delivered[c]) |-> i]
        /\ Len(delivered[c]) <= answered[c]

\* sendAndRecv() forgets what a failed send did not take (tcp_socket.cpp:86),
\* and the receiver waits for that number for ever: after one failed send no
\* later request of that process is ever accepted, and no later response read.
LossSilences ==
    /\ \A r \in lost_requests :
           /\ cid_tcp_socket_[r.client] = <<r.client, r.run>> =>
                  cid_next_exp_seq_num_[r.client] <= r.seq
           /\ r \notin ToSet(sequenced)
    /\ \A r \in lost_responses :
           cid_tcp_socket_[r.client] = MySocket(r.client) =>
               next_exp_seq_num_[r.client] <= r.seq

\* "Dont have a TCPSocket for ClientId" (order_server.cpp:85): the matching
\* engine only answers clients that have a socket.
ResponsesHaveSockets ==
    /\ aborted # "no socket"
    /\ \A i \in DOMAIN responses : cid_tcp_socket_[responses[i].client] # NoSocket

\* Every request is answered and the answer reaches the strategy, unless a
\* send has failed, the client was started again or the server has ended.
EveryRequestAnswered ==
    \A c \in Clients, k \in 1 .. MaxRequests :
        next_outgoing_seq_num_[c] > k ~>
            \/ Len(delivered[c]) >= k
            \/ lost_requests # {} \/ lost_responses # {} \/ run[c] > 1 \/ ~Serving
=============================================================================
