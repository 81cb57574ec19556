----------------------------- MODULE StreamProofs -----------------------------
(***************************************************************************)
(* The connections of the throughput tests are byte streams, and the two   *)
(* sides report the same number, for every number of clients, amount of    *)
(* data, buffer and backlog.                                               *)
(*                                                                         *)
(* The refinement needs LinkInv, which relates where client and server are *)
(* to the state of the connection between them; the agreement of the       *)
(* reports needs in addition that bytes are neither lost nor made on a     *)
(* connection that did not break (ByteInv), and that a client on such a    *)
(* connection leaves its loop only after DATAS calls (LoopInv).            *)
(***************************************************************************)
EXTENDS Stream, TLAPS

Types ==
    /\ spc \in {"setup", "accept", "close", "recv", "ok", "failure"}
    /\ conn \in Clients \cup {None} /\ rnum \in Nat
    /\ cpc \in [Clients -> {"connect", "send"} \cup Ended]
    /\ n \in [Clients -> Nat]
    /\ part \in [Clients -> 0 .. MAXLEN - 1] /\ num \in [Clients -> Nat]
    /\ link \in [Clients -> {"none", "waiting", "up", "down"}]
    /\ held \in [Clients -> Nat]
    /\ vsock \in BOOLEAN /\ cut \subseteq Clients

\* Where the server is with its connection, and the clients with theirs.
ServerInv ==
    /\ spc \in {"setup", "accept", "failure"} => conn = None /\ rnum = 0
    /\ spc \in {"close", "recv", "ok"} => conn \in Clients /\ cpc[conn] \notin {"connect", "failure"}
    /\ spc \in {"close", "recv"} /\ conn \notin cut => link[conn] = "up"
    /\ spc = "ok" => held[conn] = 0 /\ (conn \in cut \/ cpc[conn] \in Ended)

ClientInv ==
    \A c \in Clients :
        /\ c \in cut => link[c] = "down"
        /\ cpc[c] \in {"connect", "failure"} <=> link[c] = "none"
        /\ cpc[c] = "connect" => num[c] = 0 /\ part[c] = 0 /\ held[c] = 0 /\ n[c] = 0

LinkInv == Types /\ ServerInv /\ ClientInv

\* What a connection that did not break has taken is with the server or held.
ByteInv ==
    \A c \in Clients \ cut :
        (IF c = conn THEN rnum ELSE 0) + held[c] = num[c] + part[c]

\* The connection served, if it did not break, and those that are not down.
Whole(c) == c \notin cut /\ (c = conn \/ link[c] # "down")

LoopInv ==
    \A c \in Clients : Whole(c) =>
        /\ num[c] = n[c] * MAXLEN
        /\ cpc[c] = "report" => n[c] = DATAS /\ part[c] = 0
        /\ cpc[c] # "killed"

IInv == LinkInv /\ ByteInv /\ LoopInv

-------------------------------------------------------------------------------
(* The invariant, action by action *)

LEMMA Constants == DATAS \in Nat \ {0} /\ MAXLEN \in Nat \ {0} /\ Buffer \in Nat /\ None \notin Clients
  BY StreamAssumption

LEMMA InitInv == Init => IInv
<1> SUFFICES ASSUME Init PROVE IInv
  OBVIOUS
<1> USE Constants DEF Init
<1>1. LinkInv
  BY DEF LinkInv, Types, ServerInv, ClientInv, Ended
<1>2. ByteInv
  BY DEF ByteInv
<1>3. LoopInv
  BY DEF LoopInv, Whole
<1> QED BY <1>1, <1>2, <1>3 DEF IInv

LEMMA SetupInv == IInv /\ Setup /\ UNCHANGED vsock => IInv'
<1> SUFFICES ASSUME IInv, Setup, UNCHANGED vsock PROVE IInv'
  OBVIOUS
<1> USE DEF Setup, client, network, IInv
<1>1. LinkInv'
  BY DEF LinkInv, Types, ServerInv, ClientInv, Ended
<1>2. ByteInv'
  BY DEF ByteInv
<1>3. LoopInv'
  BY DEF LoopInv, Whole
<1> QED BY <1>1, <1>2, <1>3

\* The client accepted has received nothing yet, and no other has.
LEMMA AcceptInv == IInv /\ Accept /\ UNCHANGED vsock => IInv'
<1> SUFFICES ASSUME IInv, Accept, UNCHANGED vsock PROVE IInv'
  OBVIOUS
<1>1. PICK c \in Waiting :
        conn' = c /\ spc' \in {"close", "recv"} /\ link' = [link EXCEPT ![c] = "up"]
  BY DEF Accept
<1>2. /\ spc = "accept" /\ conn = None /\ rnum = 0 /\ UNCHANGED <<rnum, client, held, cut>>
      /\ c \in Clients /\ link[c] = "waiting" /\ c \notin cut
  BY DEF Accept, Waiting, IInv, LinkInv, ServerInv, ClientInv
<1>3. Types'
  BY <1>1, <1>2 DEF IInv, LinkInv, Types, client
<1>4. ServerInv'
  BY <1>1, <1>2 DEF IInv, LinkInv, Types, ServerInv, ClientInv, client
<1>5. ClientInv'
  BY <1>1, <1>2 DEF IInv, LinkInv, Types, ClientInv, Waiting, client
<1>6. ByteInv'
  BY <1>1, <1>2, Constants DEF IInv, LinkInv, Types, ByteInv, client
<1>7. LoopInv'
  BY <1>1, <1>2, Constants DEF IInv, LinkInv, Types, LoopInv, Whole, Waiting, client
<1> QED BY <1>3, <1>4, <1>5, <1>6, <1>7 DEF IInv, LinkInv

\* accept() fails, with clients that wait; none is served.
LEMMA AcceptFailsInv == IInv /\ AcceptFails /\ UNCHANGED vsock => IInv'
<1> SUFFICES ASSUME IInv, AcceptFails, UNCHANGED vsock PROVE IInv'
  OBVIOUS
<1>1. /\ spc = "accept" /\ spc' = "failure" /\ UNCHANGED <<conn, rnum, client, held, cut>>
      /\ link' = [c \in Clients |-> IF link[c] = "none" THEN "none" ELSE "down"]
      /\ conn = None /\ rnum = 0
  BY DEF AcceptFails, AllDown, IInv, LinkInv, ServerInv
<1> USE Constants DEF IInv, LinkInv, Types, client
<1>3. Types'
  BY <1>1
<1>4. ServerInv'
  BY <1>1 DEF ServerInv
<1>5. ClientInv'
  BY <1>1 DEF ClientInv
<1>6. ByteInv'
  BY <1>1 DEF ByteInv
<1>7. LoopInv'
  BY <1>1 DEF LoopInv, Whole
<1> QED BY <1>3, <1>4, <1>5, <1>6, <1>7

\* Closing the listening socket cuts off clients, but not the one served.
LEMMA CloseListenerInv == IInv /\ CloseListener /\ UNCHANGED vsock => IInv'
<1> SUFFICES ASSUME IInv, CloseListener, UNCHANGED vsock PROVE IInv'
  OBVIOUS
<1>1. /\ spc = "close" /\ spc' = "recv" /\ UNCHANGED <<conn, rnum, client, held, cut>>
      /\ link' = [c \in Clients |-> IF link[c] = "waiting" THEN "down" ELSE link[c]]
      /\ conn \in Clients
  BY DEF CloseListener, Waiting, IInv, LinkInv, ServerInv
<1> USE Constants DEF IInv, LinkInv, Types, client
<1>3. Types'
  BY <1>1
<1>4. ServerInv'
  BY <1>1 DEF ServerInv
<1>5. ClientInv'
  BY <1>1 DEF ClientInv
<1>6. ByteInv'
  BY <1>1 DEF ByteInv
<1>7. LoopInv'
  BY <1>1 DEF LoopInv, Whole
<1> QED BY <1>3, <1>4, <1>5, <1>6, <1>7

LEMMA RecvInv == IInv /\ Recv /\ UNCHANGED vsock => IInv'
<1> SUFFICES ASSUME IInv, Recv, UNCHANGED vsock PROVE IInv'
  OBVIOUS
<1>1. PICK k \in 1 .. MAXLEN :
        k =< held[conn] /\ rnum' = rnum + k /\ held' = [held EXCEPT ![conn] = @ - k]
  BY DEF Recv
<1>2. /\ spc = "recv" /\ UNCHANGED <<spc, conn, client, link, cut>>
      /\ conn \in Clients /\ cpc[conn] \notin {"connect", "failure"}
  BY DEF Recv, IInv, LinkInv, ServerInv
<1> USE Constants DEF IInv, LinkInv, Types, client
<1>3. Types'
  BY <1>1, <1>2
<1>4. ServerInv'
  BY <1>1, <1>2 DEF ServerInv
<1>5. ClientInv'
  BY <1>1, <1>2 DEF ClientInv
<1>6. ByteInv'
  BY <1>1, <1>2 DEF ByteInv
<1>7. LoopInv'
  BY <1>1, <1>2 DEF LoopInv, Whole
<1> QED BY <1>3, <1>4, <1>5, <1>6, <1>7

LEMMA RecvEndInv == IInv /\ RecvEnd /\ UNCHANGED vsock => IInv'
<1> SUFFICES ASSUME IInv, RecvEnd, UNCHANGED vsock PROVE IInv'
  OBVIOUS
<1>1. /\ spc = "recv" /\ spc' = "ok" /\ UNCHANGED <<conn, rnum, client, held, cut>>
      /\ link' = [c \in Clients |-> IF link[c] = "none" THEN "none" ELSE "down"]
      /\ conn \in Clients /\ cpc[conn] \notin {"connect", "failure"} /\ held[conn] = 0
  BY DEF RecvEnd, AtEnd, AllDown, IInv, LinkInv, ServerInv
<1>2. conn \in cut \/ cpc[conn] \in Ended
  BY <1>1 DEF RecvEnd, AtEnd, IInv, LinkInv, ServerInv
<1> USE Constants DEF IInv, LinkInv, Types, client
<1>3. Types'
  BY <1>1
<1>4. ServerInv'
  BY <1>1, <1>2 DEF ServerInv
<1>5. ClientInv'
  BY <1>1 DEF ClientInv
<1>6. ByteInv'
  BY <1>1 DEF ByteInv
<1>7. LoopInv'
  BY <1>1 DEF LoopInv, Whole
<1> QED BY <1>3, <1>4, <1>5, <1>6, <1>7

LEMMA ConnectInv == ASSUME NEW c \in Clients PROVE IInv /\ (Connect(c) \/ ConnectFails(c)) /\ UNCHANGED vsock => IInv'
<1> SUFFICES ASSUME IInv, Connect(c) \/ ConnectFails(c), UNCHANGED vsock PROVE IInv'
  OBVIOUS
<1>1. /\ cpc[c] = "connect" /\ UNCHANGED <<server, n, part, num, held, cut>>
      /\ \/ link' = [link EXCEPT ![c] = "waiting"] /\ cpc' = [cpc EXCEPT ![c] = "send"]
         \/ UNCHANGED link /\ cpc' = [cpc EXCEPT ![c] = "failure"]
  BY DEF Connect, ConnectFails, Goto, network
<1>2. link[c] = "none" /\ c \notin cut
  BY <1>1 DEF IInv, LinkInv, ClientInv
<1>3. c # conn
  <2>1. spc \in {"close", "recv", "ok"} => cpc[conn] # "connect"
    BY DEF IInv, LinkInv, ServerInv
  <2>2. spc \notin {"close", "recv", "ok"} => conn = None
    BY DEF IInv, LinkInv, ServerInv, Types
  <2> QED BY <1>1, <2>1, <2>2, Constants
<1> USE Constants DEF IInv, LinkInv, Types, server
<1>4. Types'
  BY <1>1, <1>2 DEF Ended
<1>5. ServerInv'
  BY <1>1, <1>2, <1>3 DEF ServerInv, Ended
<1>6. ClientInv'
  BY <1>1, <1>2 DEF ClientInv, Ended
<1>7. ByteInv'
  BY <1>1 DEF ByteInv
<1>8. LoopInv'
  BY <1>1, <1>2, <1>3 DEF LoopInv, Whole, ClientInv, Ended
<1> QED BY <1>4, <1>5, <1>6, <1>7, <1>8

\* send() on a connection that is not down: part of a buffer, or the rest of it.
LEMMA SendInv == ASSUME NEW c \in Clients PROVE IInv /\ Send(c) /\ UNCHANGED vsock => IInv'
<1> SUFFICES ASSUME IInv, Send(c), UNCHANGED vsock PROVE IInv'
  OBVIOUS
<1>1. PICK k \in 1 .. (MAXLEN - part[c]) :
        /\ held' = [held EXCEPT ![c] = @ + k]
        /\ IF part[c] + k = MAXLEN THEN SendReturns(c, MAXLEN)
           ELSE part' = [part EXCEPT ![c] = @ + k] /\ UNCHANGED <<cpc, n, num>>
  BY DEF Send
<1>2. cpc[c] = "send" /\ link[c] # "down" /\ c \notin cut /\ UNCHANGED <<server, link, cut>>
  BY DEF Send, IInv, LinkInv, ClientInv
<1>3. spc # "ok" \/ c # conn
  BY <1>2 DEF IInv, LinkInv, ServerInv, Ended
<1> USE Constants DEF IInv, LinkInv, Types, server
<1>4. CASE part[c] + k = MAXLEN
  <2>1. /\ num' = [num EXCEPT ![c] = @ + MAXLEN] /\ n' = [n EXCEPT ![c] = @ + 1]
        /\ part' = [part EXCEPT ![c] = 0]
        /\ cpc' = [cpc EXCEPT ![c] = IF n[c] + 1 = DATAS THEN "report" ELSE "send"]
    BY <1>1, <1>4 DEF SendReturns, Goto
  <2>2. Types'
    BY <1>1, <1>2, <2>1 DEF Ended
  <2>3. ServerInv'
    BY <1>1, <1>2, <1>3, <2>1 DEF ServerInv, Ended
  <2>4. ClientInv'
    BY <1>1, <1>2, <2>1 DEF ClientInv
  <2>5. ByteInv'
    BY <1>1, <1>2, <1>4, <2>1 DEF ByteInv
  <2>6. LoopInv'
    <3>1. ASSUME NEW j \in Nat PROVE j * MAXLEN + MAXLEN = (j + 1) * MAXLEN
      OBVIOUS
    <3>2. Whole(c) /\ num[c] = n[c] * MAXLEN
      BY <1>2 DEF LoopInv, Whole
    <3>3. num'[c] = n'[c] * MAXLEN /\ (cpc'[c] = "report" => n'[c] = DATAS /\ part'[c] = 0) /\ cpc'[c] # "killed"
      BY <2>1, <3>1, <3>2
    <3>4. ASSUME NEW d \in Clients, d # c
          PROVE  num'[d] = num[d] /\ n'[d] = n[d] /\ part'[d] = part[d] /\ cpc'[d] = cpc[d]
      BY <2>1, <3>4
    <3> QED BY <1>2, <3>3, <3>4 DEF LoopInv, Whole
  <2> QED BY <2>2, <2>3, <2>4, <2>5, <2>6
<1>5. CASE part[c] + k # MAXLEN
  <2>1. part' = [part EXCEPT ![c] = @ + k] /\ UNCHANGED <<cpc, n, num>>
    BY <1>1, <1>5
  <2>2. Types'
    BY <1>1, <1>2, <1>5, <2>1
  <2>3. ServerInv'
    BY <1>1, <1>2, <1>3, <2>1 DEF ServerInv
  <2>4. ClientInv'
    BY <1>1, <1>2, <2>1 DEF ClientInv
  <2>5. ByteInv'
    BY <1>1, <1>2, <2>1 DEF ByteInv
  <2>6. LoopInv'
    BY <1>1, <1>2, <2>1 DEF LoopInv, Whole
  <2> QED BY <2>2, <2>3, <2>4, <2>5, <2>6
<1> QED BY <1>4, <1>5

\* A client whose connection is down is not one that the properties are about:
\* either it broke or the server never accepted it.
LEMMA DownIsLost ==
    ASSUME IInv, NEW c \in Clients, cpc[c] = "send", link[c] = "down"
    PROVE  c \in cut \/ c # conn
<1> SUFFICES ASSUME c \notin cut, c = conn PROVE FALSE
  OBVIOUS
<1>1. spc \in {"close", "recv", "ok"}
  BY Constants DEF IInv, LinkInv, Types, ServerInv
<1> QED BY <1>1 DEF IInv, LinkInv, ServerInv, Ended

LEMMA SendDownInv == ASSUME NEW c \in Clients PROVE IInv /\ SendDown(c) /\ UNCHANGED vsock => IInv'
<1> SUFFICES ASSUME IInv, SendDown(c), UNCHANGED vsock PROVE IInv'
  OBVIOUS
<1>1. /\ cpc[c] = "send" /\ link[c] = "down" /\ UNCHANGED <<server, network>>
      /\ \/ /\ part[c] > 0 /\ num' = [num EXCEPT ![c] = @ + part[c]] /\ n' = [n EXCEPT ![c] = @ + 1]
            /\ part' = [part EXCEPT ![c] = 0]
            /\ cpc' = [cpc EXCEPT ![c] = IF n[c] + 1 = DATAS THEN "report" ELSE "send"]
         \/ /\ cpc' = [cpc EXCEPT ![c] = "report"] \/ cpc' = [cpc EXCEPT ![c] = "killed"]
            /\ UNCHANGED <<n, part, num>>
  BY DEF SendDown, SendReturns, Goto
<1>2. c \in cut \/ c # conn
  BY <1>1, DownIsLost
<1> USE Constants DEF IInv, LinkInv, Types, server, network
<1>3. Types'
  BY <1>1 DEF Ended
<1>4. ServerInv'
  BY <1>1, <1>2 DEF ServerInv, Ended
<1>5. ClientInv'
  BY <1>1 DEF ClientInv
<1>6. ByteInv'
  BY <1>1 DEF ByteInv
<1>7. LoopInv'
  BY <1>1, <1>2 DEF LoopInv, Whole
<1> QED BY <1>3, <1>4, <1>5, <1>6, <1>7

LEMMA CutInv == ASSUME NEW c \in Clients PROVE IInv /\ Cut(c) /\ UNCHANGED vsock => IInv'
<1> SUFFICES ASSUME IInv, Cut(c), UNCHANGED vsock PROVE IInv'
  OBVIOUS
<1>1. PICK k \in 0 .. held[c] : held' = [held EXCEPT ![c] = k]
  BY DEF Cut
<1>2. /\ link[c] \in {"waiting", "up"} /\ link' = [link EXCEPT ![c] = "down"]
      /\ cut' = cut \cup {c} /\ UNCHANGED <<server, client>>
  BY DEF Cut
<1> USE Constants DEF IInv, LinkInv, Types, server, client
<1>3. Types'
  BY <1>1, <1>2
<1>4. ServerInv'
  BY <1>1, <1>2 DEF ServerInv
<1>5. ClientInv'
  BY <1>1, <1>2 DEF ClientInv
<1>6. ByteInv'
  BY <1>1, <1>2 DEF ByteInv
<1>7. LoopInv'
  BY <1>1, <1>2 DEF LoopInv, Whole
<1> QED BY <1>3, <1>4, <1>5, <1>6, <1>7

LEMMA NextInv == IInv /\ [Next]_vars => IInv'
<1> SUFFICES ASSUME IInv, [Next]_vars PROVE IInv'
  OBVIOUS
<1>1. CASE UNCHANGED vars
  BY <1>1 DEF vars, server, client, network, IInv, LinkInv, Types, ServerInv, ClientInv,
              ByteInv, LoopInv, Whole
<1>2. CASE (Server \/ AcceptFails) /\ UNCHANGED vsock
  BY <1>2, SetupInv, AcceptInv, AcceptFailsInv, CloseListenerInv, RecvInv, RecvEndInv DEF Server
<1>3. ASSUME NEW c \in Clients, Client(c) \/ ConnectFails(c) \/ Cut(c), UNCHANGED vsock PROVE IInv'
  BY <1>3, ConnectInv, SendInv, SendDownInv, CutInv DEF Client
<1> QED BY <1>1, <1>2, <1>3 DEF Next, Idle

\* The combined invariant holds in every state.
THEOREM InvHolds == Spec => []IInv
  BY InitInv, NextInv, PTL DEF Spec

\* Whatever send() and recv() make of it, the amounts that the two programs
\* print at their ends agree unless the connection broke.
THEOREM ReportsAgreeHolds == Spec => []ReportsAgree
<1>1. IInv => ReportsAgree
  <2> SUFFICES ASSUME IInv, spc = "ok", conn \notin cut
               PROVE  cpc[conn] = "report" /\ num[conn] = DATAS * MAXLEN /\ rnum = num[conn]
    BY DEF ReportsAgree
  <2>1. conn \in Clients /\ held[conn] = 0 /\ cpc[conn] \in Ended /\ cpc[conn] # "connect"
    BY DEF IInv, LinkInv, ServerInv
  <2>2. Whole(conn)
    BY DEF Whole
  <2>3. cpc[conn] = "report"
    <3>1. cpc[conn] # "killed"
      BY <2>1, <2>2 DEF IInv, LoopInv
    <3>2. cpc[conn] # "failure"
      BY DEF IInv, LinkInv, ServerInv
    <3> QED BY <2>1, <3>1, <3>2 DEF Ended
  <2>4. num[conn] = DATAS * MAXLEN /\ part[conn] = 0
    BY <2>1, <2>2, <2>3 DEF IInv, LoopInv
  <2>5. rnum = num[conn]
    BY <2>1, <2>4 DEF IInv, LinkInv, Types, ByteInv
  <2> QED BY <2>3, <2>4, <2>5
<1> QED BY <1>1, InvHolds, PTL

-------------------------------------------------------------------------------
(***************************************************************************)
(* Stream implements ByteStreams: a step of the system is, for each client,*)
(* a step of its stream or none.  The steps of a stream are put in terms of*)
(* the variables of Stream first.                                          *)
(***************************************************************************)
Sent(c) == num[c] + part[c]
Rcvd(c) == IF c = conn THEN rnum ELSE 0
State(c) ==
    IF c \in cut \/ (link[c] = "down" /\ c # conn) THEN "broken"
    ELSE IF cpc[c] \in Ended THEN "closed" ELSE "open"
EndSeen(c) == c = conn /\ spc = "ok"

Moves(c, out, on, in) ==
    Sent(c)' = Sent(c) + out /\ held'[c] = held[c] + on /\ Rcvd(c)' = Rcvd(c) + in

LEMMA StreamIdle ==
    ASSUME NEW c \in Clients, State(c)' = State(c), EndSeen(c)' = EndSeen(c), Moves(c, 0, 0, 0)
    PROVE  Connections!Step(c)
  BY DEF Moves, Sent, Rcvd, State, EndSeen, Connections!Step, Connections!Change, Connections!Idle

LEMMA StreamClose ==
    ASSUME NEW c \in Clients, State(c) = "open", State(c)' = "closed", EndSeen(c)' = EndSeen(c),
           Moves(c, 0, 0, 0)
    PROVE  Connections!Step(c)
  BY DEF Moves, Sent, Rcvd, State, EndSeen, Connections!Step, Connections!Change, Connections!Close

LEMMA StreamWrite ==
    ASSUME NEW c \in Clients, NEW k \in 1 .. MAXLEN, State(c) = "open", State(c)' \in {"open", "closed"},
           EndSeen(c)' = EndSeen(c), Moves(c, k, k, 0)
    PROVE  Connections!Step(c)
  BY DEF Moves, Sent, Rcvd, State, EndSeen, Connections!Step, Connections!Change, Connections!Write

LEMMA StreamRead ==
    ASSUME NEW c \in Clients, NEW k \in 1 .. MAXLEN, k =< held[c], ~EndSeen(c), ~EndSeen(c)',
           State(c)' = State(c), Moves(c, 0, -k, k)
    PROVE  Connections!Step(c)
  BY DEF Moves, Sent, Rcvd, State, EndSeen, Connections!Step, Connections!Change, Connections!Read

LEMMA StreamReadEnd ==
    ASSUME NEW c \in Clients, ~EndSeen(c), EndSeen(c)', held[c] = 0, State(c) # "open",
           State(c)' = State(c), Moves(c, 0, 0, 0)
    PROVE  Connections!Step(c)
  BY DEF Moves, Sent, Rcvd, State, EndSeen, Connections!Step, Connections!Change, Connections!ReadEnd

LEMMA StreamBreak ==
    ASSUME NEW c \in Clients, NEW k \in 0 .. held[c], State(c) # "broken", State(c)' = "broken",
           EndSeen(c)' = EndSeen(c), Moves(c, 0, -k, 0)
    PROVE  Connections!Step(c)
  BY DEF Moves, Sent, Rcvd, State, EndSeen, Connections!Step, Connections!Change, Connections!Break

\* A client that a step does not concern.
LEMMA Undisturbed ==
    ASSUME IInv, NEW c \in Clients, UNCHANGED server, cpc'[c] = cpc[c], num'[c] = num[c],
           part'[c] = part[c], held'[c] = held[c], link'[c] = link[c], c \in cut' <=> c \in cut
    PROVE  Connections!Step(c)
<1>1. State(c)' = State(c) /\ EndSeen(c)' = EndSeen(c)
  BY DEF State, EndSeen, server
<1>2. Moves(c, 0, 0, 0)
  BY DEF Moves, Sent, Rcvd, server, IInv, LinkInv, Types
<1> QED BY <1>1, <1>2, StreamIdle

LEMMA ServerSteps == IInv /\ (Server \/ AcceptFails) => Connections!Next
<1> SUFFICES ASSUME IInv, Server \/ AcceptFails, NEW c \in Clients PROVE Connections!Step(c)
  BY DEF Connections!Next
<1>0. /\ held[c] \in Nat /\ num[c] \in Nat /\ part[c] \in Nat /\ rnum \in Nat
      /\ link[c] \in {"none", "waiting", "up", "down"}
  BY Constants DEF IInv, LinkInv, Types
<1>1. CASE Setup
  <2>1. State(c)' = State(c) /\ EndSeen(c)' = EndSeen(c)
    BY <1>1 DEF Setup, State, EndSeen, client, network
  <2>2. Moves(c, 0, 0, 0)
    BY <1>0, <1>1 DEF Setup, Moves, Sent, Rcvd, client, network
  <2> QED BY <2>1, <2>2, StreamIdle
<1>2. CASE Accept
  <2>1. PICK d \in Waiting :
          conn' = d /\ spc' \in {"close", "recv"} /\ link' = [link EXCEPT ![d] = "up"]
    BY <1>2 DEF Accept
  <2>2. /\ conn = None /\ rnum = 0 /\ UNCHANGED <<rnum, client, held, cut>> /\ c # None
        /\ spc = "accept" /\ d \in Clients /\ link[d] = "waiting" /\ d \notin cut
    BY <1>2, Constants DEF Accept, IInv, LinkInv, ServerInv, ClientInv, Waiting
  <2>3. EndSeen(c)' = EndSeen(c) /\ Moves(c, 0, 0, 0)
    BY <1>0, <2>1, <2>2 DEF EndSeen, Moves, Sent, Rcvd, client
  <2>4. link'[c] = "down" <=> link[c] = "down"
    BY <2>1, <2>2 DEF IInv, LinkInv, Types
  <2>5. State(c)' = State(c)
    BY <1>0, <2>1, <2>2, <2>4 DEF State, client, IInv, LinkInv, ClientInv
  <2> QED BY <2>3, <2>5, StreamIdle
<1>5. CASE CloseListener \/ AcceptFails
  <2>1. /\ UNCHANGED <<conn, rnum, client, held, cut>> /\ spc # "ok" /\ spc' # "ok"
        /\ link'[c] \in {link[c], "down"} /\ (link[c] = "none" => link'[c] = "none")
        /\ c = conn => link[c] # "waiting" /\ spc = "close"
    BY <1>0, <1>5, Constants DEF CloseListener, AcceptFails, AllDown, Waiting, IInv, LinkInv, Types, ServerInv, ClientInv
  <2>2. EndSeen(c)' = EndSeen(c) /\ Moves(c, 0, 0, 0)
    BY <1>0, <2>1 DEF EndSeen, Moves, Sent, Rcvd, client
  <2>3. CASE link'[c] = link[c] \/ c = conn \/ State(c) = "broken"
    <3>1. State(c)' = State(c)
      BY <2>1, <2>3 DEF State, client
    <3> QED BY <2>2, <3>1, StreamIdle
  <2>4. CASE link'[c] # link[c] /\ c # conn /\ State(c) # "broken"
    <3>1. State(c)' = "broken"
      BY <2>1, <2>4 DEF State
    <3>2. Moves(c, 0, -0, 0) /\ 0 \in 0 .. held[c]
      BY <1>0, <2>2
    <3> QED BY <2>2, <2>4, <3>1, <3>2, StreamBreak
  <2> QED BY <2>3, <2>4
<1>3. CASE Recv
  <2>1. PICK k \in 1 .. MAXLEN :
          k =< held[conn] /\ rnum' = rnum + k /\ held' = [held EXCEPT ![conn] = @ - k]
    BY <1>3 DEF Recv
  <2>2. spc = "recv" /\ UNCHANGED <<spc, conn, client, link, cut>>
    BY <1>3 DEF Recv
  <2>3. /\ State(c)' = State(c) /\ ~EndSeen(c) /\ ~EndSeen(c)'
        /\ EndSeen(c)' = EndSeen(c)
    BY <2>2 DEF State, EndSeen, client
  <2>4. CASE c = conn
    <3>1. Moves(c, 0, -k, k)
      BY <1>0, <2>1, <2>2, <2>4 DEF Moves, Sent, Rcvd, client, IInv, LinkInv, Types
    <3> QED BY <2>1, <2>3, <2>4, <3>1, StreamRead
  <2>5. CASE c # conn
    <3>1. Moves(c, 0, 0, 0)
      BY <1>0, <2>1, <2>2, <2>5 DEF Moves, Sent, Rcvd, client, IInv, LinkInv, Types
    <3> QED BY <2>3, <3>1, StreamIdle
  <2> QED BY <2>4, <2>5
<1>4. CASE RecvEnd
  <2>1. /\ spc = "recv" /\ spc' = "ok" /\ UNCHANGED <<conn, rnum, client, held, cut>>
        /\ link' = [d \in Clients |-> IF link[d] = "none" THEN "none" ELSE "down"]
        /\ held[conn] = 0 /\ (link[conn] = "down" \/ cpc[conn] \in Ended)
    BY <1>4 DEF RecvEnd, AtEnd, AllDown
  <2>2. Moves(c, 0, 0, 0)
    BY <1>0, <2>1 DEF Moves, Sent, Rcvd, client
  <2>3. CASE c = conn
    <3>1. ~EndSeen(c) /\ EndSeen(c)' /\ State(c)' = State(c) /\ State(c) # "open"
      BY <2>1, <2>3 DEF EndSeen, State, client, IInv, LinkInv, ServerInv
    <3> QED BY <2>1, <2>2, <2>3, <3>1, StreamReadEnd
  <2>4. CASE c # conn /\ State(c) = "broken"
    <3>1. EndSeen(c)' = EndSeen(c) /\ State(c)' = State(c)
      BY <2>1, <2>4 DEF EndSeen, State, client
    <3> QED BY <2>2, <3>1, StreamIdle
  <2>5. CASE c # conn /\ State(c) # "broken" /\ link[c] # "none"
    <3>1. EndSeen(c)' = EndSeen(c) /\ State(c)' = "broken"
      BY <2>1, <2>5 DEF EndSeen, State
    <3>2. Moves(c, 0, -0, 0) /\ 0 \in 0 .. held[c]
      BY <1>0, <2>2
    <3> QED BY <2>5, <3>1, <3>2, StreamBreak
  <2>6. CASE c # conn /\ link[c] = "none"
    <3>1. EndSeen(c)' = EndSeen(c) /\ State(c)' = State(c)
      BY <2>1, <2>6 DEF EndSeen, State, client
    <3> QED BY <2>2, <3>1, StreamIdle
  <2> QED BY <2>3, <2>4, <2>5, <2>6
<1> QED BY <1>1, <1>2, <1>3, <1>4, <1>5 DEF Server

LEMMA ClientSteps == ASSUME NEW d \in Clients PROVE IInv /\ (Client(d) \/ ConnectFails(d) \/ Cut(d)) => Connections!Next
<1> SUFFICES ASSUME IInv, Client(d) \/ ConnectFails(d) \/ Cut(d), NEW c \in Clients PROVE Connections!Step(c)
  BY DEF Connections!Next
<1>0. /\ held[c] \in Nat /\ num[c] \in Nat /\ part[c] \in Nat /\ rnum \in Nat
      /\ MAXLEN - part[c] \in 1 .. MAXLEN
      /\ UNCHANGED server
  BY Constants DEF IInv, LinkInv, Types, Client, Connect, ConnectFails, Send, SendDown, Cut
<1>1. CASE c # d
  <2>1. /\ cpc'[c] = cpc[c] /\ num'[c] = num[c] /\ part'[c] = part[c] /\ held'[c] = held[c]
        /\ link'[c] = link[c] /\ (c \in cut' <=> c \in cut)
    BY <1>1 DEF Client, Connect, ConnectFails, Send, SendDown, Cut, SendReturns, Goto, client, network,
                IInv, LinkInv, Types
  <2> QED BY <1>0, <2>1, Undisturbed
<1>2. CASE c = d /\ (Connect(d) \/ ConnectFails(d))
  <2>1. /\ cpc[c] = "connect" /\ UNCHANGED <<server, n, part, num, held, cut>>
        /\ link[c] = "none" /\ c \notin cut
        /\ \/ link'[c] = "waiting" /\ cpc'[c] = "send"
           \/ link'[c] = "none" /\ cpc'[c] = "failure"
    BY <1>2 DEF Connect, ConnectFails, Goto, network, IInv, LinkInv, Types, ClientInv
  <2>2. EndSeen(c)' = EndSeen(c) /\ Moves(c, 0, 0, 0)
    BY <1>0, <2>1 DEF EndSeen, Moves, Sent, Rcvd, server
  <2>3. State(c) = "open" /\ State(c)' \in {"open", "closed"}
    BY <2>1 DEF State, Ended
  <2> QED BY <2>2, <2>3, StreamIdle, StreamClose
<1>3. CASE c = d /\ Send(d)
  <2>1. PICK k \in 1 .. (MAXLEN - part[c]) :
          /\ held' = [held EXCEPT ![c] = @ + k]
          /\ IF part[c] + k = MAXLEN THEN SendReturns(c, MAXLEN)
             ELSE part' = [part EXCEPT ![c] = @ + k] /\ UNCHANGED <<cpc, n, num>>
    BY <1>3 DEF Send
  <2>2. cpc[c] = "send" /\ link[c] # "down" /\ c \notin cut /\ UNCHANGED <<server, link, cut>>
    BY <1>3 DEF Send, IInv, LinkInv, ClientInv
  <2>3. Moves(c, k, k, 0)
    BY <1>0, <2>1, <2>2, Constants DEF Moves, Sent, Rcvd, SendReturns, server, IInv, LinkInv, Types
  <2>4. EndSeen(c)' = EndSeen(c) /\ State(c) = "open" /\ State(c)' \in {"open", "closed"}
    BY <2>1, <2>2 DEF EndSeen, State, Ended, server
  <2>5. k \in 1 .. MAXLEN
    BY <1>0, <2>1, Constants
  <2> QED BY <2>3, <2>4, <2>5, StreamWrite
<1>4. CASE c = d /\ SendDown(d)
  <2>1. cpc[c] = "send" /\ link[c] = "down" /\ UNCHANGED <<server, network>>
    BY <1>4 DEF SendDown
  <2>2. c \in cut \/ c # conn
    BY <2>1, DownIsLost
  <2>3. State(c)' = State(c) /\ EndSeen(c)' = EndSeen(c)
    BY <2>1, <2>2 DEF State, EndSeen, server, network
  <2>4. Sent(c)' = Sent(c) + 0
    <3>1. CASE part[c] > 0 /\ SendReturns(c, part[c])
      BY <1>0, <3>1 DEF SendReturns, Sent, IInv, LinkInv, Types
    <3>2. CASE UNCHANGED <<n, part, num>>
      BY <1>0, <3>2 DEF Sent
    <3> QED BY <1>4, <3>1, <3>2 DEF SendDown
  <2>5. Moves(c, 0, 0, 0)
    BY <1>0, <2>1, <2>4 DEF Moves, Rcvd, server, network
  <2> QED BY <2>3, <2>5, StreamIdle
<1>5. CASE c = d /\ Cut(d)
  <2>1. PICK k \in 0 .. held[c] : held' = [held EXCEPT ![c] = k]
    BY <1>5 DEF Cut
  <2>2. /\ link[c] \in {"waiting", "up"} /\ cut' = cut \cup {c} /\ c \notin cut
        /\ UNCHANGED <<server, client>>
    BY <1>5 DEF Cut, IInv, LinkInv, ClientInv
  <2>3. State(c) # "broken" /\ State(c)' = "broken" /\ EndSeen(c)' = EndSeen(c)
    BY <2>2 DEF State, EndSeen, server, client
  <2>4. held[c] - k \in 0 .. held[c] /\ Moves(c, 0, -(held[c] - k), 0)
    BY <1>0, <2>1, <2>2 DEF Moves, Sent, Rcvd, server, client, IInv, LinkInv, Types
  <2> QED BY <2>3, <2>4, StreamBreak
<1> QED BY <1>1, <1>2, <1>3, <1>4, <1>5 DEF Client

LEMMA StreamStep == IInv /\ [Next]_vars => [Connections!Next]_(Connections!vars)
<1> SUFFICES ASSUME IInv, [Next]_vars PROVE [Connections!Next]_(Connections!vars)
  OBVIOUS
<1>1. CASE UNCHANGED vars
  BY <1>1 DEF vars, server, client, network, Connections!vars
<1>2. CASE Server \/ AcceptFails
  BY <1>2, ServerSteps
<1>3. ASSUME NEW d \in Clients, Client(d) \/ ConnectFails(d) \/ Cut(d) PROVE Connections!Next
  BY <1>3, ClientSteps
<1> QED BY <1>1, <1>2, <1>3 DEF Next, Idle

\* The connections of both throughput tests are byte streams: bytes arrive
\* once, and the end after them, for every size of data, buffer and backlog.
THEOREM StreamImplementsByteStreams == Spec => ConnectionsAreStreams
<1>1. Init => Connections!Init
  <2> SUFFICES ASSUME Init PROVE Connections!Init
    OBVIOUS
  <2>1. \A c \in Clients : c # conn /\ link[c] # "down" /\ c \notin cut /\ cpc[c] \notin Ended
    BY Constants DEF Init, Ended
  <2>2. [c \in Clients |-> num[c] + part[c]] = [c \in Clients |-> 0] /\ held = [c \in Clients |-> 0]
    BY DEF Init
  <2>3. [c \in Clients |-> IF c = conn THEN rnum ELSE 0] = [c \in Clients |-> 0]
    BY <2>1
  <2>4. [c \in Clients |->
            IF c \in cut \/ (link[c] = "down" /\ c # conn) THEN "broken"
            ELSE IF cpc[c] \in Ended THEN "closed" ELSE "open"] = [c \in Clients |-> "open"]
    BY <2>1
  <2>5. \A c \in Clients : (c = conn /\ spc = "ok") = FALSE
    BY <2>1
  <2>6. [c \in Clients |-> c = conn /\ spc = "ok"] = [c \in Clients |-> FALSE]
    BY <2>5, Zenon
  <2> QED BY <2>2, <2>3, <2>4, <2>6 DEF Connections!Init
<1> QED BY <1>1, StreamStep, InvHolds, PTL DEF Spec, ConnectionsAreStreams, Connections!Spec
=============================================================================
