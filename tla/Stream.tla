------------------------------- MODULE Stream -------------------------------
(***************************************************************************)
(* The two throughput tests: src/src/linux/socket/tcp_speed (TCP) and      *)
(* src/src/linux/socket/vsock (VM sockets).  A client sends a buffer of    *)
(* MAXLEN bytes DATAS times and reports how many bytes send() took; the    *)
(* server accepts one connection, receives to its end and reports how many *)
(* bytes it got.  The vsock server closes its listening socket after the   *)
(* accept, the TCP server keeps it until it exits.                         *)
(*                                                                         *)
(* The kernels' sockets are external: a connection holds at most Buffer    *)
(* bytes that are sent and not received, a blocking send() puts its bytes  *)
(* in as there is room, and a connection may be cut, which loses some of   *)
(* the bytes it holds.                                                     *)
(***************************************************************************)
EXTENDS Integers, FiniteSets

CONSTANTS
    Clients,
    None,
    DATAS, MAXLEN,
    Buffer,         \* bytes a connection holds
    Backlog,        \* connections that wait to be accepted
    Faults          \* subset of {"setup", "accept", "connect", "cut"}

ASSUME StreamAssumption ==
    /\ None \notin Clients
    /\ {DATAS, MAXLEN, Buffer, Backlog} \subseteq Nat \ {0}

VARIABLES
    vsock,      \* whether this is the vsock pair
    spc,        \* where the server is
    conn,       \* the client it serves
    rnum,       \* bytes received
    cpc,        \* client -> where it is
    n,          \* client -> loop counter
    part,       \* client -> bytes the current send() has put in
    num,        \* client -> bytes its send() calls have returned
    link,       \* client -> its connection: none, waiting, up or down
    held,       \* client -> bytes the connection holds
    cut         \* clients whose connection broke

server == <<spc, conn, rnum>>
client == <<cpc, n, part, num>>
network == <<link, held, cut>>
vars   == <<vsock, server, client, network>>

Waiting  == {c \in Clients : link[c] = "waiting"}
Listening == spc \in {"accept", "close"} \/ (spc = "recv" /\ ~vsock)
Ended    == {"report", "killed", "failure"}

Init ==
    /\ vsock \in BOOLEAN
    /\ spc = "setup" /\ conn = None /\ rnum = 0
    /\ cpc = [c \in Clients |-> "connect"] /\ n = [c \in Clients |-> 0]
    /\ part = [c \in Clients |-> 0] /\ num = [c \in Clients |-> 0]
    /\ link = [c \in Clients |-> "none"] /\ held = [c \in Clients |-> 0] /\ cut = {}

----------------------------------------------------------------------------
(* The server *)

\* socket, bind and listen; the vsock server also reads its port number.
Setup ==
    /\ spc = "setup"
    /\ \/ spc' = "accept"
       \/ "setup" \in Faults /\ spc' = "failure"
    /\ UNCHANGED <<conn, rnum, client, network>>

\* One connection is accepted.
Accept ==
    /\ spc = "accept"
    /\ \E c \in Waiting :
        /\ conn' = c /\ spc' = IF vsock THEN "close" ELSE "recv"
        /\ link' = [link EXCEPT ![c] = "up"]
    /\ UNCHANGED <<rnum, client, held, cut>>

\* What becomes of the connections when the server exits.
AllDown == [c \in Clients |-> IF link[c] = "none" THEN "none" ELSE "down"]

\* accept() fails: the server exits, also if clients wait.
AcceptFails ==
    /\ "accept" \in Faults /\ spc = "accept"
    /\ spc' = "failure" /\ link' = AllDown
    /\ UNCHANGED <<conn, rnum, client, held, cut>>

\* The vsock server closes its listening socket: who still waits is cut off.
CloseListener ==
    /\ spc = "close" /\ spc' = "recv"
    /\ link' = [c \in Clients |-> IF c \in Waiting THEN "down" ELSE link[c]]
    /\ UNCHANGED <<conn, rnum, client, held, cut>>

AtEnd == held[conn] = 0 /\ (link[conn] = "down" \/ cpc[conn] \in Ended)

\* Mutant: every call is taken to fill the buffer.
RecvWhole ==
    /\ spc = "recv" /\ held[conn] > 0
    /\ rnum' = rnum + MAXLEN
    /\ held' = [held EXCEPT ![conn] = IF @ < MAXLEN THEN 0 ELSE @ - MAXLEN]
    /\ UNCHANGED <<spc, conn, client, link, cut>>

\* recv() > 0
Recv ==
    /\ spc = "recv" /\ held[conn] > 0
    /\ \E k \in 1 .. MAXLEN :
        /\ k =< held[conn]
        /\ rnum' = rnum + k
        /\ held' = [held EXCEPT ![conn] = @ - k]
    /\ UNCHANGED <<spc, conn, client, link, cut>>

\* Mutant: a short recv() is taken for the last one.
RecvEndShort ==
    /\ spc = "recv" /\ held[conn] = 0 /\ rnum % MAXLEN # 0
    /\ spc' = "ok"
    /\ link' = AllDown
    /\ UNCHANGED <<conn, rnum, client, held, cut>>

\* Mutant: only an error ends the loop.
RecvEndError ==
    /\ spc = "recv" /\ held[conn] = 0 /\ link[conn] = "down"
    /\ spc' = "ok"
    /\ link' = AllDown
    /\ UNCHANGED <<conn, rnum, client, held, cut>>

\* recv() =< 0: the count is reported and the server exits, which cuts every
\* connection it still has.
RecvEnd ==
    /\ spc = "recv" /\ AtEnd
    /\ spc' = "ok"
    /\ link' = AllDown
    /\ UNCHANGED <<conn, rnum, client, held, cut>>

----------------------------------------------------------------------------
(* A client *)

Goto(c, to) == cpc' = [cpc EXCEPT ![c] = to]

\* socket and connect; the vsock client also reads the two numbers of the
\* address.  A full backlog refuses a vsock client and makes a TCP client wait.
Connect(c) ==
    /\ cpc[c] = "connect"
    /\ \/ /\ Listening /\ Cardinality(Waiting) < Backlog
          /\ link' = [link EXCEPT ![c] = "waiting"] /\ Goto(c, "send")
       \/ /\ ~Listening \/ (vsock /\ Cardinality(Waiting) = Backlog)
          /\ Goto(c, "failure") /\ UNCHANGED link
    /\ UNCHANGED <<server, n, part, num, held, cut>>

\* socket() or connect() fails though the server listens.
ConnectFails(c) ==
    /\ "connect" \in Faults /\ cpc[c] = "connect" /\ Goto(c, "failure")
    /\ UNCHANGED <<server, n, part, num, network>>

\* The loop goes on after a send() that returned r bytes.
SendReturns(c, r) ==
    /\ num' = [num EXCEPT ![c] = @ + r]
    /\ n' = [n EXCEPT ![c] = @ + 1]
    /\ part' = [part EXCEPT ![c] = 0]
    /\ Goto(c, IF n[c] + 1 = DATAS THEN "report" ELSE "send")

\* send() has put in part of its bytes, or all of them and returns.
Send(c) ==
    /\ cpc[c] = "send" /\ link[c] # "down" /\ held[c] < Buffer
    /\ \E k \in 1 .. (MAXLEN - part[c]) :
        /\ held[c] + k =< Buffer
        /\ held' = [held EXCEPT ![c] = @ + k]
        /\ IF part[c] + k = MAXLEN THEN SendReturns(c, MAXLEN)
           ELSE part' = [part EXCEPT ![c] = @ + k] /\ UNCHANGED <<cpc, n, num>>
    /\ UNCHANGED <<server, link, cut>>

\* Mutant: an error does not end the loop.
SendDownGoesOn(c) ==
    /\ cpc[c] = "send" /\ link[c] = "down"
    /\ part' = [part EXCEPT ![c] = 0]
    /\ UNCHANGED <<server, cpc, n, num, network>>

\* On a connection that is down send() returns what it has put in; the next
\* call fails, and the client reports and exits or is killed by SIGPIPE.
SendDown(c) ==
    /\ cpc[c] = "send" /\ link[c] = "down"
    /\ \/ part[c] > 0 /\ SendReturns(c, part[c])
       \/ part[c] = 0 /\ (Goto(c, "report") \/ Goto(c, "killed")) /\ UNCHANGED <<n, part, num>>
    /\ UNCHANGED <<server, network>>

----------------------------------------------------------------------------
(* The network *)

\* A connection is cut; some of the bytes it holds may still arrive.
Cut(c) ==
    /\ "cut" \in Faults /\ link[c] \in {"waiting", "up"}
    /\ link' = [link EXCEPT ![c] = "down"]
    /\ \E k \in 0 .. held[c] : held' = [held EXCEPT ![c] = k]
    /\ cut' = cut \cup {c}
    /\ UNCHANGED <<server, client>>

Server    == Setup \/ Accept \/ CloseListener \/ Recv \/ RecvEnd
Client(c) == Connect(c) \/ Send(c) \/ SendDown(c)

\* Everybody has ended, or the server waits for a client that will not come.
Idle ==
    /\ \A c \in Clients : cpc[c] \in Ended
    /\ spc \in {"ok", "failure"} \/ (spc = "accept" /\ Waiting = {})
    /\ UNCHANGED vars

Next ==
    /\ Server \/ AcceptFails \/ (\E c \in Clients : Client(c) \/ ConnectFails(c) \/ Cut(c)) \/ Idle
    /\ UNCHANGED vsock

Spec == Init /\ [][Next]_vars
\* Both programs are scheduled; nothing obliges a call to fail or a connection
\* to break.
FairSpec ==
    /\ Spec /\ WF_vars(Server /\ UNCHANGED vsock)
    /\ \A c \in Clients : WF_vars(Client(c) /\ UNCHANGED vsock)

----------------------------------------------------------------------------
(* Properties *)

TypeOK ==
    /\ spc \in {"setup", "accept", "close", "recv", "ok", "failure"}
    /\ conn \in Clients \cup {None} /\ rnum \in 0 .. DATAS * MAXLEN
    /\ cpc \in [Clients -> {"connect", "send"} \cup Ended]
    /\ n \in [Clients -> 0 .. DATAS]
    /\ part \in [Clients -> 0 .. MAXLEN - 1] /\ num \in [Clients -> 0 .. DATAS * MAXLEN]
    /\ link \in [Clients -> {"none", "waiting", "up", "down"}]
    /\ held \in [Clients -> 0 .. Buffer]
    /\ vsock \in BOOLEAN /\ cut \subseteq Clients

\* The connection of each client is a byte stream: no byte is counted twice or
\* counted though it was not sent, whatever the calls return and wherever they
\* are interrupted, and the server takes nothing for the end that is not.
Connections == INSTANCE ByteStreams WITH
    Streams <- Clients, Bytes <- MAXLEN,
    sent <- [c \in Clients |-> num[c] + part[c]], flight <- held,
    received <- [c \in Clients |-> IF c = conn THEN rnum ELSE 0],
    state <- [c \in Clients |->
        IF c \in cut \/ (link[c] = "down" /\ c # conn) THEN "broken"
        ELSE IF cpc[c] \in Ended THEN "closed" ELSE "open"],
    ended <- [c \in Clients |-> c = conn /\ spc = "ok"]
ConnectionsAreStreams == Connections!Spec

\* If the connection did not break, both sides report the same number, the
\* whole amount, however the calls of send() and recv() divided it.
ReportsAgree ==
    spc = "ok" /\ conn \notin cut =>
        cpc[conn] = "report" /\ num[conn] = DATAS * MAXLEN /\ rnum = num[conn]

\* Every client ends, also one that waits behind the connection being served.
ClientsEnd == <>(\A c \in Clients : cpc[c] \in Ended)

\* A server that has accepted a connection ends.
ServerEnds == conn # None ~> spc = "ok"

=============================================================================
