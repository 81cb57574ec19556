------------------------------ MODULE TcpServer ------------------------------
(***************************************************************************)
(* The epoll server src/src/linux/socket/tcp/tcp_server.c and runs of its  *)
(* client src/src/linux/socket/tcp/tcp_client.c.                           *)
(*                                                                         *)
(* The network and the sockets are external.  Bytes and the end of the     *)
(* stream reach the server's socket some time after they are sent, in      *)
(* order; a connection may be reset, which loses what has not arrived yet  *)
(* and makes one recv() fail.  epoll is level triggered.  A closed         *)
(* descriptor is given to the next connection accepted.                    *)
(***************************************************************************)
EXTENDS Integers, Sequences, FiniteSets, FiniteSetsExt

CONSTANTS
    Conns,          \* runs of the client, each with its connection
    None,           \* no connection
    FdMax,          \* the most descriptors the server may have for connections
    MAX_EVENTS,
    MAXLEN,         \* bytes a client sends, and the server's buffer
    Backlog,        \* connections that wait for accept()
    Faults          \* subset of {"setup", "server", "connect", "reset"}

ASSUME TcpServerAssumption ==
    /\ None \notin Conns
    /\ {FdMax, MAX_EVENTS, MAXLEN, Backlog} \subseteq Nat \ {0}

VARIABLES
    limit,          \* descriptors this server may have for connections
    spc,            \* where the server is
    events,         \* descriptors of this round still to be handled, 0 the listener's
    fd,             \* descriptor -> the connection it stands for
    got,            \* connection -> bytes the server has received
    served,         \* connections the server has closed
    cpc,            \* client -> where it is
    backlog,        \* connections not accepted yet
    net,            \* connection -> bytes on their way
    inq,            \* connection -> bytes in the server's socket
    end,            \* connection -> what the server's socket knows of its end
    cut             \* connections that were reset

server  == <<spc, events, fd, got, served>>
network == <<net, inq, end, cut>>
vars    == <<limit, server, cpc, backlog, network>>

Fds == 1 .. limit
Listener == 0
Open == {f \in Fds : fd[f] # None}

Init ==
    /\ limit \in 1 .. FdMax
    /\ spc = "setup" /\ events = {} /\ fd = [f \in Fds |-> None]
    /\ got = [c \in Conns |-> 0] /\ served = {}
    /\ cpc = [c \in Conns |-> "connect"] /\ backlog = <<>>
    /\ net = [c \in Conns |-> 0] /\ inq = [c \in Conns |-> 0]
    /\ end = [c \in Conns |-> "open"] /\ cut = {}

----------------------------------------------------------------------------
(* The server *)

\* epoll_create1, socket, bind, listen, epoll_ctl: any of them may fail.
Setup ==
    /\ spc = "setup"
    /\ \/ spc' = "wait"
       \/ "setup" \in Faults /\ spc' = "failure"
    /\ UNCHANGED <<events, fd, got, served, cpc, backlog, network>>

HasInput(c) == inq[c] > 0 \/ end[c] \in {"eof", "reset"}
Ready == {f \in Open : HasInput(fd[f])} \cup {x \in {Listener} : backlog # <<>>}

\* The array is read in an order epoll chooses, so a set stands for it.
EpollWait ==
    /\ spc = "wait" /\ Ready # {}
    /\ \E S \in SUBSET Ready :
        /\ Cardinality(S) = IF Cardinality(Ready) < MAX_EVENTS THEN Cardinality(Ready) ELSE MAX_EVENTS
        /\ events' = S
    /\ spc' = "loop"
    /\ UNCHANGED <<fd, got, served, cpc, backlog, network>>

\* for (n = 0; n < nfds; n++), after an event is handled.
Handled(f) ==
    /\ events' = events \ {f}
    /\ spc' = IF events = {f} THEN "wait" ELSE "loop"

\* Mutant: the new connection is read at once.
AcceptAndRead ==
    /\ spc = "loop" /\ Listener \in events /\ backlog # <<>>
    /\ Fds # Open
    /\ LET f == Min(Fds \ Open) IN
        /\ fd' = [fd EXCEPT ![f] = Head(backlog)]
        /\ events' = (events \ {Listener}) \cup {f}
    /\ backlog' = Tail(backlog) /\ spc' = "loop"
    /\ UNCHANGED <<got, served, cpc, network>>

\* exit(EXIT_FAILURE) closes every descriptor.
Exits == spc' = "failure" /\ fd' = [f \in Fds |-> None] /\ backlog' = <<>> /\ events' = {}

\* A new connection gets the lowest free descriptor; when there is none the
\* server exits.
Accept ==
    /\ spc = "loop" /\ Listener \in events /\ backlog # <<>>
    /\ IF Open # Fds
       THEN /\ fd' = [fd EXCEPT ![Min(Fds \ Open)] = Head(backlog)]
            /\ backlog' = Tail(backlog)
            /\ Handled(Listener)
       ELSE Exits
    /\ UNCHANGED <<got, served, cpc, network>>

\* epoll_wait(), accept() or the epoll_ctl() of a new connection fails.
ServerFails ==
    /\ "server" \in Faults
    /\ spc = "wait" \/ (spc = "loop" /\ Listener \in events)
    /\ Exits
    /\ UNCHANGED <<got, served, cpc, network>>

\* Mutant: whatever recv() returns, the connection is closed after it.
ReceivedOnce(f, c) ==
    /\ inq[c] > 0
    /\ got' = [got EXCEPT ![c] = @ + inq[c]]
    /\ inq' = [inq EXCEPT ![c] = 0]
    /\ fd' = [fd EXCEPT ![f] = None] /\ served' = served \cup {c}
    /\ UNCHANGED end

\* do_use_fd and what follows: recv() gives bytes, fails, or says it is the
\* end; only the end closes the descriptor.
Received(f, c) ==
    /\ inq[c] > 0
    /\ LET n == IF inq[c] < MAXLEN THEN inq[c] ELSE MAXLEN IN
        /\ got' = [got EXCEPT ![c] = @ + n]
        /\ inq' = [inq EXCEPT ![c] = @ - n]
    /\ UNCHANGED <<fd, served, end>>

Failed(f, c) ==
    /\ inq[c] = 0 /\ end[c] = "reset"
    /\ end' = [end EXCEPT ![c] = "eof"]
    /\ UNCHANGED <<fd, got, served, inq>>

\* Mutant: the end of the stream is only removed from the round.
ClosedNot(f, c) ==
    /\ inq[c] = 0 /\ end[c] = "eof"
    /\ UNCHANGED <<fd, got, served, inq, end>>

Closed(f, c) ==
    /\ inq[c] = 0 /\ end[c] = "eof"
    /\ fd' = [fd EXCEPT ![f] = None] /\ served' = served \cup {c}
    /\ UNCHANGED <<got, inq, end>>

UseFd(f) ==
    /\ spc = "loop" /\ f \in events /\ fd[f] # None
    /\ Received(f, fd[f]) \/ Failed(f, fd[f]) \/ Closed(f, fd[f])
    /\ Handled(f)
    /\ UNCHANGED <<cpc, backlog, net, cut>>

----------------------------------------------------------------------------
(* The clients *)

Goto(c, to) == cpc' = [cpc EXCEPT ![c] = to]

\* connect() is refused when nobody listens, and waits for a place in the
\* backlog otherwise.
Connect(c) ==
    /\ cpc[c] = "connect"
    /\ \/ /\ spc \in {"wait", "loop"} /\ Len(backlog) < Backlog
          /\ backlog' = Append(backlog, c) /\ Goto(c, "send")
       \/ /\ spc \in {"setup", "failure"}
          /\ Goto(c, "failure") /\ UNCHANGED backlog
    /\ UNCHANGED <<server, network>>

\* socket() or connect() fails though the server listens.
ConnectFails(c) ==
    /\ "connect" \in Faults /\ cpc[c] = "connect" /\ Goto(c, "failure")
    /\ UNCHANGED <<server, backlog, network>>

\* What send() returns is not looked at.
Send(c) ==
    /\ cpc[c] = "send" /\ Goto(c, "close")
    /\ net' = [net EXCEPT ![c] = IF end[c] = "open" THEN MAXLEN ELSE 0]
    /\ UNCHANGED <<server, backlog, inq, end, cut>>

Close(c) ==
    /\ cpc[c] = "close" /\ Goto(c, "done")
    /\ end' = [end EXCEPT ![c] = IF @ = "open" THEN "closing" ELSE @]
    /\ UNCHANGED <<server, backlog, net, inq, cut>>

----------------------------------------------------------------------------
(* The network *)

Arrive(c) ==
    /\ net[c] > 0
    /\ \E k \in 1 .. net[c] :
        /\ net' = [net EXCEPT ![c] = @ - k]
        /\ inq' = [inq EXCEPT ![c] = @ + k]
    /\ UNCHANGED <<server, cpc, backlog, end, cut>>

ArriveFin(c) ==
    /\ net[c] = 0 /\ end[c] = "closing"
    /\ end' = [end EXCEPT ![c] = "eof"]
    /\ UNCHANGED <<server, cpc, backlog, net, inq, cut>>

Reset(c) ==
    /\ "reset" \in Faults
    /\ cpc[c] \in {"send", "close", "done"} /\ end[c] \in {"open", "closing"}
    /\ end' = [end EXCEPT ![c] = "reset"] /\ net' = [net EXCEPT ![c] = 0]
    /\ cut' = cut \cup {c}
    /\ UNCHANGED <<server, cpc, backlog, inq>>

----------------------------------------------------------------------------

Server    == Setup \/ EpollWait \/ Accept \/ \E f \in Fds : UseFd(f)
Client(c) == Connect(c) \/ Send(c) \/ Close(c)
Net(c)    == Arrive(c) \/ ArriveFin(c)

\* The server waits for ever once every client is gone.
Idle ==
    /\ spc \in {"wait", "failure"} /\ Ready = {}
    /\ \A c \in Conns : cpc[c] \in {"done", "failure"} /\ net[c] = 0 /\ end[c] # "closing"
    /\ UNCHANGED vars

Next ==
    /\ \/ Server \/ ServerFails \/ Idle
       \/ \E c \in Conns : Client(c) \/ ConnectFails(c) \/ Net(c) \/ Reset(c)
    /\ UNCHANGED limit

Spec == Init /\ [][Next]_vars
\* Each process is scheduled, and the network delivers what was not cut.  No
\* call has to fail.
FairSpec ==
    /\ Spec /\ WF_vars(Server /\ UNCHANGED limit)
    /\ \A c \in Conns :
        WF_vars(Client(c) /\ UNCHANGED limit) /\ WF_vars(Net(c) /\ UNCHANGED limit)

----------------------------------------------------------------------------
(* Properties *)

TypeOK ==
    /\ limit \in 1 .. FdMax
    /\ spc \in {"setup", "wait", "loop", "failure"}
    /\ events \subseteq Fds \cup {Listener}
    /\ fd \in [Fds -> Conns \cup {None}]
    /\ got \in [Conns -> 0 .. MAXLEN] /\ served \subseteq Conns
    /\ cpc \in [Conns -> {"connect", "send", "close", "done", "failure"}]
    /\ backlog \in Seq(Conns) /\ Len(backlog) =< Backlog
    /\ net \in [Conns -> 0 .. MAXLEN] /\ inq \in [Conns -> 0 .. MAXLEN]
    /\ end \in [Conns -> {"open", "closing", "eof", "reset"}] /\ cut \subseteq Conns

\* The sockets are blocking and one thread serves them all: whatever the
\* earlier events of a round closed or accepted, every event still to be
\* handled names an open descriptor on which accept() or recv() returns at
\* once, though its number may have been given to another connection.
NeverBlocks ==
    \A f \in events :
        IF f = Listener THEN backlog # <<>> ELSE fd[f] # None /\ HasInput(fd[f])

\* Every connection is a byte stream, whichever descriptor it had and whoever
\* had that descriptor before: the server reads each byte once, and closes only
\* what it has read to the end.
Connections == INSTANCE ByteStreams WITH
    Streams <- Conns, Bytes <- MAXLEN,
    sent <- [c \in Conns |-> IF cpc[c] \in {"close", "done"} THEN MAXLEN ELSE 0],
    flight <- [c \in Conns |-> net[c] + inq[c]], received <- got,
    state <- [c \in Conns |-> IF c \in cut THEN "broken"
                              ELSE IF cpc[c] \in {"done", "failure"} THEN "closed" ELSE "open"],
    ended <- [c \in Conns |-> c \in served]
ConnectionsAreStreams == Connections!Spec

\* Every connection is closed by the server in the end, also one that was
\* reset, for which recv() fails once before it says the stream has ended; only
\* a server that exited, for want of a descriptor or on an error, closes none.
EventuallyServed ==
    \A c \in Conns : cpc[c] = "send" ~> c \in served \/ spc = "failure"

=============================================================================
