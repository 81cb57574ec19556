-------------------------------- MODULE Udp --------------------------------
(***************************************************************************)
(* src/src/linux/socket/udp/udp_server.c and the udp_client.c beside it.   *)
(* A client sends one datagram and ends; the server receives into one      *)
(* buffer, again and again, and prints it as a string.  The network is     *)
(* external: it delivers a datagram later, twice or never.                 *)
(***************************************************************************)
EXTENDS Integers

CONSTANTS
    Clients, Servers,
    Text, Nul, Junk,\* what a byte is: of the text, zero, of no meaning
    BUF_LEN         \* bytes in a message and in a server's buffer

ASSUME UdpAssumption == BUF_LEN \in Nat \ {0, 1} /\ Text # Nul

VARIABLES
    client,         \* client -> "new", "sent" or "failed"
    server,         \* server -> "new", "recv" or "failed"
    net,            \* clients whose datagram is under way, and its bytes
    buf,            \* server -> its buffer
    printed         \* server -> what it printed last: [from, data]

udpvars == <<client, server, net, buf, printed>>

Nobody == [from |-> "nobody", data |-> <<>>]

UdpInit ==
    /\ client = [c \in Clients |-> "new"] /\ server = [s \in Servers |-> "new"]
    /\ net = {} /\ buf = [s \in Servers |-> [k \in 1 .. BUF_LEN |-> Junk]]
    /\ printed = [s \in Servers |-> Nobody]

\* Mutant: only the text is sent.
MessageShort == [k \in 1 .. BUF_LEN - 1 |-> Text]

\* buf[BUF_LEN] = "Hello World": the text and zeros.
Message == [k \in 1 .. BUF_LEN |-> IF k < BUF_LEN THEN Text ELSE Nul]

\* What sendto() returns is printed and not looked at.
Sendto(c) ==
    /\ client[c] = "new"
    /\ \/ client' = [client EXCEPT ![c] = "sent"] /\ net' \in {net, net \cup {[from |-> c, data |-> Message]}}
       \/ client' = [client EXCEPT ![c] = "failed"] /\ UNCHANGED net
    /\ UNCHANGED <<server, buf, printed>>

Lose(d) == d \in net /\ net' = net \ {d} /\ UNCHANGED <<client, server, buf, printed>>

\* socket() and bind(): one server has the port.
BindPort(s) ==
    /\ server[s] = "new"
    /\ \/ (\A t \in Servers : server[t] # "recv") /\ server' = [server EXCEPT ![s] = "recv"]
       \/ server' = [server EXCEPT ![s] = "failed"]
    /\ UNCHANGED <<client, net, buf, printed>>

\* printf("%s", buf): up to the first zero, or on beyond the buffer.
String(b) ==
    LET ends == {k \in DOMAIN b : b[k] = Nul}
    IN  IF ends = {} THEN <<Junk>>
        ELSE [k \in 1 .. (CHOOSE e \in ends : \A x \in ends : e =< x) - 1 |-> b[k]]

Recvfrom(s, d) ==
    /\ server[s] = "recv" /\ d \in net /\ net' \in {net, net \ {d}}
    /\ buf' = [buf EXCEPT ![s] =
            [k \in 1 .. BUF_LEN |-> IF k \in DOMAIN d.data THEN d.data[k] ELSE @[k]]]
    /\ printed' = [printed EXCEPT ![s] = [from |-> d.from, data |-> String(buf'[s])]]
    /\ UNCHANGED <<client, server>>

\* recvfrom() fails, or the operator ends the server.
ServerEnd(s) ==
    /\ server[s] = "recv" /\ server' = [server EXCEPT ![s] = "failed"]
    /\ UNCHANGED <<client, net, buf, printed>>

UdpDone ==
    /\ net = {} /\ (\A c \in Clients : client[c] # "new") /\ (\A s \in Servers : server[s] # "new")
    /\ UNCHANGED udpvars

UdpNext ==
    \/ \E c \in Clients : Sendto(c)
    \/ \E d \in net : Lose(d) \/ \E s \in Servers : Recvfrom(s, d)
    \/ \E s \in Servers : BindPort(s) \/ ServerEnd(s)
    \/ UdpDone

----------------------------------------------------------------------------
(* Properties *)

UdpTypeOK ==
    /\ client \in [Clients -> {"new", "sent", "failed"}]
    /\ server \in [Servers -> {"new", "recv", "failed"}]
    /\ \A d \in net : d.from \in Clients
    /\ buf \in [Servers -> [1 .. BUF_LEN -> {Text, Nul, Junk}]]

\* What a server prints is the text that this client sent, and never what its
\* buffer or its stack held before: the zero that ends the string comes with
\* the datagram, whichever datagrams were lost, doubled or overtaken.
PrintsWhatWasSent ==
    \A s \in Servers :
        printed[s] = Nobody \/ (/\ client[printed[s].from] = "sent"
                                /\ printed[s].data = [k \in 1 .. BUF_LEN - 1 |-> Text])
=============================================================================
