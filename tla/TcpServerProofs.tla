--------------------------- MODULE TcpServerProofs ---------------------------
(***************************************************************************)
(* The epoll server never blocks on one connection, and its connections    *)
(* are byte streams, for every number of clients, descriptors and events a *)
(* round.                                                                  *)
(*                                                                         *)
(* Both need to know that a connection is in one place only (PlaceInv): in *)
(* the backlog, behind one descriptor, or closed.  The refinement also     *)
(* needs NetInv: what the ends of a connection know of each other.         *)
(***************************************************************************)
EXTENDS TcpServer, WellFoundedInduction, SequenceTheorems, TLAPS

Types ==
    /\ limit \in Nat
    /\ events \subseteq Fds \cup {Listener}
    /\ fd \in [Fds -> Conns \cup {None}]
    /\ got \in [Conns -> Nat] /\ served \subseteq Conns
    /\ cpc \in [Conns -> {"connect", "send", "close", "done", "failure"}]
    /\ backlog \in Seq(Conns)
    /\ net \in [Conns -> Nat] /\ inq \in [Conns -> Nat]
    /\ end \in [Conns -> {"open", "closing", "eof", "reset"}] /\ cut \subseteq Conns

\* The backlog holds each connection once; so do the descriptors, and no
\* connection is in two of the places backlog, descriptor and served.
OnceInv ==
    /\ \A i, j \in 1 .. Len(backlog) : backlog[i] = backlog[j] => i = j
    /\ \A f, g \in Open : fd[f] = fd[g] => f = g
    /\ \A f \in Open : fd[f] \notin served /\ \A i \in 1 .. Len(backlog) : fd[f] # backlog[i]
    /\ \A i \in 1 .. Len(backlog) : backlog[i] \notin served

\* A client that is not connected is in none of them.
Connected(c) == cpc[c] \notin {"connect", "failure"}

PlaceInv ==
    /\ OnceInv
    /\ \A f \in Open : Connected(fd[f])
    /\ \A i \in 1 .. Len(backlog) : Connected(backlog[i])
    /\ \A c \in served : Connected(c)

NetInv ==
    \A c \in Conns :
        /\ cpc[c] \in {"connect", "send", "failure"} => net[c] = 0 /\ inq[c] = 0
        /\ end[c] \in {"eof", "reset"} => net[c] = 0 /\ (c \in cut \/ cpc[c] = "done")
        /\ end[c] = "closing" => cpc[c] = "done"
        /\ c \in cut => end[c] \in {"eof", "reset"} /\ Connected(c)

IInv == Types /\ PlaceInv /\ NetInv /\ NeverBlocks

------------------------------------------------------------------------------
(* Lemmas about the operators *)

LEMMA Constants == None \notin Conns /\ MAXLEN \in Nat \ {0} /\ FdMax \in Nat \ {0}
  BY TcpServerAssumption

\* A set of natural numbers has a least element, which is what Min chooses.
LEMMA MinFacts ==
    ASSUME NEW S \in SUBSET Nat, S # {}
    PROVE  Min(S) \in S /\ \A y \in S : Min(S) =< y
<1> DEFINE R == OpToRel(<, Nat)
<1>1. \E x \in S : \A y \in S : ~(<<y, x>> \in R)
  <2>1. IsWellFoundedOn(R, Nat)
    BY NatLessThanWellFounded
  <2> HIDE DEF R
  <2> QED BY <2>1, WFMin
<1>2. PICK x \in S : \A y \in S : ~(<<y, x>> \in R)
  BY <1>1
<1>3. \A y \in S : x =< y
  <2> SUFFICES ASSUME NEW y \in S PROVE x =< y
    OBVIOUS
  <2>1. <<y, x>> \in Nat \X Nat /\ (y < x => <<y, x>> \in R)
    BY DEF OpToRel
  <2>2. ~(y < x)
    BY <1>2, <2>1
  <2> QED BY <2>2
<1>4. \E z \in S : \A y \in S : z =< y
  BY <1>3
<1> QED BY <1>4 DEF Min

\* accept() gives a descriptor that is free.
LEMMA LowestFree == ASSUME Types, Open # Fds PROVE Min(Fds \ Open) \in Fds \ Open
<1>1. Fds \ Open \in SUBSET Nat /\ Fds \ Open # {}
  BY DEF Types, Fds, Open
<1> QED BY <1>1, MinFacts

\* Taking the first connection out of the backlog.
LEMMA TailFacts ==
    ASSUME NEW s \in Seq(Conns), s # <<>>
    PROVE  /\ Head(s) \in Conns /\ Head(s) = s[1] /\ 1 \in 1 .. Len(s) /\ Len(s) \in Nat
           /\ Tail(s) \in Seq(Conns) /\ Len(Tail(s)) = Len(s) - 1
           /\ \A i \in 1 .. Len(s) - 1 : Tail(s)[i] = s[i + 1] /\ i + 1 \in 1 .. Len(s)
<1>1. Len(s) \in Nat \ {0}
  BY EmptySeq
<1>2. Head(s) = s[1]
  OBVIOUS
<1>3. /\ Head(s) \in Conns /\ Tail(s) \in Seq(Conns) /\ Len(Tail(s)) = Len(s) - 1
      /\ \A i \in 1 .. Len(Tail(s)) : Tail(s)[i] = s[i + 1]
  BY HeadTailProperties
<1> QED BY <1>1, <1>2, <1>3

(* What a step leaves alone *)

LEMMA PlaceKept ==
    ASSUME PlaceInv, UNCHANGED <<limit, fd, backlog, served>>, Types,
           \A c \in Conns : Connected(c) => Connected(c)'
    PROVE  PlaceInv'
<1>1. Open' = Open /\ \A f \in Open : fd[f] \in Conns
  BY DEF Open, Fds, Types
<1>2. OnceInv'
  BY <1>1 DEF PlaceInv, OnceInv
<1>3. \A i \in 1 .. Len(backlog) : backlog[i] \in Conns
  BY ElementOfSeq DEF Types
<1> QED BY <1>1, <1>2, <1>3 DEF PlaceInv, Types

LEMMA NeverBlocksKept ==
    ASSUME NeverBlocks, Types, UNCHANGED <<limit, fd>>, events' \subseteq events,
           backlog # <<>> => backlog' # <<>>,
           \A f \in events' : f # Listener /\ HasInput(fd[f]) => HasInput(fd[f])'
    PROVE  NeverBlocks'
  BY DEF NeverBlocks

------------------------------------------------------------------------------
(* The invariant, action by action *)

LEMMA InitInv == Init => IInv
<1> SUFFICES ASSUME Init PROVE IInv
  OBVIOUS
<1>1. Types
  BY Constants DEF Init, Types, Fds
<1>2. Open = {} /\ Len(backlog) = 0 /\ served = {}
  BY DEF Init, Open, Fds
<1>3. PlaceInv
  BY <1>2 DEF PlaceInv, OnceInv
<1>4. NetInv
  BY DEF Init, NetInv
<1>5. NeverBlocks
  BY DEF Init, NeverBlocks
<1> QED BY <1>1, <1>3, <1>4, <1>5 DEF IInv

LEMMA SetupInv == IInv /\ Setup /\ UNCHANGED limit => IInv'
<1> SUFFICES ASSUME IInv, Setup, UNCHANGED limit PROVE IInv'
  OBVIOUS
<1>1. UNCHANGED <<limit, events, fd, got, served, cpc, backlog, net, inq, end, cut>>
  BY DEF Setup, network
<1>2. Types'
  BY <1>1 DEF IInv, Types, Fds
<1>3. PlaceInv'
  BY <1>1, PlaceKept DEF IInv, Connected
<1>4. NetInv'
  BY <1>1 DEF IInv, NetInv, Connected
<1>5. NeverBlocks'
  BY <1>1 DEF IInv, NeverBlocks, HasInput
<1> QED BY <1>2, <1>3, <1>4, <1>5 DEF IInv

\* Only what is ready becomes an event.
LEMMA EpollWaitInv == IInv /\ EpollWait /\ UNCHANGED limit => IInv'
<1> SUFFICES ASSUME IInv, EpollWait, UNCHANGED limit PROVE IInv'
  OBVIOUS
<1>1. UNCHANGED <<limit, fd, got, served, cpc, backlog, net, inq, end, cut>>
  BY DEF EpollWait, network
<1>2. events' \subseteq Ready
  BY DEF EpollWait
<1>3. Types'
  BY <1>1, <1>2 DEF IInv, Types, Fds, Ready, Open
<1>4. PlaceInv'
  BY <1>1, PlaceKept DEF IInv, Connected
<1>5. NetInv'
  BY <1>1 DEF IInv, NetInv, Connected
<1>6. NeverBlocks'
  <2>1. Listener \notin Fds
    BY DEF Listener, Fds, IInv, Types
  <2>2. ASSUME NEW f \in events'
        PROVE  IF f = Listener THEN backlog # <<>> ELSE fd[f] # None /\ HasInput(fd[f])
    BY <1>2, <2>1, <2>2 DEF Ready, Open
  <2> QED BY <1>1, <2>2 DEF NeverBlocks, HasInput
<1> QED BY <1>3, <1>4, <1>5, <1>6 DEF IInv

\* A server that exits has no descriptor left.
LEMMA ExitsInv == IInv /\ Exits /\ UNCHANGED <<limit, got, served, cpc, network>> => IInv'
<1> SUFFICES ASSUME IInv, Exits, UNCHANGED <<limit, got, served, cpc, network>> PROVE IInv'
  OBVIOUS
<1>0. UNCHANGED <<limit, got, served, cpc, net, inq, end, cut>> /\ Fds' = Fds
  BY DEF network, Fds
<1>1. NetInv'
  BY <1>0 DEF IInv, NetInv, Connected
<1>2. fd' = [f \in Fds |-> None] /\ backlog' = <<>> /\ events' = {}
  BY DEF Exits
<1>3. Types'
  BY <1>0, <1>2 DEF IInv, Types
<1>4. Open' = {} /\ Len(backlog') = 0
  BY <1>0, <1>2 DEF Open
<1>5. PlaceInv'
  BY <1>0, <1>4 DEF IInv, PlaceInv, OnceInv, Connected
<1>6. NeverBlocks'
  BY <1>2 DEF NeverBlocks
<1> QED BY <1>1, <1>3, <1>5, <1>6 DEF IInv

\* The first of the backlog gets a descriptor that was free, which therefore is
\* none of those still to be handled.
LEMMA AcceptInv == IInv /\ Accept /\ UNCHANGED limit => IInv'
<1> SUFFICES ASSUME IInv, Accept, UNCHANGED limit PROVE IInv'
  OBVIOUS
<1>0. /\ backlog # <<>> /\ Listener \in events /\ Listener \notin Fds /\ Fds' = Fds
      /\ UNCHANGED <<limit, got, served, cpc, net, inq, end, cut>>
  BY DEF Accept, network, Fds, Listener, IInv, Types
<1>1. NetInv'
  BY <1>0 DEF IInv, NetInv, Connected
<1>2. CASE Open # Fds
  <2> DEFINE g == Min(Fds \ Open)  c == Head(backlog)  t == Tail(backlog)
  <2>1. g \in Fds \ Open
    BY <1>2, LowestFree DEF IInv
  <2>2. fd' = [fd EXCEPT ![g] = c] /\ backlog' = t /\ events' = events \ {Listener}
    BY <1>2 DEF Accept, Handled
  <2>3. /\ c \in Conns /\ c = backlog[1] /\ 1 \in 1 .. Len(backlog) /\ Len(backlog) \in Nat
        /\ t \in Seq(Conns) /\ Len(t) = Len(backlog) - 1
        /\ \A i \in 1 .. Len(backlog) - 1 : t[i] = backlog[i + 1] /\ i + 1 \in 1 .. Len(backlog)
    BY <1>0, TailFacts DEF IInv, Types
  <2> HIDE DEF g, c, t
  <2>4. Types'
    BY <1>0, <2>1, <2>2, <2>3 DEF IInv, Types
  <2>5. /\ Open' = Open \cup {g} /\ fd'[g] = c
        /\ \A f \in Open : fd'[f] = fd[f] /\ fd[f] \in Conns
    BY <1>0, <2>1, <2>2, <2>3, Constants DEF Open, IInv, Types
  <2>6. OnceInv'
    <3>1. \A i, j \in 1 .. Len(t) : t[i] = t[j] => i = j
      BY <2>3 DEF IInv, PlaceInv, OnceInv
    <3>2. \A f, h \in Open' : fd'[f] = fd'[h] => f = h
      BY <2>3, <2>5 DEF IInv, PlaceInv, OnceInv
    <3>3. \A f \in Open' : fd'[f] \notin served
      BY <2>3, <2>5 DEF IInv, PlaceInv, OnceInv
    <3>4. \A f \in Open', i \in 1 .. Len(t) : fd'[f] # t[i]
      <4> SUFFICES ASSUME NEW f \in Open', NEW i \in 1 .. Len(t) PROVE fd'[f] # t[i]
        OBVIOUS
      <4>1. t[i] = backlog[i + 1] /\ i + 1 \in 1 .. Len(backlog) /\ i + 1 # 1
        BY <2>3
      <4> QED BY <2>3, <2>5, <4>1 DEF IInv, PlaceInv, OnceInv
    <3>5. \A i \in 1 .. Len(t) : t[i] \notin served
      BY <2>3 DEF IInv, PlaceInv, OnceInv
    <3> QED BY <1>0, <2>2, <3>1, <3>2, <3>3, <3>4, <3>5 DEF OnceInv
  <2>7. PlaceInv'
    <3>1. \A f \in Open' : Connected(fd'[f])
      BY <2>3, <2>5 DEF IInv, PlaceInv
    <3>2. \A i \in 1 .. Len(t) : Connected(t[i])
      BY <2>3 DEF IInv, PlaceInv
    <3> QED BY <1>0, <2>2, <2>6, <3>1, <3>2 DEF IInv, PlaceInv, Connected
  <2>8. NeverBlocks'
    <3>1. ASSUME NEW f \in events' PROVE f # Listener /\ fd'[f] # None /\ HasInput(fd'[f])
      <4>1. f \in events /\ f # Listener /\ f \in Fds
        BY <2>2, <3>1 DEF IInv, Types
      <4>2. f \in Open /\ HasInput(fd[f])
        BY <4>1 DEF IInv, NeverBlocks, Open
      <4> QED BY <2>5, <4>1, <4>2 DEF Open
    <3> QED BY <1>0, <3>1 DEF NeverBlocks, HasInput
  <2> QED BY <1>1, <2>4, <2>7, <2>8 DEF IInv
<1>3. CASE Open = Fds
  BY <1>3, ExitsInv DEF Accept
<1> QED BY <1>2, <1>3

\* recv() on the descriptor of an event: no other event is of the same
\* connection.
LEMMA UseFdInv == ASSUME NEW f \in Fds PROVE IInv /\ UseFd(f) /\ UNCHANGED limit => IInv'
<1> SUFFICES ASSUME IInv, UseFd(f), UNCHANGED limit PROVE IInv'
  OBVIOUS
<1> DEFINE c == fd[f]
<1>0. /\ f \in events /\ f \in Open /\ c \in Conns /\ Fds' = Fds /\ events' = events \ {f}
      /\ UNCHANGED <<limit, cpc, backlog, net, cut>>
      /\ Received(f, c) \/ Failed(f, c) \/ Closed(f, c)
      /\ Listener \notin Fds
  BY DEF UseFd, Handled, Open, Fds, Listener, IInv, Types
<1> HIDE DEF c
<1>1. ASSUME NEW g \in events', g # Listener
      PROVE  g \in Open /\ g # f /\ fd[g] \in Conns /\ fd[g] # c /\ HasInput(fd[g])
  <2>1. g \in Open /\ g # f /\ HasInput(fd[g])
    BY <1>0, <1>1 DEF IInv, Types, NeverBlocks, Open
  <2> QED BY <1>0, <2>1 DEF c, IInv, Types, PlaceInv, OnceInv, Open
<1>2. CASE Received(f, c)
  <2>1. PICK k \in 1 .. inq[c] : got' = [got EXCEPT ![c] = @ + k] /\ inq' = [inq EXCEPT ![c] = @ - k]
    <3> DEFINE k == IF inq[c] < MAXLEN THEN inq[c] ELSE MAXLEN
    <3>1. k \in 1 .. inq[c]
      BY <1>0, <1>2, Constants DEF Received, IInv, Types
    <3> QED BY <1>2, <3>1 DEF Received
  <2>2. UNCHANGED <<fd, served, end>>
    BY <1>2 DEF Received
  <2>3. Types'
    BY <1>0, <2>1, <2>2 DEF IInv, Types
  <2>4. PlaceInv'
    BY <1>0, <2>2, PlaceKept DEF IInv, Connected
  <2>5. NetInv'
    BY <1>0, <2>1, <2>2 DEF IInv, Types, NetInv, Connected
  <2>6. NeverBlocks'
    <3>1. \A g \in events' : g # Listener /\ HasInput(fd[g]) => HasInput(fd[g])'
      BY <1>1, <2>1, <2>2 DEF HasInput, IInv, Types
    <3> QED BY <1>0, <2>2, <3>1, NeverBlocksKept DEF IInv
  <2> QED BY <2>3, <2>4, <2>5, <2>6 DEF IInv
<1>3. CASE Failed(f, c)
  <2>1. /\ inq[c] = 0 /\ end[c] = "reset" /\ end' = [end EXCEPT ![c] = "eof"]
        /\ UNCHANGED <<fd, got, served, inq>>
    BY <1>3 DEF Failed
  <2>2. Types'
    BY <1>0, <2>1 DEF IInv, Types
  <2>3. PlaceInv'
    BY <1>0, <2>1, PlaceKept DEF IInv, Connected
  <2>4. NetInv'
    BY <1>0, <2>1 DEF IInv, Types, NetInv, Connected
  <2>5. NeverBlocks'
    <3>1. \A g \in events' : g # Listener /\ HasInput(fd[g]) => HasInput(fd[g])'
      BY <1>1, <2>1 DEF HasInput, IInv, Types
    <3> QED BY <1>0, <2>1, <3>1, NeverBlocksKept DEF IInv
  <2> QED BY <2>2, <2>3, <2>4, <2>5 DEF IInv
<1>4. CASE Closed(f, c)
  <2>1. /\ inq[c] = 0 /\ end[c] = "eof" /\ fd' = [fd EXCEPT ![f] = None]
        /\ served' = served \cup {c} /\ UNCHANGED <<got, inq, end>>
    BY <1>4 DEF Closed
  <2>2. Types'
    BY <1>0, <2>1 DEF IInv, Types
  <2>3. Open' = Open \ {f} /\ \A g \in Open' : fd'[g] = fd[g] /\ fd[g] # c
    BY <1>0, <2>1 DEF Open, c, IInv, Types, PlaceInv, OnceInv
  <2>4. OnceInv'
    BY <1>0, <2>1, <2>3 DEF c, IInv, PlaceInv, OnceInv
  <2>5. PlaceInv'
    BY <1>0, <2>1, <2>3, <2>4 DEF c, IInv, PlaceInv, Connected
  <2>6. NetInv'
    BY <1>0, <2>1 DEF IInv, NetInv, Connected
  <2>7. NeverBlocks'
    <3>1. ASSUME NEW g \in events', g # Listener PROVE fd'[g] # None /\ HasInput(fd'[g])
      <4>1. g \in Open /\ g # f /\ HasInput(fd[g]) /\ g \in Fds
        BY <1>1, <3>1 DEF Open
      <4>2. fd'[g] = fd[g] /\ fd[g] # None
        BY <2>1, <4>1 DEF Open, IInv, Types
      <4> QED BY <4>1, <4>2
    <3>2. ASSUME Listener \in events' PROVE backlog # <<>>
      BY <1>0, <3>2 DEF IInv, NeverBlocks
    <3> QED BY <1>0, <2>1, <3>1, <3>2 DEF NeverBlocks, HasInput
  <2> QED BY <2>2, <2>5, <2>6, <2>7 DEF IInv
<1> QED BY <1>0, <1>2, <1>3, <1>4

LEMMA ConnectInv == ASSUME NEW c \in Conns PROVE IInv /\ (Connect(c) \/ ConnectFails(c)) /\ UNCHANGED limit => IInv'
<1> SUFFICES ASSUME IInv, Connect(c) \/ ConnectFails(c), UNCHANGED limit PROVE IInv'
  OBVIOUS
<1>0. cpc[c] = "connect" /\ UNCHANGED <<limit, events, fd, got, served, net, inq, end, cut>> /\ Open' = Open
  BY DEF Connect, ConnectFails, server, network, Open, Fds
<1>1. CASE backlog' = Append(backlog, c) /\ Goto(c, "send")
  <2> DEFINE b == Append(backlog, c)
  <2>0. backlog \in Seq(Conns)
    BY DEF IInv, Types
  <2>1. /\ backlog \in Seq(Conns) /\ b \in Seq(Conns) /\ Len(b) = Len(backlog) + 1
        /\ Len(backlog) \in Nat /\ b[Len(b)] = c /\ b # <<>>
        /\ \A i \in 1 .. Len(backlog) : b[i] = backlog[i]
    BY <2>0
  <2> HIDE DEF b
  <2>2. Types'
    BY <1>0, <1>1, <2>1 DEF b, IInv, Types, Goto, Fds
  <2>3. /\ \A i \in 1 .. Len(backlog) : backlog[i] # c
        /\ \A f \in Open : fd[f] # c
        /\ c \notin served
    BY <1>0 DEF IInv, PlaceInv, Connected
  <2>4. OnceInv'
    <3>1. \A i, j \in 1 .. Len(b) : b[i] = b[j] => i = j
      <4> SUFFICES ASSUME NEW i \in 1 .. Len(b), NEW j \in 1 .. Len(b), b[i] = b[j], i # j
                   PROVE  FALSE
        OBVIOUS
      <4>1. CASE i \in 1 .. Len(backlog) /\ j \in 1 .. Len(backlog)
        BY <2>1, <4>1 DEF IInv, PlaceInv, OnceInv
      <4>2. CASE i = Len(b) /\ j \in 1 .. Len(backlog)
        BY <2>1, <2>3, <4>2
      <4>3. CASE j = Len(b) /\ i \in 1 .. Len(backlog)
        BY <2>1, <2>3, <4>3
      <4> QED BY <2>1, <4>1, <4>2, <4>3
    <3>2. \A i \in 1 .. Len(b) : b[i] \notin served /\ \A f \in Open : fd[f] # b[i]
      <4> SUFFICES ASSUME NEW i \in 1 .. Len(b)
                   PROVE  b[i] \notin served /\ \A f \in Open : fd[f] # b[i]
        OBVIOUS
      <4>1. CASE i \in 1 .. Len(backlog)
        BY <2>1, <4>1 DEF IInv, PlaceInv, OnceInv
      <4>2. CASE i = Len(b)
        BY <2>1, <2>3, <4>2
      <4> QED BY <2>1, <4>1, <4>2
    <3> QED BY <1>0, <1>1, <3>1, <3>2 DEF b, IInv, PlaceInv, OnceInv
  <2> DEFINE On(d) == cpc'[d] \notin {"connect", "failure"}
  <2>5. On(c) /\ \A d \in Conns : Connected(d) => On(d)
    BY <1>1 DEF Connected, Goto, IInv, Types
  <2>6. PlaceInv'
    <3>1. \A f \in Open : On(fd[f])
      BY <2>5 DEF IInv, PlaceInv, Types, Open
    <3>2. \A d \in served : On(d)
      BY <2>5 DEF IInv, PlaceInv, Types
    <3>3. ASSUME NEW i \in 1 .. Len(b) PROVE On(b[i])
      <4>1. CASE i \in 1 .. Len(backlog)
        <5>1. backlog[i] \in Conns /\ Connected(backlog[i])
          BY <4>1, ElementOfSeq DEF IInv, Types, PlaceInv
        <5> QED BY <2>1, <2>5, <4>1, <5>1
      <4>2. CASE i = Len(b)
        BY <2>1, <2>5, <4>2
      <4> QED BY <2>1, <4>1, <4>2
    <3> QED BY <1>0, <1>1, <2>4, <3>1, <3>2, <3>3 DEF PlaceInv, b, Connected
  <2>7. NetInv'
    BY <1>0, <1>1 DEF IInv, NetInv, Connected, Goto, Types
  <2>8. NeverBlocks'
    BY <1>0, <1>1, <2>1, NeverBlocksKept DEF b, IInv, HasInput
  <2> QED BY <2>2, <2>6, <2>7, <2>8 DEF IInv
<1>2. CASE Goto(c, "failure") /\ UNCHANGED backlog
  <2>1. Types'
    BY <1>0, <1>2 DEF IInv, Types, Goto, Fds
  <2>2. \A d \in Conns : Connected(d) => Connected(d)'
    BY <1>0, <1>2 DEF Connected, Goto, IInv, Types
  <2>3. PlaceInv'
    BY <1>0, <1>2, <2>2, PlaceKept DEF IInv
  <2>4. NetInv'
    BY <1>0, <1>2 DEF IInv, NetInv, Connected, Goto, Types
  <2>5. NeverBlocks'
    BY <1>0, <1>2, NeverBlocksKept DEF IInv, HasInput
  <2> QED BY <2>1, <2>3, <2>4, <2>5 DEF IInv
<1> QED BY <1>1, <1>2 DEF Connect, ConnectFails

\* The other steps of clients and network concern the two ends of one
\* connection and take nothing from the server's socket.
LEMMA EndsInv ==
    ASSUME NEW c \in Conns, IInv, UNCHANGED limit,
           Send(c) \/ Close(c) \/ Arrive(c) \/ ArriveFin(c) \/ Reset(c)
    PROVE  IInv'
<1>0. UNCHANGED <<limit, events, fd, got, served, backlog>> /\ Fds' = Fds
  BY DEF Send, Close, Arrive, ArriveFin, Reset, server, Fds
<1>1. Types'
  <2>1. CASE Send(c)
    BY <1>0, <2>1, Constants DEF Send, Goto, IInv, Types
  <2>2. CASE Close(c)
    BY <1>0, <2>2 DEF Close, Goto, IInv, Types
  <2>3. CASE Arrive(c)
    BY <1>0, <2>3 DEF Arrive, IInv, Types
  <2>4. CASE ArriveFin(c)
    BY <1>0, <2>4 DEF ArriveFin, IInv, Types
  <2>5. CASE Reset(c)
    BY <1>0, <2>5 DEF Reset, IInv, Types
  <2> QED BY <2>1, <2>2, <2>3, <2>4, <2>5
<1>2. \A d \in Conns : Connected(d) => Connected(d)'
  BY DEF Send, Close, Arrive, ArriveFin, Reset, Goto, Connected, IInv, Types
<1>3. PlaceInv'
  BY <1>0, <1>2, PlaceKept DEF IInv
<1>4. NetInv'
  <2>1. CASE Send(c)
    BY <2>1 DEF Send, Goto, IInv, Types, NetInv, Connected
  <2>2. CASE Close(c)
    BY <2>2 DEF Close, Goto, IInv, Types, NetInv, Connected
  <2>3. CASE Arrive(c)
    BY <2>3 DEF Arrive, IInv, Types, NetInv, Connected
  <2>4. CASE ArriveFin(c)
    BY <2>4 DEF ArriveFin, IInv, Types, NetInv, Connected
  <2>5. CASE Reset(c)
    BY <2>5 DEF Reset, IInv, Types, NetInv, Connected
  <2> QED BY <2>1, <2>2, <2>3, <2>4, <2>5
<1>5. NeverBlocks'
  <2>1. \A d \in Conns : HasInput(d) => HasInput(d)'
    <3>1. CASE Send(c) \/ Close(c)
      BY <3>1 DEF Send, Close, HasInput, IInv, Types
    <3>2. CASE Arrive(c)
      BY <3>2 DEF Arrive, HasInput, IInv, Types
    <3>3. CASE ArriveFin(c)
      BY <3>3 DEF ArriveFin, HasInput, IInv, Types
    <3>4. CASE Reset(c)
      BY <3>4 DEF Reset, HasInput, IInv, Types
    <3> QED BY <3>1, <3>2, <3>3, <3>4
  <2>2. \A f \in events' : f # Listener => fd[f] \in Conns
    BY <1>0 DEF IInv, Types, NeverBlocks
  <2>3. \A f \in events' : f # Listener /\ HasInput(fd[f]) => HasInput(fd[f])'
    BY <1>0, <2>1, <2>2
  <2> QED BY <1>0, <2>3, NeverBlocksKept DEF IInv
<1> QED BY <1>1, <1>3, <1>4, <1>5 DEF IInv

LEMMA NextInv == IInv /\ [Next]_vars => IInv'
<1> SUFFICES ASSUME IInv, [Next]_vars PROVE IInv'
  OBVIOUS
<1>1. CASE UNCHANGED vars
  BY <1>1 DEF vars, server, network, IInv, Types, PlaceInv, OnceInv, NetInv, NeverBlocks,
              Fds, Open, Connected, HasInput
<1>2. CASE Server /\ UNCHANGED limit
  BY <1>2, SetupInv, EpollWaitInv, AcceptInv, UseFdInv DEF Server
<1>3. CASE ServerFails /\ UNCHANGED limit
  BY <1>3, ExitsInv DEF ServerFails
<1>4. ASSUME NEW c \in Conns, Client(c) \/ ConnectFails(c) \/ Net(c) \/ Reset(c), UNCHANGED limit PROVE IInv'
  BY <1>4, ConnectInv, EndsInv DEF Client, Net
<1> QED BY <1>1, <1>2, <1>3, <1>4 DEF Next, Idle

\* The combined invariant holds in every state.
THEOREM InvHolds == Spec => []IInv
  BY InitInv, NextInv, PTL DEF Spec

\* No accept() or recv() of the loop waits, in any order of the events of a
\* round and however descriptors are given again.
THEOREM NeverBlocksHolds == Spec => []NeverBlocks
<1>1. IInv => NeverBlocks
  BY DEF IInv
<1> QED BY <1>1, InvHolds, PTL

------------------------------------------------------------------------------
(***************************************************************************)
(* TcpServer implements ByteStreams.                                       *)
(***************************************************************************)
Sent(c)  == IF cpc[c] \in {"close", "done"} THEN MAXLEN ELSE 0
Flight(c) == net[c] + inq[c]
State(c) == IF c \in cut THEN "broken"
            ELSE IF cpc[c] \in {"done", "failure"} THEN "closed" ELSE "open"
EndSeen(c) == c \in served

Moves(c, out, on, in) ==
    Sent(c)' = Sent(c) + out /\ Flight(c)' = Flight(c) + on /\ got'[c] = got[c] + in

LEMMA StreamIdle ==
    ASSUME NEW c \in Conns, State(c)' = State(c), EndSeen(c)' = EndSeen(c), Moves(c, 0, 0, 0)
    PROVE  Connections!Step(c)
  BY DEF Moves, Sent, Flight, State, EndSeen, Connections!Step, Connections!Change, Connections!Idle

LEMMA StreamClose ==
    ASSUME NEW c \in Conns, State(c) = "open", State(c)' = "closed", EndSeen(c)' = EndSeen(c),
           Moves(c, 0, 0, 0)
    PROVE  Connections!Step(c)
  BY DEF Moves, Sent, Flight, State, EndSeen, Connections!Step, Connections!Change, Connections!Close

LEMMA StreamWrite ==
    ASSUME NEW c \in Conns, NEW k \in 1 .. MAXLEN, State(c) = "open", State(c)' = "open",
           EndSeen(c)' = EndSeen(c), Moves(c, k, k, 0)
    PROVE  Connections!Step(c)
  BY DEF Moves, Sent, Flight, State, EndSeen, Connections!Step, Connections!Change, Connections!Write

LEMMA StreamWriteLost ==
    ASSUME NEW c \in Conns, NEW k \in 1 .. MAXLEN, State(c) = "broken", State(c)' = "broken",
           EndSeen(c)' = EndSeen(c), Moves(c, k, 0, 0)
    PROVE  Connections!Step(c)
  BY DEF Moves, Sent, Flight, State, EndSeen, Connections!Step, Connections!Change, Connections!WriteLost

LEMMA StreamRead ==
    ASSUME NEW c \in Conns, NEW k \in 1 .. MAXLEN, k =< Flight(c), ~EndSeen(c), ~EndSeen(c)',
           State(c)' = State(c), Moves(c, 0, -k, k)
    PROVE  Connections!Step(c)
  BY DEF Moves, Sent, Flight, State, EndSeen, Connections!Step, Connections!Change, Connections!Read

LEMMA StreamReadEnd ==
    ASSUME NEW c \in Conns, ~EndSeen(c), EndSeen(c)', Flight(c) = 0, State(c) # "open",
           State(c)' = State(c), Moves(c, 0, 0, 0)
    PROVE  Connections!Step(c)
  BY DEF Moves, Sent, Flight, State, EndSeen, Connections!Step, Connections!Change, Connections!ReadEnd

LEMMA StreamBreak ==
    ASSUME NEW c \in Conns, NEW k \in 0 .. Flight(c), State(c) # "broken", State(c)' = "broken",
           EndSeen(c)' = EndSeen(c), Moves(c, 0, -k, 0)
    PROVE  Connections!Step(c)
  BY DEF Moves, Sent, Flight, State, EndSeen, Connections!Step, Connections!Change, Connections!Break

\* A connection that a step does not concern.
LEMMA Undisturbed ==
    ASSUME IInv, NEW c \in Conns, cpc'[c] = cpc[c], got'[c] = got[c], net'[c] = net[c],
           inq'[c] = inq[c], (c \in cut') = (c \in cut), (c \in served') = (c \in served)
    PROVE  Connections!Step(c)
<1>1. State(c)' = State(c) /\ EndSeen(c)' = EndSeen(c)
  BY DEF State, EndSeen
<1>2. Moves(c, 0, 0, 0)
  BY Constants DEF Moves, Sent, Flight, IInv, Types
<1> QED BY <1>1, <1>2, StreamIdle

LEMMA RoundSteps == IInv /\ (Setup \/ EpollWait \/ Accept \/ ServerFails) => Connections!Next
<1> SUFFICES ASSUME IInv, Setup \/ EpollWait \/ Accept \/ ServerFails, NEW c \in Conns PROVE Connections!Step(c)
  BY DEF Connections!Next
<1>1. UNCHANGED <<got, served, cpc, net, inq, cut>>
  BY DEF Setup, EpollWait, Accept, ServerFails, network
<1> QED BY <1>1, Undisturbed

\* A recv() of the server moves bytes of one connection, or ends it.
LEMMA UseFdSteps == ASSUME NEW f \in Fds PROVE IInv /\ UseFd(f) => Connections!Next
<1> SUFFICES ASSUME IInv, UseFd(f), NEW c \in Conns PROVE Connections!Step(c)
  BY DEF Connections!Next
<1>0. /\ fd[f] \in Conns /\ fd[f] \notin served /\ UNCHANGED <<cpc, net, cut>>
      /\ net[c] \in Nat /\ inq[c] \in Nat /\ got[c] \in Nat
      /\ Received(f, fd[f]) \/ Failed(f, fd[f]) \/ Closed(f, fd[f])
  BY DEF UseFd, IInv, Types, PlaceInv, OnceInv, Open
<1>1. CASE c # fd[f]
  <2>1. got'[c] = got[c] /\ inq'[c] = inq[c]
    BY <1>0, <1>1 DEF Received, Failed, Closed, IInv, Types
  <2>2. (c \in served') = (c \in served)
    BY <1>0, <1>1 DEF Received, Failed, Closed
  <2> QED BY <1>0, <2>1, <2>2, Undisturbed
<1>2. CASE c = fd[f] /\ Received(f, c)
  <2> DEFINE k == IF inq[c] < MAXLEN THEN inq[c] ELSE MAXLEN
  <2>1. k \in 1 .. MAXLEN /\ k =< inq[c]
    BY <1>0, <1>2, Constants DEF Received
  <2>2. /\ got' = [got EXCEPT ![c] = @ + k] /\ inq' = [inq EXCEPT ![c] = @ - k]
        /\ UNCHANGED served
    BY <1>2 DEF Received
  <2> HIDE DEF k
  <2>3. k =< Flight(c) /\ Moves(c, 0, -k, k)
    BY <1>0, <2>1, <2>2, Constants DEF Moves, Sent, Flight, IInv, Types
  <2>4. ~EndSeen(c) /\ ~EndSeen(c)' /\ State(c)' = State(c)
    BY <1>0, <1>2, <2>2 DEF State, EndSeen
  <2> QED BY <2>1, <2>3, <2>4, StreamRead
<1>3. CASE c = fd[f] /\ Failed(f, c)
  BY <1>0, <1>3, Undisturbed DEF Failed
<1>4. CASE c = fd[f] /\ Closed(f, c)
  <2>1. inq[c] = 0 /\ end[c] = "eof" /\ served' = served \cup {c} /\ UNCHANGED <<got, inq>>
    BY <1>4 DEF Closed
  <2>2. net[c] = 0 /\ (c \in cut \/ cpc[c] = "done")
    BY <2>1 DEF IInv, NetInv
  <2>3. Flight(c) = 0 /\ Moves(c, 0, 0, 0)
    BY <1>0, <2>1, <2>2, Constants DEF Moves, Sent, Flight
  <2>4. ~EndSeen(c) /\ EndSeen(c)' /\ State(c) # "open" /\ State(c)' = State(c)
    BY <1>0, <1>4, <2>1, <2>2 DEF State, EndSeen
  <2> QED BY <2>3, <2>4, StreamReadEnd
<1> QED BY <1>0, <1>1, <1>2, <1>3, <1>4

LEMMA EndSteps ==
    ASSUME NEW d \in Conns, IInv, Client(d) \/ ConnectFails(d) \/ Net(d) \/ Reset(d)
    PROVE  Connections!Next
<1> SUFFICES ASSUME NEW c \in Conns PROVE Connections!Step(c)
  BY DEF Connections!Next
<1>0. /\ net[c] \in Nat /\ inq[c] \in Nat /\ got[c] \in Nat /\ UNCHANGED <<got, served>>
      /\ EndSeen(c)' = EndSeen(c)
  BY DEF IInv, Types, Client, Net, Connect, ConnectFails, Send, Close, Arrive, ArriveFin, Reset, server, EndSeen
<1>1. CASE c # d
  <2>1. cpc'[c] = cpc[c] /\ net'[c] = net[c] /\ inq'[c] = inq[c]
    BY <1>1 DEF Client, Net, Connect, ConnectFails, Send, Close, Arrive, ArriveFin, Reset, Goto, network, IInv, Types
  <2>2. (c \in cut') = (c \in cut)
    BY <1>1 DEF Client, Net, Connect, ConnectFails, Send, Close, Arrive, ArriveFin, Reset, network
  <2> QED BY <1>0, <2>1, <2>2, Undisturbed
<1>2. CASE c = d /\ (Connect(c) \/ ConnectFails(c))
  <2>1. cpc[c] = "connect" /\ cpc'[c] \in {"send", "failure"} /\ UNCHANGED <<net, inq, cut>>
    BY <1>2 DEF Connect, ConnectFails, Goto, network, IInv, Types
  <2>2. c \notin cut
    BY <2>1 DEF IInv, NetInv, Connected
  <2>3. Moves(c, 0, 0, 0)
    BY <1>0, <2>1 DEF Moves, Sent, Flight
  <2>4. State(c) = "open" /\ State(c)' \in {"open", "closed"}
    BY <2>1, <2>2 DEF State
  <2> QED BY <1>0, <2>3, <2>4, StreamIdle, StreamClose
<1>3. CASE c = d /\ Send(c)
  <2>1. /\ cpc[c] = "send" /\ cpc'[c] = "close" /\ UNCHANGED <<inq, cut>>
        /\ net'[c] = IF end[c] = "open" THEN MAXLEN ELSE 0
    BY <1>3 DEF Send, Goto, IInv, Types
  <2>2. net[c] = 0 /\ (c \in cut <=> end[c] # "open") /\ MAXLEN \in 1 .. MAXLEN
    <3>1. net[c] = 0 /\ MAXLEN \in 1 .. MAXLEN
      BY <2>1, Constants DEF IInv, NetInv
    <3>2. end[c] \in {"open", "closing", "eof", "reset"}
      BY DEF IInv, Types
    <3> QED BY <2>1, <3>1, <3>2 DEF IInv, NetInv
  <2>3. CASE end[c] = "open"
    <3>1. State(c) = "open" /\ State(c)' = "open"
      BY <2>1, <2>2, <2>3 DEF State
    <3>2. Moves(c, MAXLEN, MAXLEN, 0)
      BY <1>0, <2>1, <2>2, <2>3 DEF Moves, Sent, Flight
    <3> QED BY <1>0, <2>2, <3>1, <3>2, StreamWrite
  <2>4. CASE end[c] # "open"
    <3>1. State(c) = "broken" /\ State(c)' = "broken"
      BY <2>1, <2>2, <2>4 DEF State
    <3>2. Moves(c, MAXLEN, 0, 0)
      BY <1>0, <2>1, <2>2, <2>4 DEF Moves, Sent, Flight
    <3> QED BY <1>0, <2>2, <3>1, <3>2, StreamWriteLost
  <2> QED BY <2>3, <2>4
<1>4. CASE c = d /\ Close(c)
  <2>1. cpc[c] = "close" /\ cpc'[c] = "done" /\ UNCHANGED <<net, inq, cut>>
    BY <1>4 DEF Close, Goto, IInv, Types
  <2>2. Moves(c, 0, 0, 0)
    BY <1>0, <2>1, Constants DEF Moves, Sent, Flight
  <2>3. State(c)' = State(c) \/ (State(c) = "open" /\ State(c)' = "closed")
    BY <2>1 DEF State
  <2> QED BY <1>0, <2>2, <2>3, StreamIdle, StreamClose
<1>5. CASE c = d /\ Arrive(c)
  <2>1. PICK k \in 1 .. net[c] : net'[c] = net[c] - k /\ inq'[c] = inq[c] + k
    BY <1>5 DEF Arrive, IInv, Types
  <2>2. UNCHANGED <<cpc, cut>>
    BY <1>5 DEF Arrive
  <2>3. Moves(c, 0, 0, 0)
    BY <1>0, <2>1, <2>2, Constants DEF Moves, Sent, Flight
  <2>4. State(c)' = State(c)
    BY <2>2 DEF State
  <2> QED BY <1>0, <2>3, <2>4, StreamIdle
<1>6. CASE c = d /\ ArriveFin(c)
  BY <1>0, <1>6, Undisturbed DEF ArriveFin
<1>7. CASE c = d /\ Reset(c)
  <2>1. /\ end[c] \in {"open", "closing"} /\ cut' = cut \cup {c} /\ UNCHANGED <<cpc, inq>>
        /\ net'[c] = 0
    BY <1>7 DEF Reset, IInv, Types
  <2>2. c \notin cut
    BY <2>1 DEF IInv, NetInv
  <2>3. State(c) # "broken" /\ State(c)' = "broken"
    BY <2>1, <2>2 DEF State
  <2>4. net[c] \in 0 .. Flight(c) /\ Moves(c, 0, -net[c], 0)
    BY <1>0, <2>1, Constants DEF Moves, Sent, Flight
  <2> QED BY <1>0, <2>3, <2>4, StreamBreak
<1> QED BY <1>1, <1>2, <1>3, <1>4, <1>5, <1>6, <1>7 DEF Client, Net

LEMMA StreamStep == IInv /\ [Next]_vars => [Connections!Next]_(Connections!vars)
<1> SUFFICES ASSUME IInv, [Next]_vars PROVE [Connections!Next]_(Connections!vars)
  OBVIOUS
<1>1. CASE UNCHANGED vars
  BY <1>1 DEF vars, server, network, Connections!vars
<1>2. CASE Server \/ ServerFails
  BY <1>2, RoundSteps, UseFdSteps DEF Server
<1>3. ASSUME NEW c \in Conns, Client(c) \/ ConnectFails(c) \/ Net(c) \/ Reset(c) PROVE Connections!Next
  BY <1>3, EndSteps
<1> QED BY <1>1, <1>2, <1>3 DEF Next, Idle

\* Whichever descriptor stands for a connection and whoever had it before, the
\* server reads each byte of it once and closes it only at its end.
THEOREM TcpServerImplementsByteStreams == Spec => ConnectionsAreStreams
<1>1. Init => Connections!Init
  <2> SUFFICES ASSUME Init PROVE Connections!Init
    OBVIOUS
  <2>1. \A c \in Conns : c \notin served /\ c \notin cut /\ cpc[c] = "connect"
    BY DEF Init
  <2>2. [c \in Conns |-> IF cpc[c] \in {"close", "done"} THEN MAXLEN ELSE 0] = [c \in Conns |-> 0]
    BY <2>1
  <2>3. [c \in Conns |-> net[c] + inq[c]] = [c \in Conns |-> 0] /\ got = [c \in Conns |-> 0]
    BY DEF Init
  <2>4. [c \in Conns |-> IF c \in cut THEN "broken"
                         ELSE IF cpc[c] \in {"done", "failure"} THEN "closed" ELSE "open"]
            = [c \in Conns |-> "open"]
    BY <2>1
  <2>5. \A c \in Conns : (c \in served) = FALSE
    BY <2>1
  <2>6. [c \in Conns |-> c \in served] = [c \in Conns |-> FALSE]
    BY <2>5, Zenon
  <2> QED BY <2>2, <2>3, <2>4, <2>6 DEF Connections!Init
<1> QED BY <1>1, StreamStep, InvHolds, PTL DEF Spec, ConnectionsAreStreams, Connections!Spec
==============================================================================
