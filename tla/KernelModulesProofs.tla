------------------------- MODULE KernelModulesProofs -------------------------
(***************************************************************************)
(* The safety properties of the kernel modules and of the UDP programs,    *)
(* for every number of files, loads, sockets, slots, servers and clients.  *)
(* The scenes share no variable, so each has an invariant of its own.      *)
(***************************************************************************)
EXTENDS MCKernelModules, FiniteSetTheorems, SequenceTheorems, TLAPS

------------------------------------------------------------------------------
(***************************************************************************)
(* udp_server.c: what is under way is the whole message.                   *)
(***************************************************************************)
UdpInv ==
    /\ client \in [Clients -> {"new", "sent", "failed"}]
    /\ buf \in [Servers -> [1 .. BUF_LEN -> {Text, Nul, Junk}]]
    /\ DOMAIN printed = Servers
    /\ \A d \in net : d.from \in Clients /\ client[d.from] = "sent" /\ d.data = Message
    /\ \A s \in Servers :
        printed[s] = Nobody \/ (/\ printed[s].from \in Clients /\ client[printed[s].from] = "sent"
                                /\ printed[s].data = [k \in 1 .. BUF_LEN - 1 |-> Text])

LEMMA MessageIsText == String(Message) = [k \in 1 .. BUF_LEN - 1 |-> Text]
<1> DEFINE ends == {k \in DOMAIN Message : Message[k] = Nul}
<1>1. BUF_LEN \in Nat /\ BUF_LEN > 1 /\ Text # Nul
  BY UdpAssumption
<1>2. ends = {BUF_LEN}
  BY <1>1 DEF Message
<1>3. (CHOOSE e \in ends : \A x \in ends : e =< x) = BUF_LEN
  BY <1>1, <1>2
<1>4. \A k \in 1 .. BUF_LEN - 1 : Message[k] = Text
  BY <1>1 DEF Message
<1>5. String(Message) = [k \in 1 .. BUF_LEN - 1 |-> Message[k]]
  BY <1>2, <1>3 DEF String
<1> QED BY <1>4, <1>5

LEMMA UdpInitInv == UdpInit => UdpInv
  BY UdpAssumption DEF UdpInit, UdpInv, Nobody

LEMMA UdpStepInv == UdpInv /\ UdpNext => UdpInv'
<1> SUFFICES ASSUME UdpInv, UdpNext PROVE UdpInv'
  OBVIOUS
<1>1. ASSUME NEW c \in Clients, Sendto(c) PROVE UdpInv'
  <2>1. /\ client[c] = "new" /\ UNCHANGED <<buf, printed>>
        /\ client' \in [Clients -> {"new", "sent", "failed"}]
        /\ \A x \in Clients : client[x] = "sent" => client'[x] = "sent"
    BY <1>1 DEF Sendto, UdpInv
  <2>2. \A d \in net' : d \in net \/ (d = [from |-> c, data |-> Message] /\ client'[c] = "sent")
    BY <1>1 DEF Sendto, UdpInv
  <2>3. \A d \in net' : d.from \in Clients /\ client'[d.from] = "sent" /\ d.data = Message
    BY <2>1, <2>2 DEF UdpInv
  <2>4. \A s \in Servers :
          printed[s] # Nobody => /\ printed[s].from \in Clients /\ client'[printed[s].from] = "sent"
                                 /\ printed[s].data = [k \in 1 .. BUF_LEN - 1 |-> Text]
    BY <2>1 DEF UdpInv
  <2> QED BY <2>1, <2>3, <2>4 DEF UdpInv
<1>2. ASSUME NEW d \in net, Lose(d) PROVE UdpInv'
  BY <1>2 DEF Lose, UdpInv
<1>3. ASSUME NEW d \in net, NEW s \in Servers, Recvfrom(s, d) PROVE UdpInv'
  <2> DEFINE b == [k \in 1 .. BUF_LEN |-> IF k \in DOMAIN d.data THEN d.data[k] ELSE buf[s][k]]
  <2>1. /\ buf' = [buf EXCEPT ![s] = b] /\ net' \subseteq net /\ UNCHANGED client
        /\ printed' = [printed EXCEPT ![s] = [from |-> d.from, data |-> String(buf'[s])]]
    BY <1>3 DEF Recvfrom
  <2>2. d.data = Message /\ d.from \in Clients /\ client[d.from] = "sent"
    BY DEF UdpInv
  <2>3. b = Message /\ b \in [1 .. BUF_LEN -> {Text, Nul, Junk}]
    BY <2>2 DEF Message
  <2> HIDE DEF b
  <2>4. buf'[s] = Message /\ buf' \in [Servers -> [1 .. BUF_LEN -> {Text, Nul, Junk}]]
    BY <2>1, <2>3 DEF UdpInv
  <2>5. printed' = [printed EXCEPT ![s] = [from |-> d.from, data |-> [k \in 1 .. BUF_LEN - 1 |-> Text]]]
    BY <2>1, <2>4, MessageIsText
  <2>6. DOMAIN printed' = Servers /\ \A x \in Servers \ {s} : printed'[x] = printed[x]
    BY <2>5 DEF UdpInv
  <2>7. printed'[s].from = d.from /\ printed'[s].data = [k \in 1 .. BUF_LEN - 1 |-> Text]
    BY <2>5 DEF UdpInv
  <2>8. \A x \in Servers :
          printed'[x] # Nobody => /\ printed'[x].from \in Clients /\ client[printed'[x].from] = "sent"
                                  /\ printed'[x].data = [k \in 1 .. BUF_LEN - 1 |-> Text]
    BY <2>2, <2>6, <2>7 DEF UdpInv
  <2> QED BY <2>1, <2>4, <2>6, <2>8 DEF UdpInv
<1>4. ASSUME NEW s \in Servers, BindPort(s) \/ ServerEnd(s) PROVE UdpInv'
  BY <1>4 DEF BindPort, ServerEnd, UdpInv
<1> QED BY <1>1, <1>2, <1>3, <1>4 DEF UdpNext, UdpDone, udpvars, UdpInv

------------------------------------------------------------------------------
(***************************************************************************)
(* zudp.c: the order in which sockets were bound.                          *)
(*                                                                         *)
(* A chain leads from younger sockets to older ones.  L holds the sockets  *)
(* bound at some time since the walk began, r says when each was bound and *)
(* h in which slot; these are not in the program, and the invariant says   *)
(* that they exist.  A pointer of L, also that of a socket closed during   *)
(* the walk, leads to the youngest of the older sockets that are bound, or *)
(* to one that was closed later and is younger than those (Links).         *)
(***************************************************************************)
ZudpTypes ==
    /\ head \in [Slots -> Socks \cup {Mark}] /\ next \in [Socks -> Socks \cup {Mark}]
    /\ slot \in [Socks -> Slots \cup {-1}] /\ binds \in [Socks -> Nat]
    /\ wi \in Slots /\ node \in Socks \cup {Mark}
    /\ wpc \in {"out", "slot", "chain", "in"} /\ (wpc = "chain" => wi < mask)
    /\ listed \in [Socks -> Nat] /\ steady \subseteq Socks /\ reused \in BOOLEAN

Ages(n, r, L) ==
    /\ \A s \in L : r[s] < n /\ binds[s] > 0
    /\ \A s, t \in L : r[s] = r[t] => s = t

Homes(h, L) ==
    /\ \A s \in Socks : Bound(s) => s \in L /\ h[s] = slot[s]
    /\ wpc = "out" => \A s \in L : Bound(s)

Heads(r) ==
    \A i \in Slots :
        /\ head[i] # Mark => slot[head[i]] = i
        /\ \A s \in Socks : slot[s] = i => head[i] # Mark /\ r[s] =< r[head[i]]

Links(r, h, L) ==
    \A t \in L :
        /\ next[t] # Mark => /\ next[t] \in L /\ h[next[t]] = h[t] /\ r[next[t]] < r[t]
                             /\ Bound(t) => Bound(next[t])
        /\ \A s \in Socks :
            slot[s] = h[t] /\ r[s] < r[t] => next[t] # Mark /\ r[s] =< r[next[t]]

\* The walk has been at s.
Passed(r, s) ==
    slot[s] < wi \/ (slot[s] = wi /\ wpc = "chain" /\ (node = Mark \/ r[node] < r[s]))

Walked(r, h, L) ==
    /\ wpc = "chain" /\ node # Mark => node \in L /\ h[node] = wi
    /\ \A s \in steady : listed[s] = IF wpc # "out" /\ Passed(r, s) THEN 1 ELSE 0

Ordered(n, r, h, L) ==
    Ages(n, r, L) /\ Homes(h, L) /\ Heads(r) /\ Links(r, h, L) /\ Walked(r, h, L)

SteadyInv ==
    /\ \A s \in steady : Bound(s)
    /\ wpc = "out" => steady = {} /\ \A s \in Socks : listed[s] = 0
    /\ wpc = "in" => \A s \in steady : slot[s] < mask => listed[s] = 1

ZudpInv ==
    /\ ZudpTypes
    /\ ~reused =>
        /\ SteadyInv
        /\ wpc # "in" =>
            \E n \in Nat, r \in [Socks -> Nat], h \in [Socks -> Slots], L \in SUBSET Socks :
                Ordered(n, r, h, L)

LEMMA ZudpConstants ==
    /\ mask \in Nat \ {0} /\ Mark \notin Socks /\ IsFiniteSet(Socks) /\ -1 \notin Slots
    /\ 0 \in Slots /\ \A i \in Slots : i \in Nat /\ i =< mask
  BY ZudpAssumption DEF Slots

\* A slot that counts no sockets has none.
LEMMA CountZero == ASSUME NEW i, ~(Count(i) > 0) PROVE \A s \in Socks : slot[s] # i
<1> DEFINE S == {s \in Socks : slot[s] = i}
<1>1. IsFiniteSet(S)
  BY ZudpConstants, FS_Subset
<1>2. Cardinality(S) \in Nat /\ (Cardinality(S) = 0 <=> S = {})
  BY <1>1, FS_CardinalityType, FS_EmptySet
<1> QED BY <1>2 DEF Count

LEMMA ZudpInitInv == ZudpInit => ZudpInv
<1> SUFFICES ASSUME ZudpInit PROVE ZudpInv
  OBVIOUS
<1>1. ZudpTypes
  BY ZudpConstants DEF ZudpInit, ZudpTypes
<1>2. \A s \in Socks : ~Bound(s) /\ slot[s] \notin Slots
  BY ZudpConstants DEF ZudpInit, Bound
<1>3. SteadyInv
  BY DEF ZudpInit, SteadyInv
<1> DEFINE r == [s \in Socks |-> 0]  h == [s \in Socks |-> 0]
<1>4. r \in [Socks -> Nat] /\ h \in [Socks -> Slots] /\ {} \in SUBSET Socks
  BY ZudpConstants
<1> HIDE DEF r, h
<1>5. Ordered(0, r, h, {})
  BY <1>2 DEF ZudpInit, Ordered, Ages, Homes, Heads, Links, Walked
<1> QED BY <1>1, <1>3, <1>4, <1>5 DEF ZudpInv

\* The socket bound is the youngest of all.
LEMMA BindInv == ASSUME NEW s \in Socks, NEW i \in Slots PROVE ZudpInv /\ Bind(s, i) => ZudpInv'
<1> SUFFICES ASSUME ZudpInv, Bind(s, i) PROVE ZudpInv'
  OBVIOUS
<1>1. /\ slot[s] = -1 /\ head' = [head EXCEPT ![i] = s] /\ next' = [next EXCEPT ![s] = head[i]]
      /\ slot' = [slot EXCEPT ![s] = i] /\ binds' = [binds EXCEPT ![s] = @ + 1]
      /\ reused' = (reused \/ (wpc \in {"slot", "chain"} /\ binds[s] > 0))
      /\ UNCHANGED <<wi, node, wpc, listed, steady>>
  BY DEF Bind, Bound
<1>2. ZudpTypes'
  <2>1. reused' \in BOOLEAN
    BY <1>1
  <2> QED BY <1>1, <2>1 DEF ZudpInv, ZudpTypes
<1> SUFFICES ASSUME ~reused'
             PROVE  /\ SteadyInv'
                    /\ wpc # "in" =>
                        \E n \in Nat, r \in [Socks -> Nat], h \in [Socks -> Slots], L \in SUBSET Socks :
                            Ordered(n, r, h, L)'
  BY <1>1, <1>2 DEF ZudpInv
<1>3. ~reused /\ (wpc \in {"slot", "chain"} => ~(binds[s] > 0))
  BY <1>1
<1>4. /\ slot'[s] = i /\ i # -1 /\ next'[s] = head[i] /\ head'[i] = s /\ binds'[s] > 0
      /\ \A t \in Socks \ {s} : slot'[t] = slot[t] /\ next'[t] = next[t] /\ binds'[t] = binds[t]
      /\ \A j \in Slots \ {i} : head'[j] = head[j]
  BY <1>1, ZudpConstants DEF ZudpInv, ZudpTypes
<1>5. s \notin steady /\ SteadyInv'
  BY <1>1, <1>3, <1>4 DEF ZudpInv, ZudpTypes, SteadyInv, Bound
<1>6. ASSUME wpc # "in"
      PROVE  \E n \in Nat, r \in [Socks -> Nat], h \in [Socks -> Slots], L \in SUBSET Socks :
                 Ordered(n, r, h, L)'
  <2>1. PICK n \in Nat, r \in [Socks -> Nat], h \in [Socks -> Slots], L \in SUBSET Socks :
           Ordered(n, r, h, L)
    BY <1>3, <1>6 DEF ZudpInv
  <2>2. s \notin L
    BY <1>1, <1>3, <1>6, <2>1 DEF Ordered, Ages, Homes, Bound, ZudpInv, ZudpTypes
  <2> DEFINE q == [r EXCEPT ![s] = n]  g == [h EXCEPT ![s] = i]  M == L \cup {s}
  <2>3. /\ q \in [Socks -> Nat] /\ g \in [Socks -> Slots] /\ M \in SUBSET Socks /\ n + 1 \in Nat
        /\ q[s] = n /\ g[s] = i /\ \A t \in Socks \ {s} : q[t] = r[t] /\ g[t] = h[t]
        /\ \A t \in Socks : r[t] \in Nat
    OBVIOUS
  <2> HIDE DEF q, g
  <2>4. \A t \in L : t # s /\ t \in Socks /\ q[t] = r[t] /\ g[t] = h[t] /\ r[t] < n
    BY <2>1, <2>2, <2>3 DEF Ordered, Ages
  <2>5. \A t \in Socks : slot[t] \in Slots => t \in L
    BY <2>1, ZudpConstants DEF Ordered, Homes, Bound
  <2>6. head[i] # Mark => head[i] \in L /\ h[head[i]] = i /\ slot[head[i]] = i
    BY <2>1, <2>5, ZudpConstants DEF Ordered, Homes, Heads, Bound, ZudpInv, ZudpTypes
  <2>7. Ages(n + 1, q, M)'
    <3>1. \A t \in M : q[t] < n + 1 /\ binds'[t] > 0
      BY <1>4, <2>1, <2>3, <2>4 DEF Ordered, Ages
    <3>2. \A t, u \in M : q[t] = q[u] => t = u
      BY <2>1, <2>3, <2>4 DEF Ordered, Ages
    <3> QED BY <3>1, <3>2 DEF Ages
  <2>8. Homes(g, M)'
    BY <1>1, <1>4, <2>1, <2>3, <2>4 DEF Ordered, Homes, Bound
  <2>9. Heads(q)'
    BY <1>4, <2>1, <2>3, <2>4, <2>5, ZudpConstants DEF Ordered, Heads, ZudpInv, ZudpTypes
  <2>10. Links(q, g, M)'
    <3> SUFFICES ASSUME NEW t \in M
                 PROVE  /\ next'[t] # Mark => /\ next'[t] \in M /\ g[next'[t]] = g[t] /\ q[next'[t]] < q[t]
                                              /\ slot'[t] # -1 => slot'[next'[t]] # -1
                        /\ \A u \in Socks : slot'[u] = g[t] /\ q[u] < q[t] =>
                              next'[t] # Mark /\ q[u] =< q[next'[t]]
      BY DEF Links, Bound
    <3>1. CASE t = s
      <4>1. next'[t] # Mark => /\ next'[t] \in L /\ g[next'[t]] = g[t] /\ q[next'[t]] < q[t]
                               /\ slot'[next'[t]] # -1
        BY <1>4, <2>3, <2>4, <2>6, <3>1, ZudpConstants
      <4>2. ASSUME NEW u \in Socks, slot'[u] = g[t], q[u] < q[t]
            PROVE  next'[t] # Mark /\ q[u] =< q[next'[t]]
        <5>1. u # s /\ slot[u] = i
          BY <1>4, <2>3, <3>1, <4>2
        <5> QED BY <1>4, <2>1, <2>3, <2>4, <2>6, <3>1, <5>1 DEF Ordered, Heads
      <4> QED BY <4>1, <4>2
    <3>2. CASE t \in L
      <4>1. next'[t] = next[t] /\ t # s /\ t \in Socks /\ q[t] = r[t] /\ g[t] = h[t] /\ slot'[t] = slot[t]
        BY <1>4, <2>4, <3>2
      <4>2. next[t] # Mark => /\ next[t] \in L /\ h[next[t]] = h[t] /\ r[next[t]] < r[t]
                              /\ slot[t] # -1 => slot[next[t]] # -1
        BY <2>1, <3>2 DEF Ordered, Links, Bound
      <4>3. next[t] # Mark => slot'[next[t]] = slot[next[t]] /\ q[next[t]] = r[next[t]] /\ g[next[t]] = h[next[t]]
        BY <1>4, <2>4, <4>2
      <4>4. ASSUME NEW u \in Socks, slot'[u] = g[t], q[u] < q[t]
            PROVE  next'[t] # Mark /\ q[u] =< q[next'[t]]
        <5>1. u # s
          BY <2>3, <2>4, <3>2, <4>1, <4>4
        <5>2. slot[u] = h[t] /\ r[u] < r[t] /\ q[u] = r[u]
          BY <1>4, <2>3, <4>1, <4>4, <5>1
        <5>3. next[t] # Mark /\ r[u] =< r[next[t]]
          BY <2>1, <3>2, <5>2 DEF Ordered, Links
        <5> QED BY <4>1, <4>3, <5>2, <5>3
      <4> QED BY <4>1, <4>2, <4>3, <4>4
    <3> QED BY <3>1, <3>2
  <2>11. Walked(q, g, M)'
    <3>1. wpc = "chain" /\ node # Mark => node \in L /\ h[node] = wi
      BY <2>1 DEF Ordered, Walked
    <3>2. wpc' = "chain" /\ node' # Mark => node' \in M /\ g[node'] = wi'
      BY <1>1, <2>4, <3>1
    <3>3. ASSUME NEW t \in steady PROVE Passed(q, t)' = Passed(r, t)
      <4>1. t # s /\ t \in Socks /\ slot'[t] = slot[t] /\ q[t] = r[t]
        BY <1>4, <1>5, <2>3 DEF ZudpInv, ZudpTypes
      <4>2. wpc = "chain" /\ node # Mark => q[node] = r[node]
        BY <2>4, <3>1
      <4> QED BY <1>1, <4>1, <4>2 DEF Passed
    <3> QED BY <1>1, <2>1, <3>2, <3>3 DEF Ordered, Walked
  <2>12. Ordered(n + 1, q, g, M)'
    BY <2>7, <2>8, <2>9, <2>10, <2>11 DEF Ordered
  <2> QED BY <2>3, <2>12
<1> QED BY <1>5, <1>6

\* A closed socket keeps its pointer; those that are bound no longer lead to it.
LEMMA CloseSockInv == ASSUME NEW s \in Socks PROVE ZudpInv /\ CloseSock(s) => ZudpInv'
<1> SUFFICES ASSUME ZudpInv, CloseSock(s) PROVE ZudpInv'
  OBVIOUS
<1>1. /\ slot[s] # -1 /\ head' = [i \in Slots |-> IF head[i] = s THEN next[s] ELSE head[i]]
      /\ next' = [t \in Socks |-> IF slot[t] # -1 /\ next[t] = s THEN next[s] ELSE next[t]]
      /\ slot' = [slot EXCEPT ![s] = -1] /\ steady' = steady \ {s}
      /\ UNCHANGED <<binds, wi, node, wpc, listed, reused>>
  BY DEF CloseSock, Bound
<1>2. ZudpTypes'
  BY <1>1 DEF ZudpInv, ZudpTypes
<1>3. slot'[s] = -1 /\ \A t \in Socks \ {s} : slot'[t] = slot[t]
  BY <1>1 DEF ZudpInv, ZudpTypes
<1>4. ASSUME ~reused PROVE SteadyInv'
  BY <1>1, <1>3, <1>4 DEF ZudpInv, ZudpTypes, SteadyInv, Bound
<1>5. ASSUME ~reused, wpc # "in"
      PROVE  \E n \in Nat, r \in [Socks -> Nat], h \in [Socks -> Slots], L \in SUBSET Socks :
                 Ordered(n, r, h, L)'
  <2>1. PICK n \in Nat, r \in [Socks -> Nat], h \in [Socks -> Slots], L \in SUBSET Socks :
           Ordered(n, r, h, L)
    BY <1>5 DEF ZudpInv
  <2>2. PICK M \in SUBSET Socks :
          /\ M \subseteq L /\ (\A t \in L : t # s => t \in M)
          /\ s \in M => wpc # "out"
          /\ wpc # "out" => M = L
    <3>1. CASE wpc = "out"
      <4>1. L \ {s} \in SUBSET Socks /\ L \ {s} \subseteq L
        OBVIOUS
      <4> QED BY <3>1, <4>1
    <3>2. CASE wpc # "out"
      BY <3>2
    <3> QED BY <3>1, <3>2
  <2>3. /\ \A t \in Socks : r[t] \in Nat /\ h[t] \in Slots
        /\ \A t \in Socks : slot[t] # -1 => t \in L /\ h[t] = slot[t]
        /\ wpc = "out" => \A t \in L : slot[t] # -1
        /\ \A t, u \in L : r[t] = r[u] => t = u
    BY <2>1 DEF Ordered, Homes, Ages, Bound
  <2>4. ASSUME NEW t \in L
        PROVE  /\ t \in Socks
               /\ next[t] # Mark => /\ next[t] \in L /\ h[next[t]] = h[t] /\ r[next[t]] < r[t]
                                    /\ slot[t] # -1 => slot[next[t]] # -1
               /\ \A u \in Socks : slot[u] = h[t] /\ r[u] < r[t] =>
                      next[t] # Mark /\ r[u] =< r[next[t]]
    BY <2>1 DEF Ordered, Links, Bound
  <2>5. Ages(n, r, M)'
    BY <1>1, <2>1, <2>2 DEF Ordered, Ages
  <2>6. Homes(h, M)'
    BY <1>1, <1>3, <2>2, <2>3 DEF Homes, Bound
  <2>7. Heads(r)'
    <3> SUFFICES ASSUME NEW i \in Slots
                 PROVE  /\ head'[i] # Mark => slot'[head'[i]] = i
                        /\ \A u \in Socks : slot'[u] = i => head'[i] # Mark /\ r[u] =< r[head'[i]]
      BY DEF Heads
    <3>1. /\ head[i] # Mark => slot[head[i]] = i /\ head[i] \in Socks
          /\ \A u \in Socks : slot[u] = i => head[i] # Mark /\ r[u] =< r[head[i]]
      BY <2>1 DEF Ordered, Heads, ZudpInv, ZudpTypes
    <3>2. \A u \in Socks : slot'[u] = i => u # s /\ slot[u] = i
      BY <1>3, ZudpConstants
    <3>3. CASE head[i] # s
      <4>1. head'[i] = head[i]
        BY <1>1, <3>3
      <4> QED BY <1>3, <3>1, <3>2, <3>3, <4>1
    <3>4. CASE head[i] = s
      <4>1. head'[i] = next[s] /\ slot[s] = i /\ s \in L /\ h[s] = i
        BY <1>1, <2>3, <3>1, <3>4, ZudpConstants
      <4>2. next[s] # Mark => slot[next[s]] = i /\ next[s] \in L /\ next[s] # s
        BY <1>1, <2>3, <2>4, <4>1
      <4>3. ASSUME NEW u \in Socks, slot'[u] = i PROVE next[s] # Mark /\ r[u] =< r[next[s]]
        <5>1. u # s /\ slot[u] = i /\ u \in L /\ r[u] =< r[s]
          BY <2>3, <3>1, <3>2, <3>4, <4>3, ZudpConstants
        <5>2. r[u] < r[s]
          BY <2>3, <4>1, <5>1
        <5> QED BY <2>4, <4>1, <5>1, <5>2
      <4> QED BY <1>3, <4>1, <4>2, <4>3
    <3> QED BY <3>3, <3>4
  <2>8. Links(r, h, M)'
    <3> SUFFICES ASSUME NEW t \in M
                 PROVE  /\ next'[t] # Mark => /\ next'[t] \in M /\ h[next'[t]] = h[t] /\ r[next'[t]] < r[t]
                                              /\ slot'[t] # -1 => slot'[next'[t]] # -1
                        /\ \A u \in Socks : slot'[u] = h[t] /\ r[u] < r[t] =>
                              next'[t] # Mark /\ r[u] =< r[next'[t]]
      BY DEF Links, Bound
    <3>1. t \in L /\ t \in Socks
      BY <2>2
    <3>2. \A u \in Socks : slot'[u] = h[t] => u # s /\ slot[u] = h[t] /\ u \in L
      BY <1>3, <2>3, <3>1, ZudpConstants
    <3>3. CASE slot[t] # -1 /\ next[t] = s
      <4>1. next'[t] = next[s] /\ s \in L /\ s # Mark /\ h[s] = h[t] /\ r[s] < r[t]
        BY <1>1, <2>4, <3>1, <3>3, ZudpConstants
      <4>2. next[s] # Mark => /\ next[s] \in L /\ h[next[s]] = h[s] /\ r[next[s]] < r[s]
                              /\ slot[next[s]] # -1
        BY <1>1, <2>4, <4>1
      <4>3. next[s] # Mark => next[s] # s /\ next[s] \in M /\ slot'[next[s]] # -1 /\ r[next[s]] < r[t]
        BY <1>3, <2>2, <2>3, <3>1, <4>1, <4>2
      <4>4. ASSUME NEW u \in Socks, slot'[u] = h[t], r[u] < r[t]
            PROVE  next[s] # Mark /\ r[u] =< r[next[s]]
        <5>1. u # s /\ u \in L /\ slot[u] = h[t]
          BY <3>2, <4>4
        <5>2. r[u] =< r[s]
          BY <2>4, <3>1, <3>3, <4>4, <5>1
        <5>3. r[u] < r[s]
          BY <2>3, <4>1, <5>1, <5>2
        <5> QED BY <2>4, <4>1, <5>1, <5>3
      <4> QED BY <4>1, <4>2, <4>3, <4>4
    <3>4. CASE ~(slot[t] # -1 /\ next[t] = s)
      <4>1. next'[t] = next[t]
        BY <1>1, <3>1, <3>4
      <4>2. next[t] # Mark => next[t] \in M
        BY <2>2, <2>3, <2>4, <3>1, <3>4
      <4>3. next[t] # Mark /\ slot'[t] # -1 => slot'[next[t]] # -1
        BY <1>3, <2>4, <3>1, <3>4
      <4>4. \A u \in Socks : slot'[u] = h[t] /\ r[u] < r[t] => next[t] # Mark /\ r[u] =< r[next[t]]
        BY <2>4, <3>1, <3>2
      <4> QED BY <2>4, <3>1, <4>1, <4>2, <4>3, <4>4
    <3> QED BY <3>3, <3>4
  <2>9. Walked(r, h, M)'
    <3>1. wpc' = "chain" /\ node' # Mark => node' \in M /\ h[node'] = wi'
      BY <1>1, <2>1, <2>2 DEF Ordered, Walked
    <3>2. ASSUME NEW t \in steady' PROVE t \in steady /\ Passed(r, t)' = Passed(r, t)
      <4>1. t \in steady /\ slot'[t] = slot[t]
        BY <1>1, <1>3, <3>2 DEF ZudpInv, ZudpTypes
      <4> QED BY <1>1, <4>1 DEF Passed
    <3> QED BY <1>1, <2>1, <3>1, <3>2 DEF Ordered, Walked
  <2>10. Ordered(n, r, h, M)'
    BY <2>5, <2>6, <2>7, <2>8, <2>9 DEF Ordered
  <2> QED BY <2>2, <2>10
<1> QED BY <1>1, <1>2, <1>4, <1>5 DEF ZudpInv

\* The steps of zudp_init: the table and the sockets stay, and with them all
\* but Walked.
LEMMA TableKept ==
    ASSUME NEW n, NEW r, NEW h, NEW L, Ordered(n, r, h, L), UNCHANGED table,
           wpc' = "out" => wpc = "out", Walked(r, h, L)'
    PROVE  Ordered(n, r, h, L)'
<1>1. Ages(n, r, L)' /\ Heads(r)'
  BY DEF Ordered, Ages, Heads, table
<1>2. Homes(h, L)' /\ Links(r, h, L)'
  BY DEF Ordered, Homes, Links, Bound, table
<1> QED BY <1>1, <1>2 DEF Ordered

LEMMA ZudpInsmodInv == ZudpInv /\ ZudpInsmod => ZudpInv'
<1> SUFFICES ASSUME ZudpInv, ZudpInsmod PROVE ZudpInv'
  OBVIOUS
<1>1. /\ wpc = "out" /\ wpc' = "slot" /\ wi' = 0 /\ steady' = {s \in Socks : Bound(s)}
      /\ UNCHANGED <<head, next, slot, binds, node, listed, reused>> /\ UNCHANGED table
  BY DEF ZudpInsmod, table
<1>2. ZudpTypes'
  BY <1>1, ZudpConstants DEF ZudpInv, ZudpTypes
<1>3. ASSUME ~reused PROVE SteadyInv'
  BY <1>1 DEF SteadyInv, Bound
<1>4. ASSUME ~reused
      PROVE  \E n \in Nat, r \in [Socks -> Nat], h \in [Socks -> Slots], L \in SUBSET Socks :
                 Ordered(n, r, h, L)'
  <2>1. PICK n \in Nat, r \in [Socks -> Nat], h \in [Socks -> Slots], L \in SUBSET Socks :
           Ordered(n, r, h, L)
    BY <1>1, <1>4 DEF ZudpInv
  <2>2. ASSUME NEW s \in steady' PROVE listed[s] = 0 /\ ~Passed(r, s)'
    <3>1. listed[s] = 0 /\ slot[s] \in Slots
      BY <1>1, <1>4, <2>2 DEF ZudpInv, ZudpTypes, SteadyInv, Bound
    <3> QED BY <1>1, <3>1, ZudpConstants DEF Passed
  <2>3. Walked(r, h, L)'
    BY <1>1, <2>2 DEF Walked
  <2> QED BY <1>1, <2>1, <2>3, TableKept
<1> QED BY <1>1, <1>2, <1>3, <1>4 DEF ZudpInv

LEMMA WalkSlotInv == ZudpInv /\ WalkSlot => ZudpInv'
<1> SUFFICES ASSUME ZudpInv, WalkSlot PROVE ZudpInv'
  OBVIOUS
<1>1. /\ wpc = "slot" /\ UNCHANGED <<head, next, slot, binds, listed, steady, reused>>
      /\ UNCHANGED table /\ wi \in Slots /\ wi \in Nat /\ wi =< mask /\ mask \in Nat
  BY ZudpConstants DEF WalkSlot, table, ZudpInv, ZudpTypes
<1>2. \A s \in steady : s \in Socks
  BY DEF ZudpInv, ZudpTypes
<1>3. CASE wi = mask
  <2>1. wpc' = "in" /\ UNCHANGED <<wi, node>>
    BY <1>3 DEF WalkSlot
  <2>2. ASSUME ~reused PROVE SteadyInv'
    <3>1. PICK n \in Nat, r \in [Socks -> Nat], h \in [Socks -> Slots], L \in SUBSET Socks :
             Ordered(n, r, h, L)
      BY <1>1, <2>2 DEF ZudpInv
    <3>2. \A s \in steady : slot[s] < mask => listed[s] = 1
      BY <1>1, <1>3, <3>1 DEF Ordered, Walked, Passed
    <3> QED BY <1>1, <2>1, <2>2, <3>2 DEF ZudpInv, SteadyInv, Bound
  <2>3. ZudpTypes'
    BY <1>1, <2>1 DEF ZudpInv, ZudpTypes
  <2> QED BY <1>1, <2>1, <2>2, <2>3 DEF ZudpInv
<1>4. CASE wi # mask
  <2>1. \/ wpc' = "chain" /\ node' = head[wi] /\ UNCHANGED wi
        \/ ~(Count(wi) > 0) /\ wi' = wi + 1 /\ UNCHANGED <<wpc, node>>
    BY <1>4 DEF WalkSlot
  <2>2. ZudpTypes'
    BY <1>1, <1>4, <2>1 DEF ZudpInv, ZudpTypes, Slots
  <2>3. ASSUME ~reused PROVE SteadyInv'
    BY <1>1, <2>1, <2>3 DEF ZudpInv, SteadyInv, Bound
  <2>4. ASSUME ~reused
        PROVE  \E n \in Nat, r \in [Socks -> Nat], h \in [Socks -> Slots], L \in SUBSET Socks :
                   Ordered(n, r, h, L)'
    <3>1. PICK n \in Nat, r \in [Socks -> Nat], h \in [Socks -> Slots], L \in SUBSET Socks :
             Ordered(n, r, h, L)
      BY <1>1, <2>4 DEF ZudpInv
    <3>2. \A s \in steady : listed[s] = IF slot[s] < wi THEN 1 ELSE 0
      BY <1>1, <3>1 DEF Ordered, Walked, Passed
    <3>3. \A s \in steady : slot[s] \in Slots /\ slot[s] \in Int /\ s \in L /\ h[s] = slot[s]
      <4>1. \A s \in steady : Bound(s)
        BY <2>4 DEF ZudpInv, SteadyInv
      <4> QED BY <1>2, <3>1, <4>1, ZudpConstants DEF Ordered, Homes, Bound, ZudpInv, ZudpTypes
    <3>4. CASE wpc' = "chain" /\ node' = head[wi] /\ UNCHANGED wi
      <4>1. head[wi] # Mark => slot[head[wi]] = wi /\ head[wi] \in Socks
        BY <1>1, <3>1 DEF Ordered, Heads, ZudpInv, ZudpTypes
      <4>2. head[wi] # Mark => head[wi] \in L /\ h[head[wi]] = wi
        BY <1>1, <3>1, <4>1, ZudpConstants DEF Ordered, Homes, Bound
      <4>3. ASSUME NEW s \in steady, slot[s] = wi PROVE head[wi] # Mark /\ ~(r[head[wi]] < r[s])
        <5>1. head[wi] # Mark /\ r[s] =< r[head[wi]]
          BY <1>1, <1>2, <3>1, <4>3 DEF Ordered, Heads
        <5>2. r[s] \in Nat /\ r[head[wi]] \in Nat
          BY <1>2, <4>1, <5>1
        <5> QED BY <5>1, <5>2
      <4>4. \A s \in steady : Passed(r, s)' <=> slot[s] < wi
        BY <1>1, <3>3, <3>4, <4>3 DEF Passed
      <4>5. Walked(r, h, L)'
        BY <1>1, <3>2, <3>4, <4>2, <4>4 DEF Walked
      <4> QED BY <1>1, <3>1, <3>4, <4>5, TableKept
    <3>5. CASE ~(Count(wi) > 0) /\ wi' = wi + 1 /\ UNCHANGED <<wpc, node>>
      <4>1. \A s \in Socks : slot[s] # wi
        BY <3>5, CountZero
      <4>2. \A s \in steady : Passed(r, s)' <=> slot[s] < wi
        BY <1>1, <1>2, <3>3, <3>5, <4>1 DEF Passed
      <4>3. Walked(r, h, L)'
        BY <1>1, <3>2, <3>5, <4>2 DEF Walked
      <4> QED BY <1>1, <3>1, <3>5, <4>3, TableKept
    <3> QED BY <2>1, <3>4, <3>5
  <2> QED BY <1>1, <2>2, <2>3, <2>4 DEF ZudpInv
<1> QED BY <1>3, <1>4

LEMMA WalkSocketInv == ZudpInv /\ WalkSocket => ZudpInv'
<1> SUFFICES ASSUME ZudpInv, WalkSocket PROVE ZudpInv'
  OBVIOUS
<1>1. /\ wpc = "chain" /\ UNCHANGED <<head, next, slot, binds, steady, reused>> /\ UNCHANGED table
      /\ wi \in Nat /\ mask \in Nat /\ wi < mask
      /\ \/ node = Mark /\ wpc' = "slot" /\ wi' = wi + 1 /\ UNCHANGED <<node, listed>>
         \/ /\ node # Mark /\ node \in Socks /\ UNCHANGED <<wpc, wi>>
            /\ listed' = [listed EXCEPT ![node] = @ + 1] /\ node' = next[node]
  BY ZudpConstants DEF WalkSocket, table, ZudpInv, ZudpTypes
<1>2. ZudpTypes'
  <2>1. CASE node = Mark
    BY <1>1, <2>1 DEF ZudpInv, ZudpTypes, Slots
  <2>2. CASE node # Mark
    BY <1>1, <2>2 DEF ZudpInv, ZudpTypes
  <2> QED BY <2>1, <2>2
<1>3. ASSUME ~reused PROVE SteadyInv'
  BY <1>1, <1>3 DEF ZudpInv, SteadyInv, Bound
<1>4. ASSUME ~reused
      PROVE  \E n \in Nat, r \in [Socks -> Nat], h \in [Socks -> Slots], L \in SUBSET Socks :
                 Ordered(n, r, h, L)'
  <2>1. PICK n \in Nat, r \in [Socks -> Nat], h \in [Socks -> Slots], L \in SUBSET Socks :
           Ordered(n, r, h, L)
    BY <1>1, <1>4 DEF ZudpInv
  <2>2. ASSUME NEW s \in steady
        PROVE  /\ s \in Socks /\ slot[s] \in Nat /\ s \in L /\ h[s] = slot[s] /\ r[s] \in Nat
               /\ listed[s] = IF Passed(r, s) THEN 1 ELSE 0
    <3>1. s \in Socks /\ Bound(s)
      BY <1>4 DEF ZudpInv, SteadyInv, ZudpTypes
    <3>2. slot[s] \in Nat
      BY <3>1, ZudpConstants DEF Bound, ZudpInv, ZudpTypes
    <3> QED BY <1>1, <2>1, <3>1, <3>2 DEF Ordered, Homes, Walked
  <2>3. CASE node = Mark
    <3>1. \A s \in steady : Passed(r, s)' <=> Passed(r, s)
      BY <1>1, <2>2, <2>3 DEF Passed
    <3>2. Walked(r, h, L)'
      BY <1>1, <2>2, <2>3, <3>1 DEF Walked
    <3> QED BY <1>1, <2>1, <2>3, <3>2, TableKept
  <2>4. CASE node # Mark
    <3>1. node \in L /\ h[node] = wi /\ r[node] \in Nat
      BY <1>1, <2>1, <2>4 DEF Ordered, Walked
    <3>2. /\ next[node] # Mark => /\ next[node] \in L /\ h[next[node]] = wi /\ r[next[node]] < r[node]
                                  /\ r[next[node]] \in Nat
          /\ \A s \in Socks :
                slot[s] = wi /\ r[s] < r[node] => next[node] # Mark /\ r[s] =< r[next[node]]
      BY <2>1, <3>1 DEF Ordered, Links
    <3>3. /\ listed'[node] = listed[node] + 1
          /\ \A s \in Socks : s # node => listed'[s] = listed[s]
      BY <1>1, <2>4 DEF ZudpInv, ZudpTypes
    <3>4. ASSUME NEW s \in steady PROVE listed'[s] = IF Passed(r, s)' THEN 1 ELSE 0
      <4>1. CASE slot[s] # wi
        <5>1. s # node /\ (Passed(r, s)' <=> Passed(r, s))
          BY <1>1, <2>2, <2>4, <3>1, <4>1 DEF Passed
        <5> QED BY <2>2, <3>3, <5>1
      <4>2. CASE s = node
        <5>1. ~Passed(r, s) /\ Passed(r, s)'
          BY <1>1, <2>2, <2>4, <3>1, <3>2, <4>2 DEF Passed
        <5> QED BY <2>2, <3>3, <4>2, <5>1
      <4>3. CASE slot[s] = wi /\ s # node
        <5>1. r[s] # r[node]
          BY <2>1, <2>2, <3>1, <4>3 DEF Ordered, Ages
        <5>2. CASE r[node] < r[s]
          <6>1. Passed(r, s) /\ Passed(r, s)'
            BY <1>1, <2>2, <2>4, <3>1, <3>2, <4>3, <5>2 DEF Passed
          <6> QED BY <2>2, <3>3, <4>3, <6>1
        <5>3. CASE r[s] < r[node]
          <6>1. ~Passed(r, s)
            BY <1>1, <2>2, <2>4, <3>1, <4>3, <5>3 DEF Passed
          <6>2. ~Passed(r, s)'
            BY <1>1, <2>2, <2>4, <3>1, <3>2, <4>3, <5>3 DEF Passed
          <6> QED BY <2>2, <3>3, <4>3, <6>1, <6>2
        <5> QED BY <2>2, <3>1, <5>1, <5>2, <5>3
      <4> QED BY <4>1, <4>2, <4>3
    <3>5. Walked(r, h, L)'
      BY <1>1, <2>4, <3>2, <3>4 DEF Walked
    <3> QED BY <1>1, <2>1, <2>4, <3>5, TableKept
  <2> QED BY <2>3, <2>4
<1> QED BY <1>1, <1>2, <1>3, <1>4 DEF ZudpInv

LEMMA ZudpKept == ZudpInv /\ UNCHANGED zudpvars => ZudpInv'
<1> SUFFICES ASSUME ZudpInv, UNCHANGED zudpvars PROVE ZudpInv'
  OBVIOUS
<1>1. ZudpTypes' /\ (~reused => SteadyInv')
  BY DEF ZudpInv, ZudpTypes, SteadyInv, Bound, zudpvars
<1>2. ASSUME NEW n, NEW r, NEW h, NEW L, Ordered(n, r, h, L) PROVE Ordered(n, r, h, L)'
  <2>1. Walked(r, h, L)'
    BY <1>2 DEF Ordered, Walked, Passed, zudpvars
  <2> QED BY <1>2, <2>1, TableKept DEF zudpvars, table
<1> QED BY <1>1, <1>2 DEF ZudpInv, zudpvars

LEMMA ZudpStepInv == ZudpInv /\ ZudpNext => ZudpInv'
  BY CloseSockInv, BindInv, ZudpInsmodInv, WalkSlotInv, WalkSocketInv, ZudpKept DEF ZudpNext, ZudpDone

------------------------------------------------------------------------------
(***************************************************************************)
(* insmod and rmmod: todo is what is left of the init or exit function of  *)
(* the module (Place), a load has at most what it has acquired so far and, *)
(* while it is unloaded, what is still to be given back or is never given  *)
(* back (HaveInv), and an open file keeps its entry (UsersInv).            *)
(***************************************************************************)
Steps == IF mod = "init" THEN init ELSE exit
Taken == Len(Steps) - Len(todo)       \* steps taken

Place ==
    mod \in {"init", "exit"} =>
        /\ Len(todo) =< Len(Steps) /\ (mod = "init" => Len(todo) > 0)
        /\ \A i \in 1 .. Len(todo) : todo[i] = Steps[Taken + i]

\* What init takes and exit does not give back.
Kept == ToSet(init) \ ToSet(exit)

HaveInv ==
    /\ have \subseteq ToSet(init)
    /\ mod = "out" => have = {}
    /\ mod = "init" => \A x \in have : \E j \in 1 .. Taken : x = init[j]
    /\ mod = "exit" => have \subseteq ToSet(todo) \cup Kept
    /\ driver = "mmap" =>
        /\ "misc" \in have => "data" \in have
        /\ mod = "init" /\ Taken > 0 => "data" \in have

UsersInv ==
    /\ \A f \in Files : via[f] # "none" <=> f \in fds \cup maps
    /\ \A f \in Files : via[f] # "none" => via[f] \in have
    /\ \A f \in maps : via[f] \notin ProcFiles
    /\ mod = "exit" => \A f \in Files : via[f] \in ProcFiles \cup {"none"}

ModTypes ==
    /\ driver \in DOMAIN Modules
    /\ mod \in {"out", "init", "in", "exit", "oops"} /\ todo \in Seq(Things)
    /\ via \in [Files -> Entries \cup {"none"}]
    /\ fds \subseteq Files /\ busy \subseteq fds /\ maps \subseteq Files

ModInv == ModTypes /\ Place /\ HaveInv /\ UsersInv

\* Nothing that can be called is registered before a step that init looks at.
EntriesLast(s) ==
    \A i, j \in 1 .. Len(s) : s[j] \in Checked /\ i < j => s[i] \notin Entries

LEMMA ToSetOfTuple ==
    ASSUME NEW a, NEW b
    PROVE  ToSet(<<>>) = {} /\ ToSet(<<a>>) = {a} /\ ToSet(<<a, b>>) = {a, b}
<1>1. ToSet(<<>>) = {}
  BY DEF ToSet
<1>2. ToSet(<<a>>) = {a}
  BY DEF ToSet
<1>3. ToSet(<<a, b>>) = {a, b}
  BY DEF ToSet
<1> QED BY <1>1, <1>2, <1>3

LEMMA ToSetOfFour == ASSUME NEW a, NEW b, NEW c, NEW d PROVE ToSet(<<a, b, c, d>>) = {a, b, c, d}
  BY DEF ToSet

\* What the tables of the modules have in common.
LEMMA ModuleFacts ==
    ASSUME driver \in DOMAIN Modules
    PROVE  /\ init \in Seq(Things) /\ Len(init) > 0 /\ exit \in Seq(Things) /\ EntriesLast(init)
           /\ \A x \in Entries : x \notin Kept
           /\ "data" \in ToSet(init) => driver \in {"mmap", "zpage"}
           /\ driver \in {"mmap", "zpage"} => \A x \in Entries : x \in ToSet(init) => x = "misc"
           /\ driver = "mmap" => init = <<"data", "misc">> /\ exit = <<"misc", "data">>
<1>1. CASE driver = "ofcd2"
  <2>1. init = <<"region">> /\ exit = <<"region">>
    BY <1>1 DEF Modules, init, exit, ofcd2_init, ofcd2_exit
  <2>3. ToSet(init) = {"region"} /\ ToSet(exit) = {"region"}
    <3>1. ToSet(<<"region">>) = {"region"}
      BY ToSetOfTuple
    <3>2. ToSet(<<"region">>) = {"region"}
      BY ToSetOfTuple
    <3> QED BY <2>1, <3>1, <3>2
  <2>4. {"region"} \subseteq Things
    BY DEF Things
  <2>5. init \in Seq(Things) /\ exit \in Seq(Things) /\ Len(init) = 1
    BY <2>1, <2>4
  <2>6. EntriesLast(init)
    BY <2>1 DEF EntriesLast, Checked, Entries, ProcFiles, SeqFiles
  <2> QED BY <1>1, <2>1, <2>3, <2>5, <2>6 DEF Kept, Entries, ProcFiles, SeqFiles
<1>2. CASE driver = "ofcd3"
  <2>1. init = <<"region", "cdev", "class", "device">> /\ exit = <<"cdev", "device", "class", "region">>
    BY <1>2 DEF Modules, init, exit, ofcd3_init, ofcd3_exit
  <2>3. ToSet(init) = {"region", "cdev", "class", "device"} /\ ToSet(exit) = {"cdev", "device", "class", "region"}
    <3>1. ToSet(<<"region", "cdev", "class", "device">>) = {"region", "cdev", "class", "device"}
      BY ToSetOfFour
    <3>2. ToSet(<<"cdev", "device", "class", "region">>) = {"cdev", "device", "class", "region"}
      BY ToSetOfFour
    <3> QED BY <2>1, <3>1, <3>2
  <2>4. {"cdev", "class", "device", "region"} \subseteq Things
    BY DEF Things
  <2>5. init \in Seq(Things) /\ exit \in Seq(Things) /\ Len(init) = 4
    BY <2>1, <2>4
  <2>6. EntriesLast(init)
    BY <2>1 DEF EntriesLast, Checked, Entries, ProcFiles, SeqFiles
  <2> QED BY <1>2, <2>1, <2>3, <2>5, <2>6 DEF Kept, Entries, ProcFiles, SeqFiles
<1>3. CASE driver = "plain"
  <2>1. init = <<"region", "cdev">> /\ exit = <<"cdev", "region">>
    BY <1>3 DEF Modules, init, exit, plain_init, plain_exit
  <2>3. ToSet(init) = {"region", "cdev"} /\ ToSet(exit) = {"cdev", "region"}
    <3>1. ToSet(<<"region", "cdev">>) = {"region", "cdev"}
      BY ToSetOfTuple
    <3>2. ToSet(<<"cdev", "region">>) = {"cdev", "region"}
      BY ToSetOfTuple
    <3> QED BY <2>1, <3>1, <3>2
  <2>4. {"cdev", "region"} \subseteq Things
    BY DEF Things
  <2>5. init \in Seq(Things) /\ exit \in Seq(Things) /\ Len(init) = 2
    BY <2>1, <2>4
  <2>6. EntriesLast(init)
    BY <2>1 DEF EntriesLast, Checked, Entries, ProcFiles, SeqFiles
  <2> QED BY <1>3, <2>1, <2>3, <2>5, <2>6 DEF Kept, Entries, ProcFiles, SeqFiles
<1>4. CASE driver = "hello"
  <2>1. init = <<"region", "cdev", "class", "device">> /\ exit = <<"cdev", "region">>
    BY <1>4 DEF Modules, init, exit, hello_init, hello_exit
  <2>3. ToSet(init) = {"region", "cdev", "class", "device"} /\ ToSet(exit) = {"cdev", "region"}
    <3>1. ToSet(<<"region", "cdev", "class", "device">>) = {"region", "cdev", "class", "device"}
      BY ToSetOfFour
    <3>2. ToSet(<<"cdev", "region">>) = {"cdev", "region"}
      BY ToSetOfTuple
    <3> QED BY <2>1, <3>1, <3>2
  <2>4. {"cdev", "class", "device", "region"} \subseteq Things
    BY DEF Things
  <2>5. init \in Seq(Things) /\ exit \in Seq(Things) /\ Len(init) = 4
    BY <2>1, <2>4
  <2>6. EntriesLast(init)
    BY <2>1 DEF EntriesLast, Checked, Entries, ProcFiles, SeqFiles
  <2> QED BY <1>4, <2>1, <2>3, <2>5, <2>6 DEF Kept, Entries, ProcFiles, SeqFiles
<1>5. CASE driver = "ztest"
  <2>1. init = <<"region", "cdev", "class", "device">> /\ exit = <<"cdev", "device", "class", "region">>
    BY <1>5 DEF Modules, init, exit, ztest_init, ztest_exit
  <2>3. ToSet(init) = {"region", "cdev", "class", "device"} /\ ToSet(exit) = {"cdev", "device", "class", "region"}
    <3>1. ToSet(<<"region", "cdev", "class", "device">>) = {"region", "cdev", "class", "device"}
      BY ToSetOfFour
    <3>2. ToSet(<<"cdev", "device", "class", "region">>) = {"cdev", "device", "class", "region"}
      BY ToSetOfFour
    <3> QED BY <2>1, <3>1, <3>2
  <2>4. {"cdev", "class", "device", "region"} \subseteq Things
    BY DEF Things
  <2>5. init \in Seq(Things) /\ exit \in Seq(Things) /\ Len(init) = 4
    BY <2>1, <2>4
  <2>6. EntriesLast(init)
    BY <2>1 DEF EntriesLast, Checked, Entries, ProcFiles, SeqFiles
  <2> QED BY <1>5, <2>1, <2>3, <2>5, <2>6 DEF Kept, Entries, ProcFiles, SeqFiles
<1>6. CASE driver = "mmap"
  <2>1. init = <<"data", "misc">> /\ exit = <<"misc", "data">>
    BY <1>6 DEF Modules, init, exit, mmap_init, mmap_exit
  <2>3. ToSet(init) = {"data", "misc"} /\ ToSet(exit) = {"misc", "data"}
    <3>1. ToSet(<<"data", "misc">>) = {"data", "misc"}
      BY ToSetOfTuple
    <3>2. ToSet(<<"misc", "data">>) = {"misc", "data"}
      BY ToSetOfTuple
    <3> QED BY <2>1, <3>1, <3>2
  <2>4. {"data", "misc"} \subseteq Things
    BY DEF Things
  <2>5. init \in Seq(Things) /\ exit \in Seq(Things) /\ Len(init) = 2
    BY <2>1, <2>4
  <2>6. EntriesLast(init)
    BY <2>1 DEF EntriesLast, Checked, Entries, ProcFiles, SeqFiles
  <2> QED BY <1>6, <2>1, <2>3, <2>5, <2>6 DEF Kept, Entries, ProcFiles, SeqFiles
<1>7. CASE driver = "zpage"
  <2>1. init = <<"misc", "data">> /\ exit = <<"misc">>
    BY <1>7 DEF Modules, init, exit, zpage_init, zpage_exit
  <2>3. ToSet(init) = {"misc", "data"} /\ ToSet(exit) = {"misc"}
    <3>1. ToSet(<<"misc", "data">>) = {"misc", "data"}
      BY ToSetOfTuple
    <3>2. ToSet(<<"misc">>) = {"misc"}
      BY ToSetOfTuple
    <3> QED BY <2>1, <3>1, <3>2
  <2>4. {"data", "misc"} \subseteq Things
    BY DEF Things
  <2>5. init \in Seq(Things) /\ exit \in Seq(Things) /\ Len(init) = 2
    BY <2>1, <2>4
  <2>6. EntriesLast(init)
    BY <2>1 DEF EntriesLast, Checked, Entries, ProcFiles, SeqFiles
  <2> QED BY <1>7, <2>1, <2>3, <2>5, <2>6 DEF Kept, Entries, ProcFiles, SeqFiles
<1>8. CASE driver = "dram"
  <2>1. init = <<"chrdev">> /\ exit = <<"chrdev">>
    BY <1>8 DEF Modules, init, exit, dram_init, dram_exit
  <2>3. ToSet(init) = {"chrdev"} /\ ToSet(exit) = {"chrdev"}
    <3>1. ToSet(<<"chrdev">>) = {"chrdev"}
      BY ToSetOfTuple
    <3>2. ToSet(<<"chrdev">>) = {"chrdev"}
      BY ToSetOfTuple
    <3> QED BY <2>1, <3>1, <3>2
  <2>4. {"chrdev"} \subseteq Things
    BY DEF Things
  <2>5. init \in Seq(Things) /\ exit \in Seq(Things) /\ Len(init) = 1
    BY <2>1, <2>4
  <2>6. EntriesLast(init)
    BY <2>1 DEF EntriesLast, Checked, Entries, ProcFiles, SeqFiles
  <2> QED BY <1>8, <2>1, <2>3, <2>5, <2>6 DEF Kept, Entries, ProcFiles, SeqFiles
<1>9. CASE driver = "zproc"
  <2>1. init = <<"dir", "mminfo", "physvalue", "buddy">> /\ exit = <<"mminfo", "physvalue", "buddy", "dir">>
    BY <1>9 DEF Modules, init, exit, zproc_init, zproc_exit
  <2>3. ToSet(init) = {"dir", "mminfo", "physvalue", "buddy"} /\ ToSet(exit) = {"mminfo", "physvalue", "buddy", "dir"}
    <3>1. ToSet(<<"dir", "mminfo", "physvalue", "buddy">>) = {"dir", "mminfo", "physvalue", "buddy"}
      BY ToSetOfFour
    <3>2. ToSet(<<"mminfo", "physvalue", "buddy", "dir">>) = {"mminfo", "physvalue", "buddy", "dir"}
      BY ToSetOfFour
    <3> QED BY <2>1, <3>1, <3>2
  <2>4. {"buddy", "dir", "mminfo", "physvalue"} \subseteq Things
    BY DEF Things
  <2>5. init \in Seq(Things) /\ exit \in Seq(Things) /\ Len(init) = 4
    BY <2>1, <2>4
  <2>6. EntriesLast(init)
    BY <2>1 DEF EntriesLast, Checked, Entries, ProcFiles, SeqFiles
  <2> QED BY <1>9, <2>1, <2>3, <2>5, <2>6 DEF Kept, Entries, ProcFiles, SeqFiles
<1>10. CASE driver = "affinity"
  <2>1. init = <<"dir", "get">> /\ exit = <<"get", "dir">>
    BY <1>10 DEF Modules, init, exit, affinity_init, affinity_exit
  <2>3. ToSet(init) = {"dir", "get"} /\ ToSet(exit) = {"get", "dir"}
    <3>1. ToSet(<<"dir", "get">>) = {"dir", "get"}
      BY ToSetOfTuple
    <3>2. ToSet(<<"get", "dir">>) = {"get", "dir"}
      BY ToSetOfTuple
    <3> QED BY <2>1, <3>1, <3>2
  <2>4. {"dir", "get"} \subseteq Things
    BY DEF Things
  <2>5. init \in Seq(Things) /\ exit \in Seq(Things) /\ Len(init) = 2
    BY <2>1, <2>4
  <2>6. EntriesLast(init)
    BY <2>1 DEF EntriesLast, Checked, Entries, ProcFiles, SeqFiles
  <2> QED BY <1>10, <2>1, <2>3, <2>5, <2>6 DEF Kept, Entries, ProcFiles, SeqFiles
<1>11. CASE driver = "sys_reg"
  <2>1. init = <<"sys_reg">> /\ exit = <<"sys_reg">>
    BY <1>11 DEF Modules, init, exit, sys_reg_init, sys_reg_exit
  <2>3. ToSet(init) = {"sys_reg"} /\ ToSet(exit) = {"sys_reg"}
    <3>1. ToSet(<<"sys_reg">>) = {"sys_reg"}
      BY ToSetOfTuple
    <3>2. ToSet(<<"sys_reg">>) = {"sys_reg"}
      BY ToSetOfTuple
    <3> QED BY <2>1, <3>1, <3>2
  <2>4. {"sys_reg"} \subseteq Things
    BY DEF Things
  <2>5. init \in Seq(Things) /\ exit \in Seq(Things) /\ Len(init) = 1
    BY <2>1, <2>4
  <2>6. EntriesLast(init)
    BY <2>1 DEF EntriesLast, Checked, Entries, ProcFiles, SeqFiles
  <2> QED BY <1>11, <2>1, <2>3, <2>5, <2>6 DEF Kept, Entries, ProcFiles, SeqFiles
<1>12. CASE driver = "work_a"
  <2>1. init = <<"work">> /\ exit = <<>>
    BY <1>12 DEF Modules, init, exit, work_a_init, work_a_exit
  <2>3. ToSet(init) = {"work"} /\ ToSet(exit) = {}
    <3>1. ToSet(<<"work">>) = {"work"}
      BY ToSetOfTuple
    <3>2. ToSet(<<>>) = {}
      BY ToSetOfTuple
    <3> QED BY <2>1, <3>1, <3>2
  <2>4. {"work"} \subseteq Things
    BY DEF Things
  <2>5. init \in Seq(Things) /\ exit \in Seq(Things) /\ Len(init) = 1
    BY <2>1, <2>4
  <2>6. EntriesLast(init)
    BY <2>1 DEF EntriesLast, Checked, Entries, ProcFiles, SeqFiles
  <2> QED BY <1>12, <2>1, <2>3, <2>5, <2>6 DEF Kept, Entries, ProcFiles, SeqFiles
<1>13. CASE driver = "work_b"
  <2>1. init = <<"queue", "work">> /\ exit = <<"queue">>
    BY <1>13 DEF Modules, init, exit, work_b_init, work_b_exit
  <2>3. ToSet(init) = {"queue", "work"} /\ ToSet(exit) = {"queue"}
    <3>1. ToSet(<<"queue", "work">>) = {"queue", "work"}
      BY ToSetOfTuple
    <3>2. ToSet(<<"queue">>) = {"queue"}
      BY ToSetOfTuple
    <3> QED BY <2>1, <3>1, <3>2
  <2>4. {"queue", "work"} \subseteq Things
    BY DEF Things
  <2>5. init \in Seq(Things) /\ exit \in Seq(Things) /\ Len(init) = 2
    BY <2>1, <2>4
  <2>6. EntriesLast(init)
    BY <2>1 DEF EntriesLast, Checked, Entries, ProcFiles, SeqFiles
  <2> QED BY <1>13, <2>1, <2>3, <2>5, <2>6 DEF Kept, Entries, ProcFiles, SeqFiles
<1> QED BY <1>1, <1>2, <1>3, <1>4, <1>5, <1>6, <1>7, <1>8, <1>9, <1>10, <1>11, <1>12, <1>13 DEF Modules

LEMMA TodoFacts ==
    ASSUME NEW s \in Seq(Things), s # <<>>
    PROVE  /\ Head(s) \in Things /\ Head(s) = s[1] /\ 1 \in 1 .. Len(s) /\ Len(s) \in Nat
           /\ Tail(s) \in Seq(Things) /\ Len(Tail(s)) = Len(s) - 1
           /\ \A i \in 1 .. Len(s) - 1 : Tail(s)[i] = s[i + 1] /\ i + 1 \in 1 .. Len(s)
<1>1. Len(s) \in Nat \ {0}
  BY EmptySeq
<1>2. Head(s) = s[1]
  OBVIOUS
<1>3. /\ Head(s) \in Things /\ Tail(s) \in Seq(Things) /\ Len(Tail(s)) = Len(s) - 1
      /\ \A i \in 1 .. Len(Tail(s)) : Tail(s)[i] = s[i + 1]
  BY HeadTailProperties
<1> QED BY <1>1, <1>2, <1>3

LEMMA InToSet ==
    ASSUME NEW s \in Seq(Things)
    PROVE  /\ \A i \in 1 .. Len(s) : s[i] \in ToSet(s)
           /\ \A x \in ToSet(s) : \E i \in 1 .. Len(s) : x = s[i]
  BY DEF ToSet

LEMMA ToSetOfTail ==
    ASSUME NEW s \in Seq(Things), s # <<>>, NEW x \in ToSet(s), x # Head(s)
    PROVE  x \in ToSet(Tail(s))
<1>1. PICK i \in 1 .. Len(s) : x = s[i]
  BY InToSet
<1>2. /\ Head(s) = s[1] /\ Len(s) \in Nat /\ Tail(s) \in Seq(Things) /\ Len(Tail(s)) = Len(s) - 1
      /\ \A j \in 1 .. Len(s) - 1 : Tail(s)[j] = s[j + 1]
  BY TodoFacts
<1>3. i - 1 \in 1 .. Len(Tail(s)) /\ i - 1 \in 1 .. Len(s) - 1 /\ i = (i - 1) + 1
  BY <1>1, <1>2
<1>4. Tail(s)[i - 1] = x
  BY <1>1, <1>2, <1>3
<1> QED BY <1>2, <1>3, <1>4, InToSet

\* The next step of the init function.
LEMMA NextStep ==
    ASSUME ModInv, mod = "init"
    PROVE  /\ todo # <<>> /\ Taken \in Nat /\ Taken + 1 \in 1 .. Len(init) /\ Len(init) \in Nat
           /\ Head(todo) = init[Taken + 1] /\ Head(todo) \in ToSet(init)
<1>1. init \in Seq(Things) /\ todo \in Seq(Things) /\ Steps = init
  BY ModuleFacts DEF ModInv, ModTypes, Steps
<1>2. /\ Len(todo) \in Nat /\ Len(init) \in Nat /\ Len(todo) =< Len(init) /\ Len(todo) > 0
      /\ \A i \in 1 .. Len(todo) : todo[i] = init[Taken + i]
  BY <1>1 DEF ModInv, Place
<1>3. todo # <<>>
  BY <1>2
<1>4. Taken \in Nat /\ Taken + 1 \in 1 .. Len(init)
  BY <1>1, <1>2 DEF Taken
<1>5. Head(todo) = init[Taken + 1]
  BY <1>1, <1>2, <1>3, TodoFacts
<1> QED BY <1>1, <1>2, <1>3, <1>4, <1>5, InToSet

\* That step is taken.
LEMMA StepTaken ==
    ASSUME ModInv, mod = "init", Stepped, UNCHANGED driver
    PROVE  /\ todo' \in Seq(Things) /\ mod' \in {"init", "in"} /\ Place'
           /\ mod' = "init" => Taken' = Taken + 1
<1>1. /\ todo \in Seq(Things) /\ todo # <<>> /\ Steps = init /\ init' = init
      /\ todo' = Tail(todo) /\ mod' = (IF Len(todo) = 1 THEN "in" ELSE "init")
  BY NextStep DEF ModInv, ModTypes, Steps, Stepped, init
<1>2. /\ Len(todo) \in Nat \ {0} /\ todo' \in Seq(Things) /\ Len(todo') = Len(todo) - 1
      /\ \A i \in 1 .. Len(todo) - 1 : todo'[i] = todo[i + 1] /\ i + 1 \in 1 .. Len(todo)
  BY <1>1, TodoFacts
<1>3. /\ Len(init) \in Nat /\ Len(todo) =< Len(init)
      /\ \A i \in 1 .. Len(todo) : todo[i] = init[Taken + i]
  BY <1>1, NextStep DEF ModInv, Place
<1>4. ASSUME mod' = "init"
      PROVE  Taken' = Taken + 1 /\ Place'
  <2>1. Steps' = init /\ Len(todo) # 1
    BY <1>1, <1>4 DEF Steps
  <2>2. Taken' = Taken + 1 /\ Taken \in Nat
    BY <1>1, <1>2, <1>3, <2>1 DEF Taken
  <2>3. \A i \in 1 .. Len(todo') : todo'[i] = Steps'[Taken' + i]
    <3> SUFFICES ASSUME NEW i \in 1 .. Len(todo') PROVE todo'[i] = init[Taken' + i]
      BY <2>1
    <3>1. todo'[i] = init[Taken + (i + 1)]
      BY <1>2, <1>3
    <3>2. Taken + (i + 1) = Taken' + i
      BY <1>2, <2>2
    <3> QED BY <3>1, <3>2
  <2> QED BY <1>2, <1>3, <2>1, <2>2, <2>3 DEF Place
<1> QED BY <1>1, <1>2, <1>4 DEF Place

\* The users, while only mod, todo and have change, and have grows.
LEMMA UsersKept ==
    ASSUME ModTypes, UsersInv, UNCHANGED <<driver, users>>, have \subseteq have',
           mod' = "exit" => mod = "exit"
    PROVE  UsersInv'
  BY DEF ModTypes, UsersInv, users

LEMMA ModInitInv == ModInit => ModInv
<1> SUFFICES ASSUME ModInit PROVE ModInv
  OBVIOUS
<1>1. ModTypes
  BY KernelModulesAssumption DEF ModInit, ModTypes
<1> QED BY <1>1 DEF ModInit, ModInv, Place, HaveInv, UsersInv

LEMMA InsmodInv == ModInv /\ Insmod => ModInv'
<1> SUFFICES ASSUME ModInv, Insmod PROVE ModInv'
  OBVIOUS
<1>1. /\ mod = "out" /\ mod' = "init" /\ todo' = init /\ have' = {} /\ have = {}
      /\ UNCHANGED <<driver, left, via, fds, busy, maps>> /\ init' = init /\ Kept' = Kept
  BY DEF Insmod, users, init, exit, Kept, ModInv, HaveInv
<1>2. init \in Seq(Things) /\ Len(init) \in Nat /\ Len(init) > 0
  BY ModuleFacts DEF ModInv, ModTypes
<1>3. Steps' = init /\ Taken' = 0
  BY <1>1, <1>2 DEF Steps, Taken
<1>4. ModTypes'
  BY <1>1, <1>2 DEF ModInv, ModTypes
<1>5. Place'
  BY <1>1, <1>2, <1>3 DEF Place
<1>6. HaveInv'
  BY <1>1, <1>3 DEF HaveInv
<1>7. UsersInv'
  BY <1>1, UsersKept DEF ModInv, users
<1> QED BY <1>1, <1>4, <1>5, <1>6, <1>7 DEF ModInv

LEMMA AcquireInv == ModInv /\ Acquire => ModInv'
<1> SUFFICES ASSUME ModInv, Acquire PROVE ModInv'
  OBVIOUS
<1>1. /\ mod = "init" /\ have' = have \cup {Head(todo)} /\ Stepped
      /\ UNCHANGED <<driver, left, via, fds, busy, maps>> /\ init' = init /\ Kept' = Kept
  BY DEF Acquire, users, init, exit, Kept
<1>2. /\ todo' \in Seq(Things) /\ mod' \in {"init", "in"} /\ Place'
      /\ mod' = "init" => Taken' = Taken + 1
  BY <1>1, StepTaken
<1>3. /\ Taken \in Nat /\ Head(todo) = init[Taken + 1] /\ Head(todo) \in ToSet(init)
      /\ Taken + 1 \in 1 .. Len(init)
  BY <1>1, NextStep
<1>4. ModTypes'
  BY <1>1, <1>2 DEF ModInv, ModTypes
<1>5. HaveInv'
  <2>1. have' \subseteq ToSet(init)
    BY <1>1, <1>3 DEF ModInv, HaveInv
  <2>2. ASSUME mod' = "init", NEW x \in have' PROVE \E j \in 1 .. Taken' : x = init[j]
    <3>1. CASE x \in have
      <4>1. PICK j \in 1 .. Taken : x = init[j]
        BY <1>1, <3>1 DEF ModInv, HaveInv
      <4> QED BY <1>2, <1>3, <2>2, <4>1
    <3>2. CASE x = Head(todo)
      <4>1. Taken + 1 \in 1 .. Taken'
        BY <1>2, <1>3, <2>2
      <4> QED BY <1>3, <3>2, <4>1
    <3> QED BY <1>1, <3>1, <3>2
  <2>3. ASSUME driver = "mmap"
        PROVE  /\ "misc" \in have' => "data" \in have'
               /\ mod' = "init" => "data" \in have'
    <3>1. Len(init) = 2 /\ init[1] = "data" /\ init[2] = "misc"
      BY <2>3, ModuleFacts DEF ModInv, ModTypes
    <3>2. CASE Taken = 0
      BY <1>1, <1>3, <3>1, <3>2
    <3>3. CASE Taken > 0
      BY <1>1, <2>3, <3>3 DEF ModInv, HaveInv
    <3> QED BY <1>3, <3>2, <3>3
  <2> QED BY <1>1, <1>2, <2>1, <2>2, <2>3 DEF HaveInv
<1>6. UsersInv'
  BY <1>1, <1>2, UsersKept DEF ModInv, users
<1> QED BY <1>1, <1>2, <1>4, <1>5, <1>6 DEF ModInv

\* No file is open yet when an init function returns an error.
LEMMA AcquireFailsInv == ModInv /\ AcquireFails => ModInv'
<1> SUFFICES ASSUME ModInv, AcquireFails PROVE ModInv'
  OBVIOUS
<1>1. /\ mod = "init" /\ Head(todo) \in Checked /\ mod' = "out" /\ todo' = <<>> /\ have' = {}
      /\ UNCHANGED <<driver, via, fds, busy, maps>>
  BY DEF AcquireFails, users
<1>2. Taken \in Nat /\ Taken + 1 \in 1 .. Len(init) /\ Head(todo) = init[Taken + 1] /\ Len(init) \in Nat
  BY <1>1, NextStep
<1>3. ASSUME NEW x \in have PROVE x \notin Entries
  <2>1. PICK j \in 1 .. Taken : x = init[j]
    BY <1>1 DEF ModInv, HaveInv
  <2>2. j \in 1 .. Len(init) /\ j < Taken + 1
    BY <1>2
  <2>3. EntriesLast(init)
    BY ModuleFacts DEF ModInv, ModTypes
  <2> QED BY <1>1, <1>2, <2>1, <2>2, <2>3 DEF EntriesLast
<1>4. \A f \in Files : via[f] = "none"
  BY <1>3 DEF ModInv, ModTypes, UsersInv
<1>5. ModTypes'
  BY <1>1 DEF ModInv, ModTypes
<1>6. UsersInv'
  BY <1>1, <1>4 DEF ModInv, ModTypes, UsersInv
<1> QED BY <1>1, <1>5, <1>6 DEF ModInv, Place, HaveInv

LEMMA AcquireUnseenInv == ModInv /\ AcquireUnseen => ModInv'
<1> SUFFICES ASSUME ModInv, AcquireUnseen PROVE ModInv'
  OBVIOUS
<1>1. /\ mod = "init" /\ UNCHANGED <<driver, have, via, fds, busy, maps>>
      /\ init' = init /\ Kept' = Kept
      /\ IF Head(todo) = "data" /\ driver = "mmap" THEN mod' = "oops" /\ UNCHANGED todo ELSE Stepped
  BY DEF AcquireUnseen, users, init, exit, Kept
<1>2. CASE Head(todo) = "data" /\ driver = "mmap"
  <2>1. mod' = "oops" /\ UNCHANGED todo
    BY <1>1, <1>2
  <2>2. ModTypes' /\ Place' /\ UsersInv'
    BY <1>1, <2>1, UsersKept DEF ModInv, ModTypes, Place, users
  <2> QED BY <1>1, <2>1, <2>2 DEF ModInv, HaveInv
<1>3. CASE ~(Head(todo) = "data" /\ driver = "mmap")
  <2>1. /\ todo' \in Seq(Things) /\ mod' \in {"init", "in"} /\ Place'
        /\ mod' = "init" => Taken' = Taken + 1
    BY <1>1, <1>3, StepTaken
  <2>2. Taken \in Nat /\ Head(todo) = init[Taken + 1]
    BY <1>1, NextStep
  <2>3. ModTypes'
    BY <1>1, <2>1 DEF ModInv, ModTypes
  <2>4. ASSUME mod' = "init", NEW x \in have PROVE \E j \in 1 .. Taken' : x = init[j]
    <3>1. PICK j \in 1 .. Taken : x = init[j]
      BY <1>1 DEF ModInv, HaveInv
    <3> QED BY <2>1, <2>2, <2>4, <3>1
  <2>5. driver = "mmap" => "data" \in have
    <3>1. driver = "mmap" => init[1] = "data"
      BY ModuleFacts DEF ModInv, ModTypes
    <3>2. driver = "mmap" => Taken > 0
      BY <1>3, <2>2, <3>1
    <3> QED BY <1>1, <3>2 DEF ModInv, HaveInv
  <2>6. HaveInv'
    BY <1>1, <2>1, <2>4, <2>5 DEF ModInv, HaveInv
  <2>7. UsersInv'
    BY <1>1, <2>1, UsersKept DEF ModInv, users
  <2> QED BY <1>1, <2>1, <2>3, <2>6, <2>7 DEF ModInv
<1> QED BY <1>2, <1>3

LEMMA RmmodInv == ModInv /\ Rmmod => ModInv'
<1> SUFFICES ASSUME ModInv, Rmmod PROVE ModInv'
  OBVIOUS
<1>1. /\ mod = "in" /\ mod' = "exit" /\ todo' = exit
      /\ UNCHANGED <<driver, have, left, via, fds, busy, maps>>
      /\ init' = init /\ exit' = exit /\ Kept' = Kept
      /\ \A f \in Files : via[f] = "none" \/ via[f] \in ProcFiles
  BY DEF Rmmod, Pinned, users, init, exit, Kept
<1>2. exit \in Seq(Things) /\ Len(exit) \in Nat
  BY ModuleFacts DEF ModInv, ModTypes
<1>3. Steps' = exit /\ Taken' = 0
  BY <1>1, <1>2 DEF Steps, Taken
<1>4. ModTypes'
  BY <1>1, <1>2 DEF ModInv, ModTypes
<1>5. Place'
  BY <1>1, <1>2, <1>3 DEF Place
<1>6. HaveInv'
  <2>1. ASSUME NEW x \in have PROVE x \in ToSet(exit) \/ x \in Kept
    BY DEF ModInv, HaveInv, Kept
  <2> QED BY <1>1, <2>1 DEF ModInv, HaveInv
<1>7. UsersInv'
  BY <1>1 DEF ModInv, UsersInv
<1> QED BY <1>1, <1>4, <1>5, <1>6, <1>7 DEF ModInv

\* A step of an exit function closes the files of the entry it removes, none of
\* which a handler is using.
LEMMA ReleaseInv == ModInv /\ Release => ModInv'
<1> SUFFICES ASSUME ModInv, Release PROVE ModInv'
  OBVIOUS
<1> DEFINE x == Head(todo)
<1>1. /\ mod = "exit" /\ todo # <<>> /\ \A f \in busy : via[f] # x
      /\ ~(x = "queue" /\ "work" \in have)
      /\ via' = [f \in Files |-> IF via[f] = x THEN "none" ELSE via[f]]
      /\ fds' = {f \in fds : via'[f] # "none"}
      /\ UNCHANGED <<driver, left, busy, maps>>
      /\ init' = init /\ exit' = exit /\ Kept' = Kept
  BY DEF Release, init, exit, Kept
<1>2. \/ mod' = "oops" /\ UNCHANGED <<todo, have>> /\ x = "device"
      \/ have' = have \ {x} /\ todo' = Tail(todo) /\ UNCHANGED mod
  BY DEF Release
<1>3. /\ todo \in Seq(Things) /\ x \in Things /\ x = todo[1] /\ 1 \in 1 .. Len(todo) /\ Len(todo) \in Nat
      /\ Tail(todo) \in Seq(Things) /\ Len(Tail(todo)) = Len(todo) - 1
      /\ \A i \in 1 .. Len(todo) - 1 : Tail(todo)[i] = todo[i + 1] /\ i + 1 \in 1 .. Len(todo)
  BY <1>1, TodoFacts DEF ModInv, ModTypes
<1>4. /\ exit \in Seq(Things) /\ Len(exit) \in Nat /\ Steps = exit /\ Len(todo) =< Len(exit)
      /\ Taken = Len(exit) - Len(todo)
      /\ \A i \in 1 .. Len(todo) : todo[i] = exit[Taken + i]
  <2>1. exit \in Seq(Things) /\ Len(exit) \in Nat
    BY ModuleFacts DEF ModInv, ModTypes
  <2>2. Steps = exit
    BY <1>1 DEF Steps
  <2>3. Taken = Len(exit) - Len(todo)
    BY <2>2 DEF Taken
  <2> QED BY <1>1, <2>1, <2>2, <2>3 DEF ModInv, Place
<1> HIDE DEF x
<1>5. /\ \A f \in Files : via[f] # "none" <=> f \in fds \cup maps
      /\ \A f \in Files : via[f] # "none" => via[f] \in have
      /\ maps = {}
      /\ \A f \in Files : via[f] \in ProcFiles \cup {"none"}
  <2>1. ASSUME NEW f \in maps PROVE FALSE
    BY <1>1 DEF ModInv, ModTypes, UsersInv
  <2> QED BY <1>1, <2>1 DEF ModInv, UsersInv
<1>6. ModTypes'
  <2>1. via' \in [Files -> Entries \cup {"none"}]
    BY <1>1 DEF ModInv, ModTypes
  <2>2. busy \subseteq fds'
    <3> SUFFICES ASSUME NEW f \in busy PROVE f \in fds'
      OBVIOUS
    <3>1. f \in fds /\ f \in Files /\ via[f] # x /\ via[f] # "none"
      BY <1>1, <1>5 DEF ModInv, ModTypes
    <3>2. via'[f] = via[f]
      BY <1>1, <3>1
    <3> QED BY <1>1, <3>1, <3>2
  <2>3. fds' \subseteq Files /\ todo' \in Seq(Things) /\ mod' \in {"exit", "oops"}
    BY <1>1, <1>2, <1>3 DEF ModInv, ModTypes
  <2> QED BY <1>1, <2>1, <2>2, <2>3 DEF ModInv, ModTypes
<1>7. Place'
  <2>1. CASE mod' = "oops"
    BY <2>1 DEF Place
  <2>2. CASE todo' = Tail(todo) /\ UNCHANGED mod
    <3>1. Steps' = exit /\ Taken' = Taken + 1 /\ Len(todo') =< Len(exit) /\ Taken \in Nat
      BY <1>1, <1>3, <1>4, <2>2 DEF Steps, Taken
    <3>2. ASSUME NEW i \in 1 .. Len(todo') PROVE todo'[i] = exit[Taken' + i]
      <4>1. todo'[i] = todo[i + 1] /\ i + 1 \in 1 .. Len(todo) /\ i \in Int
        BY <1>3, <2>2
      <4>2. Taken + (i + 1) = Taken' + i
        BY <3>1, <4>1
      <4> QED BY <1>4, <4>1, <4>2
    <3> QED BY <1>1, <2>2, <3>1, <3>2 DEF Place
  <2> QED BY <1>2, <2>1, <2>2
<1>8. HaveInv'
  <2>1. CASE mod' = "oops" /\ UNCHANGED <<todo, have>>
    BY <1>1, <2>1 DEF ModInv, HaveInv
  <2>2. CASE have' = have \ {x} /\ todo' = Tail(todo) /\ UNCHANGED mod
    <3>1. ASSUME NEW y \in have' PROVE y \in ToSet(todo') \/ y \in Kept
      <4>1. y \in have /\ y # x /\ (y \in ToSet(todo) \/ y \in Kept)
        BY <1>1, <2>2 DEF ModInv, HaveInv
      <4>2. CASE y \in ToSet(todo)
        BY <1>1, <1>3, <2>2, <4>1, <4>2, ToSetOfTail DEF x
      <4> QED BY <4>1, <4>2
    <3>2. ASSUME driver = "mmap", "misc" \in have' PROVE "data" \in have'
      <4>1. exit = <<"misc", "data">> /\ "misc" \notin Kept
        BY <3>2, ModuleFacts DEF ModInv, ModTypes, Entries
      <4>2. Len(exit) = 2 /\ exit[1] = "misc" /\ exit[2] = "data"
        BY <4>1
      <4>3. "misc" \in have /\ "misc" # x /\ "misc" \in ToSet(todo) /\ "data" \in have
        BY <1>1, <2>2, <3>2, <4>1 DEF ModInv, HaveInv
      <4>4. PICK i \in 1 .. Len(todo) : "misc" = todo[i]
        BY <1>3, <4>3, InToSet
      <4>5. i # 1 /\ Len(todo) = 2 /\ Taken = 0
        BY <1>3, <1>4, <4>2, <4>3, <4>4
      <4>6. todo[i] = "data"
        BY <1>4, <4>2, <4>5
      <4> QED BY <4>4, <4>6
    <3>3. have' \subseteq ToSet(init)
      BY <2>2 DEF ModInv, HaveInv
    <3> QED BY <1>1, <2>2, <3>1, <3>2, <3>3 DEF HaveInv
  <2> QED BY <1>2, <2>1, <2>2
<1>9. UsersInv'
  <2>1. ASSUME NEW f \in Files
        PROVE  /\ via'[f] # "none" <=> f \in fds'
               /\ via'[f] # "none" => via'[f] \in have' /\ via'[f] \in ProcFiles
    <3>1. CASE via[f] = x
      BY <1>1, <3>1
    <3>2. CASE via[f] # x
      <4>1. via'[f] = via[f]
        BY <1>1, <3>2
      <4> QED BY <1>1, <1>2, <1>5, <3>2, <4>1
    <3> QED BY <3>1, <3>2
  <2> QED BY <1>1, <1>5, <2>1 DEF UsersInv
<1> QED BY <1>1, <1>6, <1>7, <1>8, <1>9 DEF ModInv

LEMMA UnloadedInv == ModInv /\ Unloaded => ModInv'
<1> SUFFICES ASSUME ModInv, Unloaded PROVE ModInv'
  OBVIOUS
<1>1. /\ mod = "exit" /\ todo = <<>> /\ mod' = "out" /\ left' = left \cup have /\ have' = {}
      /\ UNCHANGED <<driver, todo, via, fds, busy, maps>> /\ Kept' = Kept
  BY DEF Unloaded, users, init, exit, Kept
<1>2. have \subseteq Kept
  <2>1. ToSet(todo) = {}
    BY <1>1, ToSetOfTuple
  <2> QED BY <1>1, <2>1 DEF ModInv, HaveInv
<1>3. \A f \in Files : via[f] = "none"
  BY <1>2, ModuleFacts DEF ModInv, ModTypes, UsersInv
<1>4. ModTypes'
  BY <1>1 DEF ModInv, ModTypes
<1>5. UsersInv'
  BY <1>1, <1>3 DEF ModInv, ModTypes, UsersInv
<1> QED BY <1>1, <1>4, <1>5 DEF ModInv, Place, HaveInv

LEMMA WorkRunsInv == ModInv /\ WorkRuns => ModInv'
<1> SUFFICES ASSUME ModInv, WorkRuns PROVE ModInv'
  OBVIOUS
<1>1. /\ have' = have \ {"work"} /\ mod \in {"init", "in", "exit"}
      /\ UNCHANGED <<driver, mod, todo, left, via, fds, busy, maps>>
      /\ init' = init /\ exit' = exit /\ Kept' = Kept /\ Taken' = Taken /\ Steps' = Steps
  BY DEF WorkRuns, work_handler, users, init, exit, Kept, Taken, Steps
<1>2. ModTypes' /\ Place'
  BY <1>1 DEF ModInv, ModTypes, Place
<1>3. HaveInv'
  BY <1>1 DEF ModInv, HaveInv
<1>4. UsersInv'
  <2>1. "work" \notin Entries
    BY DEF Entries, ProcFiles, SeqFiles
  <2>2. \A f \in Files : via[f] # "none" => via[f] \in have'
    BY <1>1, <2>1 DEF ModInv, ModTypes, UsersInv
  <2> QED BY <1>1, <2>2 DEF ModInv, UsersInv
<1> QED BY <1>2, <1>3, <1>4 DEF ModInv

\* Steps that stop the module where it is.
LEMMA OopsInv ==
    ASSUME ModInv, mod' = "oops", UNCHANGED <<driver, have, left, todo, users>>
    PROVE  ModInv'
<1>1. UNCHANGED <<via, fds, busy, maps>> /\ init' = init /\ Kept' = Kept
  BY DEF users, init, exit, Kept
<1>2. ModTypes' /\ Place'
  BY <1>1 DEF ModInv, ModTypes, Place
<1>3. HaveInv' /\ UsersInv'
  BY <1>1, UsersKept DEF ModInv, HaveInv
<1> QED BY <1>2, <1>3 DEF ModInv

\* Steps of the programs leave the rest alone.
LEMMA KernelKept ==
    ASSUME ModInv, UNCHANGED <<driver, mod, todo, have, left>>
    PROVE  Place' /\ HaveInv'
<1>1. init' = init /\ exit' = exit /\ Kept' = Kept /\ Steps' = Steps /\ Taken' = Taken
  BY DEF init, exit, Kept, Steps, Taken
<1>2. Place'
  BY <1>1 DEF ModInv, Place
<1>3. HaveInv'
  BY <1>1 DEF ModInv, HaveInv
<1> QED BY <1>2, <1>3

LEMMA OpenInv == ASSUME NEW f \in Files, NEW e \in Entries PROVE ModInv /\ Open(f, e) => ModInv'
<1> SUFFICES ASSUME ModInv, Open(f, e) PROVE ModInv'
  OBVIOUS
<1>1. /\ via[f] = "none" /\ e \in have /\ (mod = "exit" => e \in ProcFiles)
      /\ via' = [via EXCEPT ![f] = e] /\ fds' = fds \cup {f}
      /\ left' = IF e \in SeqFiles THEN left \cup {"seq_file"} ELSE left
      /\ UNCHANGED <<driver, mod, todo, have, busy, maps>>
  BY DEF Open, Reachable
<1>2. /\ init' = init /\ exit' = exit /\ Kept' = Kept /\ Steps' = Steps
      /\ Taken' = Taken
  BY <1>1 DEF init, exit, Kept, Steps, Taken
<1>3. ModTypes'
  BY <1>1 DEF ModInv, ModTypes
<1>4. Place' /\ HaveInv'
  BY <1>1, <1>2 DEF ModInv, Place, HaveInv
<1>5. UsersInv'
  <2>1. e # "none" /\ f \notin maps
    BY <1>1 DEF Entries, ProcFiles, SeqFiles, ModInv, UsersInv
  <2>2. via'[f] = e /\ \A g \in Files \ {f} : via'[g] = via[g]
    BY <1>1 DEF ModInv, ModTypes
  <2> QED BY <1>1, <2>1, <2>2 DEF ModInv, ModTypes, UsersInv
<1> QED BY <1>3, <1>4, <1>5 DEF ModInv

LEMMA CallInv == ASSUME NEW f \in Files PROVE ModInv /\ (Call(f) \/ (f \in busy /\ Done(f))) => ModInv'
<1> SUFFICES ASSUME ModInv, Call(f) \/ (f \in busy /\ Done(f)) PROVE ModInv'
  OBVIOUS
<1>1. /\ UNCHANGED <<driver, mod, todo, have, left, via, fds, maps>> /\ busy' \subseteq fds
  BY DEF Call, Done, kernel, ModInv, ModTypes
<1>2. ModTypes' /\ UsersInv'
  BY <1>1 DEF ModInv, ModTypes, UsersInv
<1> QED BY <1>1, <1>2, KernelKept DEF ModInv

\* Only the files of mmap_lkm.c and zpage.c are mapped, and no proc file is.
LEMMA my_mmapInv == ASSUME NEW f \in Files PROVE ModInv /\ my_mmap(f) => ModInv'
<1> SUFFICES ASSUME ModInv, my_mmap(f) PROVE ModInv'
  OBVIOUS
<1>1. /\ f \in busy /\ driver \in {"mmap", "zpage"} /\ busy' = busy \ {f} /\ maps' = maps \cup {f}
      /\ UNCHANGED <<driver, mod, todo, have, left, via, fds>>
  BY DEF my_mmap, kernel
<1>2. via[f] = "misc" /\ f \in fds
  <2>1. f \in fds /\ via[f] # "none"
    BY <1>1 DEF ModInv, ModTypes, UsersInv
  <2>2. via[f] \in Entries /\ via[f] \in ToSet(init)
    BY <2>1 DEF ModInv, ModTypes, UsersInv, HaveInv
  <2> QED BY <1>1, <2>1, <2>2, ModuleFacts DEF ModInv, ModTypes
<1>3. "misc" \notin ProcFiles
  BY DEF ProcFiles, SeqFiles
<1>4. ModTypes'
  BY <1>1 DEF ModInv, ModTypes
<1>5. UsersInv'
  BY <1>1, <1>2, <1>3 DEF ModInv, UsersInv
<1> QED BY <1>1, <1>4, <1>5, KernelKept DEF ModInv

LEMMA CloseInv == ASSUME NEW f \in Files PROVE ModInv /\ (Close(f) \/ Munmap(f)) => ModInv'
<1> SUFFICES ASSUME ModInv, Close(f) \/ Munmap(f) PROVE ModInv'
  OBVIOUS
<1>1. /\ UNCHANGED <<driver, mod, todo, have, left, busy>> /\ f \notin busy
      /\ fds' \subseteq fds /\ maps' \subseteq maps
      /\ \A g \in Files \ {f} : (g \in fds' <=> g \in fds) /\ (g \in maps' <=> g \in maps)
      /\ via' = IF f \in fds' \cup maps' THEN via ELSE [via EXCEPT ![f] = "none"]
  BY DEF Close, Munmap, Dropped, kernel
<1>2. /\ \A g \in Files \ {f} : via'[g] = via[g]
      /\ f \in fds' \cup maps' => via'[f] = via[f]
      /\ f \notin fds' \cup maps' => via'[f] = "none"
  BY <1>1 DEF ModInv, ModTypes
<1>3. ModTypes'
  BY <1>1 DEF ModInv, ModTypes
<1>4. UsersInv'
  <2>1. ASSUME NEW g \in Files
        PROVE  /\ via'[g] # "none" <=> g \in fds' \cup maps'
               /\ via'[g] # "none" => via'[g] = via[g]
    BY <1>1, <1>2 DEF ModInv, UsersInv
  <2>2. \A g \in maps' : g \in Files /\ g \in maps /\ via'[g] = via[g]
    BY <1>1, <1>2 DEF ModInv, ModTypes
  <2> QED BY <1>1, <2>1, <2>2 DEF ModInv, UsersInv
<1> QED BY <1>1, <1>3, <1>4, KernelKept DEF ModInv

LEMMA ModKept == ModInv /\ UNCHANGED modvars => ModInv'
<1> SUFFICES ASSUME ModInv, UNCHANGED modvars PROVE ModInv'
  OBVIOUS
<1>1. ModTypes' /\ UsersInv'
  BY DEF ModInv, ModTypes, UsersInv, modvars
<1> QED BY <1>1, KernelKept DEF ModInv, modvars

LEMMA ModStepInv == ModInv /\ ModNext => ModInv'
<1> SUFFICES ASSUME ModInv, ModNext PROVE ModInv'
  OBVIOUS
<1>1. CASE StrayWorkRuns
  BY <1>1, OopsInv DEF StrayWorkRuns
<1>2. ASSUME NEW f \in Files, my_ioctl(f) \/ Return(f) PROVE ModInv'
  <2>1. f \in busy /\ (Oops \/ Done(f))
    BY <1>2 DEF my_ioctl, Return
  <2>2. CASE Oops
    BY <2>2, OopsInv DEF Oops
  <2> QED BY <2>1, <2>2, CallInv
<1>3. ASSUME NEW f \in Files, Call(f) \/ my_mmap(f) \/ Close(f) \/ Munmap(f) PROVE ModInv'
  BY <1>3, CallInv, my_mmapInv, CloseInv
<1>4. CASE ModDone
  BY <1>4, ModKept DEF ModDone
<1> QED BY <1>1, <1>2, <1>3, <1>4, InsmodInv, AcquireInv, AcquireFailsInv, AcquireUnseenInv, RmmodInv,
           ReleaseInv, UnloadedInv, WorkRunsInv, OpenInv DEF ModNext

------------------------------------------------------------------------------
(* The scenes together *)

LEMMA UdpKept == UdpInv /\ UNCHANGED udpvars => UdpInv'
  BY DEF UdpInv, udpvars

\* The invariants of the module that is loaded, of the walk and of the servers.
THEOREM InvHolds == Spec => [](ModInv /\ ZudpInv /\ UdpInv)
<1>1. Init => ModInv /\ ZudpInv /\ UdpInv
  BY ModInitInv, ZudpInitInv, UdpInitInv DEF Init
<1>2. ModInv /\ ZudpInv /\ UdpInv /\ [Next]_vars => ModInv' /\ ZudpInv' /\ UdpInv'
  BY ModStepInv, ModKept, ZudpStepInv, ZudpKept, UdpStepInv, UdpKept
     DEF Next, vars, InModules, InEfd, InZudp, InUdp
<1> QED BY <1>1, <1>2, PTL DEF Spec

\* A handler or a mapping of any module but zpage.c finds the module, its entry
\* and its data.
THEOREM ReadyWhenUsedHolds == Spec => []ReadyWhenUsed
<1>1. ModInv => ReadyWhenUsed
  <2> SUFFICES ASSUME ModInv, driver # "zpage", NEW f \in busy \cup maps
               PROVE  /\ mod # "out" /\ via[f] \in have
                      /\ "data" \in ToSet(init) => "data" \in have
    BY DEF ReadyWhenUsed
  <2>1. f \in Files /\ via[f] # "none" /\ via[f] \in Entries
    BY DEF ModInv, ModTypes, UsersInv
  <2>2. via[f] \in have /\ via[f] \in ToSet(init) /\ mod # "out"
    BY <2>1 DEF ModInv, UsersInv, HaveInv
  <2>3. ASSUME "data" \in ToSet(init) PROVE "data" \in have
    <3>1. driver = "mmap" /\ via[f] = "misc"
      BY <2>1, <2>2, <2>3, ModuleFacts DEF ModInv, ModTypes
    <3> QED BY <2>2, <3>1 DEF ModInv, HaveInv
  <2> QED BY <2>2, <2>3
<1> QED BY <1>1, InvHolds, PTL

\* The walk lists each lasting socket once, in every table and however sockets
\* come and go around it.
THEOREM ListsLastingHolds == Spec => []ListsLasting
<1>1. ZudpInv => ListsLasting
  BY DEF ZudpInv, SteadyInv, ListsLasting
<1> QED BY <1>1, InvHolds, PTL

\* A server prints the text that was sent, for every size of the buffer.
THEOREM PrintsWhatWasSentHolds == Spec => []PrintsWhatWasSent
<1>1. UdpInv => PrintsWhatWasSent
  BY DEF UdpInv, PrintsWhatWasSent
<1> QED BY <1>1, InvHolds, PTL
==============================================================================
