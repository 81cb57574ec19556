----------------------------- MODULE PmonProofs -----------------------------
(***************************************************************************)
(* The safety properties of Pmon, for any number of monitors, any length   *)
(* of their queues and any failing calls.                                  *)
(*                                                                         *)
(* NoSilentGap needs SeqInv: the events a monitor has printed and those in *)
(* its queue follow one another, and up to an overrun they lead up to the  *)
(* next event of the kernel.  The two properties of the kernel's count need*)
(* CountInv: who is counted.                                               *)
(***************************************************************************)
EXTENDS Pmon, FiniteSetTheorems, SequenceTheorems, TLAPS

Succ(k) == (k + 1) % Wrap

\* The queue of a monitor that has not ended: it goes on where the monitor is,
\* without a gap, and, unless events were dropped, up to the next event.
Following(m) ==
    LET q == queue[m] IN
    /\ \A i \in 1 .. Len(q) - 1 : q[i + 1] = Succ(q[i])
    /\ q # <<>> /\ last[m] # None => q[1] = Succ(last[m])
    /\ m \notin overrun /\ q # <<>> => n = Succ(q[Len(q)])
    /\ m \notin overrun /\ q = <<>> /\ last[m] # None => n = Succ(last[m])
    /\ m \in overrun => Len(q) = QMax
    /\ pc[m] = "connect" => q = <<>> /\ last[m] = None

SeqInv == \A m \in Live : Following(m)

\* Who is at work, and who is gone.
Active == {m \in Monitors : pc[m] \in {"test", "recv", "ignore"}}
Failed == {m \in Monitors : pc[m] = "failure"}

\* The count is the number of monitors at work, of those whose IGNORE was lost
\* and of some that ended in a failure: those that failed after their LISTEN.
CountInv ==
    /\ \A m \in lost : pc[m] = "ok"
    /\ \E F \in SUBSET Failed : listeners = Cardinality(Active \cup lost \cup F)

IInv == TypeOK /\ SeqInv /\ NoSilentGap /\ CountInv

-----------------------------------------------------------------------------
(* Lemmas about the operators *)

\* Taking the first element of a sequence.
LEMMA HeadTailFacts ==
    ASSUME NEW T, NEW s \in Seq(T), s # <<>>
    PROVE  /\ Len(s) \in Nat \ {0} /\ Head(s) = s[1] /\ Head(s) \in T
           /\ Tail(s) \in Seq(T) /\ Len(Tail(s)) = Len(s) - 1
           /\ \A i \in 1 .. Len(s) - 1 : Tail(s)[i] = s[i + 1]
           /\ (Tail(s) = <<>> <=> Len(s) = 1)
<1>1. Len(s) \in Nat \ {0}
  BY EmptySeq
<1>2. Head(s) = s[1]
  OBVIOUS
<1>3. /\ Head(s) \in T /\ Tail(s) \in Seq(T) /\ Len(Tail(s)) = Len(s) - 1
      /\ \A i \in 1 .. Len(Tail(s)) : Tail(s)[i] = s[i + 1]
  BY HeadTailProperties
<1> DEFINE t == Tail(s)
<1>4. t = <<>> <=> Len(t) = 0
  <2> HIDE DEF t
  <2>1. t \in Seq(T)
    BY <1>3 DEF t
  <2> QED BY <2>1, EmptySeq
<1>5. Tail(s) = <<>> <=> Len(s) = 1
  BY <1>1, <1>3, <1>4
<1> QED BY <1>1, <1>2, <1>3, <1>5

\* Numbering modulo Wrap: each number has a successor, and its predecessor is
\* the number itself.
LEMMA SuccFacts ==
    \A k \in 0 .. Wrap-1 : Succ(k) \in 0 .. Wrap-1 /\ (Succ(k) - 1) % Wrap = k
<1> SUFFICES ASSUME NEW k \in 0 .. Wrap-1
             PROVE  Succ(k) \in 0 .. Wrap-1 /\ (Succ(k) - 1) % Wrap = k
  OBVIOUS
<1>1. Wrap \in Nat /\ Wrap > 1
  BY PmonAssumption
<1>2. CASE k = Wrap - 1
  <2>1. Succ(k) = 0
    BY <1>1, <1>2 DEF Succ
  <2>2. (-1) % Wrap = Wrap - 1
    BY <1>1
  <2> QED BY <1>1, <1>2, <2>1, <2>2
<1>3. CASE k < Wrap - 1
  <2>1. Succ(k) = k + 1
    BY <1>1, <1>3 DEF Succ
  <2>2. k % Wrap = k
    BY <1>1
  <2> QED BY <1>1, <1>3, <2>1, <2>2
<1> QED BY <1>1, <1>2, <1>3

\* What Multicast makes of the kernel's part of the state.
LEMMA MulticastType ==
    ASSUME TypeOK, NEW c \in Int, Multicast(c)
    PROVE  /\ queue' \in [Monitors -> Seq(0 .. Wrap-1)]
           /\ \A m \in Monitors : Len(queue'[m]) =< QMax
           /\ overrun' \subseteq Monitors /\ n' \in 0 .. Wrap-1
<1>1. n' \in 0 .. Wrap-1
  BY SuccFacts DEF TypeOK, Multicast, Succ
<1>2. overrun' \subseteq Monitors
  BY DEF TypeOK, Multicast, Bound, Live
<1>3. ASSUME NEW q \in Seq(0 .. Wrap-1), Len(q) < QMax
      PROVE  Append(q, n) \in Seq(0 .. Wrap-1) /\ Len(Append(q, n)) =< QMax
  BY <1>3, PmonAssumption DEF TypeOK
<1>4. /\ queue' \in [Monitors -> Seq(0 .. Wrap-1)]
      /\ \A m \in Monitors : Len(queue'[m]) =< QMax
  <2>1. CASE UNCHANGED queue
    BY <2>1 DEF TypeOK
  <2>2. CASE queue' = [m \in Monitors |->
                IF m \in Bound /\ Len(queue[m]) < QMax THEN Append(queue[m], n) ELSE queue[m]]
    BY <1>3, <2>2 DEF TypeOK
  <2> QED BY <2>1, <2>2 DEF Multicast
<1> QED BY <1>1, <1>2, <1>4

\* An event that is queued goes where the monitor's queue ended; one that is
\* dropped marks the monitor.
LEMMA MulticastFollowing ==
    ASSUME TypeOK, NEW c \in Int, Multicast(c), NEW m \in Live, Following(m),
           last'[m] = last[m], pc'[m] = "connect" => pc[m] = "connect"
    PROVE  Following(m)'
<1> DEFINE q == queue[m]
<1>0. /\ m \in Monitors /\ q \in Seq(0 .. Wrap-1) /\ Len(q) =< QMax
      /\ QMax \in Nat \ {0} /\ n \in 0 .. Wrap-1
  BY PmonAssumption DEF TypeOK, Live
<1>1. CASE UNCHANGED <<queue, overrun, n>>
  BY <1>1 DEF Following
<1>2. CASE ~UNCHANGED <<queue, overrun, n>>
  <2>0. /\ queue'[m] = IF m \in Bound /\ Len(q) < QMax THEN Append(q, n) ELSE q
        /\ overrun' = overrun \cup {k \in Bound : Len(queue[k]) = QMax}
        /\ n' = Succ(n)
    BY <1>0, <1>2 DEF Multicast, Succ
  <2>1. CASE m \notin Bound
    BY <2>0, <2>1 DEF Bound, Following
  <2>2. CASE m \in Bound /\ Len(q) = QMax
    <3>1. queue'[m] = q /\ m \in overrun' /\ q # <<>>
      BY <1>0, <2>0, <2>2
    <3>2. pc'[m] # "connect"
      BY <2>2 DEF Bound
    <3> QED BY <2>2, <3>1, <3>2 DEF Following
  <2>3. CASE m \in Bound /\ Len(q) < QMax
    <3> DEFINE r == Append(q, n)
    <3>1. queue'[m] = r /\ m \notin overrun' /\ m \notin overrun /\ pc'[m] # "connect"
      BY <1>0, <2>0, <2>3 DEF Bound, Following
    <3>2. /\ Len(r) = Len(q) + 1 /\ r # <<>> /\ r[Len(r)] = n
          /\ \A i \in 1 .. Len(q) : r[i] = q[i]
      BY <1>0
    <3>3. n' = Succ(r[Len(r)])
      BY <2>0, <3>2
    <3>4. ASSUME NEW i \in 1 .. Len(r) - 1 PROVE r[i + 1] = Succ(r[i])
      <4>1. CASE i < Len(q)
        BY <1>0, <3>2, <4>1 DEF Following
      <4>2. CASE i = Len(q)
        <5>1. q # <<>>
          BY <1>0, <4>2
        <5> QED BY <1>0, <3>1, <3>2, <4>2, <5>1 DEF Following
      <4> QED BY <1>0, <3>2, <4>1, <4>2
    <3>5. last'[m] # None => r[1] = Succ(last'[m])
      <4>1. CASE q = <<>>
        BY <1>0, <3>1, <3>2, <4>1 DEF Following
      <4>2. CASE q # <<>>
        BY <1>0, <3>1, <3>2, <4>2 DEF Following
      <4> QED BY <4>1, <4>2
    <3> HIDE DEF r
    <3> QED BY <3>1, <3>2, <3>3, <3>4, <3>5 DEF Following
  <2> QED BY <1>0, <2>1, <2>2, <2>3
<1> QED BY <1>1, <1>2

-----------------------------------------------------------------------------
(* The kernel's count of listeners *)

LEMMA CountedFinite ==
    ASSUME TypeOK, NEW F \in SUBSET Failed
    PROVE  IsFiniteSet(Active \cup lost \cup F)
<1>1. Active \cup lost \cup F \subseteq Monitors
  BY DEF TypeOK, Active, Failed
<1> QED BY <1>1, PmonAssumption, FS_Subset

\* A monitor at work is one of those counted.
LEMMA CountedIsPositive == TypeOK /\ CountInv => listeners \in Nat /\ StillCounted
<1> SUFFICES ASSUME TypeOK, CountInv, NEW m \in Monitors, m \in Active
             PROVE  listeners > 0
  BY DEF TypeOK, StillCounted, Active
<1>1. PICK F \in SUBSET Failed : listeners = Cardinality(Active \cup lost \cup F)
  BY DEF CountInv
<1>2. listeners # 0
  BY <1>1, CountedFinite, FS_EmptySet
<1> QED BY <1>2 DEF TypeOK

\* A step that changes neither the count nor who is counted.
LEMMA CountKept ==
    ASSUME CountInv, UNCHANGED <<listeners, lost>>, Active' = Active, Failed \subseteq Failed',
           \A m \in Monitors : pc[m] = "ok" => pc'[m] = "ok", TypeOK
    PROVE  CountInv'
<1>1. \A m \in lost' : pc'[m] = "ok"
  BY DEF CountInv, TypeOK
<1>2. PICK F \in SUBSET Failed : listeners = Cardinality(Active \cup lost \cup F)
  BY DEF CountInv
<1>3. F \in SUBSET Failed' /\ listeners' = Cardinality(Active' \cup lost' \cup F)
  BY <1>2
<1> QED BY <1>1, <1>3 DEF CountInv

LEMMA CountStep == TypeOK /\ CountInv /\ [Next]_vars => CountInv'
<1> SUFFICES ASSUME TypeOK, CountInv, [Next]_vars PROVE CountInv'
  OBVIOUS
<1>0. PICK F \in SUBSET Failed : listeners = Cardinality(Active \cup lost \cup F)
  BY DEF CountInv
<1> DEFINE S == Active \cup lost \cup F
<1>1. IsFiniteSet(S)
  BY CountedFinite
<1>2. ASSUME NEW m \in Monitors, nl_connect(m) \/ Test(m) \/ Recv(m) \/ on_sigint(m)
      PROVE  CountInv'
  <2>1. UNCHANGED <<listeners, lost>>
    BY <1>2 DEF nl_connect, Test, Recv, on_sigint, kernel
  <2>2. Active' = Active
    BY <1>2 DEF nl_connect, Test, Recv, on_sigint, Goto, Active, TypeOK
  <2>3. Failed \subseteq Failed' /\ \A k \in Monitors : pc[k] = "ok" => pc'[k] = "ok"
    BY <1>2 DEF nl_connect, Test, Recv, on_sigint, Goto, Failed, TypeOK
  <2> QED BY <2>1, <2>2, <2>3, CountKept
<1>3. ASSUME NEW m \in Monitors, set_proc_ev_listen_on(m) PROVE CountInv'
  <2>1. pc[m] = "listen" /\ lost' = lost
    BY <1>3 DEF set_proc_ev_listen_on
  <2>2. CASE Goto(m, "test") /\ listeners' = listeners + 1
    <3>1. m \notin S
      BY <2>1 DEF Active, Failed, CountInv
    <3>2. Active' \cup lost' \cup F = S \cup {m} /\ Failed' = Failed
      BY <2>1, <2>2 DEF Goto, Active, Failed, TypeOK
    <3>3. listeners' = Cardinality(S \cup {m})
      BY <1>0, <1>1, <2>2, <3>1, FS_AddElement
    <3>4. \A k \in lost' : pc'[k] = "ok"
      BY <2>1, <2>2 DEF CountInv, Goto, TypeOK
    <3> QED BY <3>2, <3>3, <3>4 DEF CountInv
  <2>3. CASE Goto(m, "failure") /\ UNCHANGED kernel
    <3>1. Active' = Active /\ Failed \subseteq Failed' /\ UNCHANGED listeners
      BY <2>1, <2>3 DEF Goto, Active, Failed, TypeOK, kernel
    <3>2. \A k \in Monitors : pc[k] = "ok" => pc'[k] = "ok"
      BY <2>1, <2>3 DEF Goto, TypeOK
    <3> QED BY <2>1, <3>1, <3>2, CountKept
  <2> QED BY <1>3, <2>2, <2>3 DEF set_proc_ev_listen_on
<1>4. ASSUME NEW m \in Monitors, RecvError(m) PROVE CountInv'
  <2>1. pc[m] = "recv" /\ Goto(m, "failure") /\ UNCHANGED <<listeners, lost>>
    BY <1>4 DEF RecvError
  <2>2. F \cup {m} \in SUBSET Failed'
    BY <2>1 DEF Goto, Failed, TypeOK
  <2>3. Active' \cup lost' \cup (F \cup {m}) = S
    BY <2>1 DEF Goto, Active, TypeOK
  <2>4. \A k \in lost' : pc'[k] = "ok"
    BY <2>1 DEF CountInv, Goto, TypeOK
  <2>5. listeners' = Cardinality(Active' \cup lost' \cup (F \cup {m}))
    BY <1>0, <2>1, <2>3
  <2> QED BY <2>2, <2>4, <2>5 DEF CountInv
<1>7. ASSUME NEW m \in Monitors, RecvFault(m) PROVE CountInv'
  <2>1. pc[m] = "recv" /\ UNCHANGED <<listeners, lost>>
    BY <1>7 DEF RecvFault, kernel
  <2>2. CASE Goto(m, "ignore")
    <3>1. Active' = Active /\ Failed' = Failed /\ \A k \in Monitors : pc[k] = "ok" => pc'[k] = "ok"
      BY <2>1, <2>2 DEF Goto, Active, Failed, TypeOK
    <3> QED BY <2>1, <3>1, CountKept
  <2>3. CASE Goto(m, "failure")
    <3>1. F \cup {m} \in SUBSET Failed'
      BY <2>1, <2>3 DEF Goto, Failed, TypeOK
    <3>2. Active' \cup lost' \cup (F \cup {m}) = S
      BY <2>1, <2>3 DEF Goto, Active, TypeOK
    <3>3. \A k \in lost' : pc'[k] = "ok"
      BY <2>1, <2>3 DEF CountInv, Goto, TypeOK
    <3>4. listeners' = Cardinality(Active' \cup lost' \cup (F \cup {m}))
      BY <1>0, <2>1, <3>2
    <3> QED BY <3>1, <3>3, <3>4 DEF CountInv
  <2> QED BY <1>7, <2>2, <2>3 DEF RecvFault
<1>5. ASSUME NEW m \in Monitors, set_proc_ev_listen_off(m) PROVE CountInv'
  <2>1. pc[m] = "ignore" /\ Goto(m, "ok")
    BY <1>5 DEF set_proc_ev_listen_off
  <2>2. Failed' = Failed /\ Active' = Active \ {m} /\ m \in Active /\ m \notin lost \cup F
    BY <2>1 DEF Goto, Active, Failed, CountInv, TypeOK
  <2>3. CASE listeners' = listeners - 1 /\ UNCHANGED lost
    <3>1. Active' \cup lost' \cup F = S \ {m} /\ m \in S
      BY <2>2, <2>3
    <3>2. listeners' = Cardinality(S \ {m})
      BY <1>0, <1>1, <2>3, <3>1, FS_RemoveElement
    <3>3. \A k \in lost' : pc'[k] = "ok"
      BY <2>1, <2>3 DEF CountInv, Goto, TypeOK
    <3> QED BY <2>2, <3>1, <3>2, <3>3 DEF CountInv
  <2>4. CASE lost' = lost \cup {m} /\ UNCHANGED kernel
    <3>1. Active' \cup lost' \cup F = S
      BY <2>2, <2>4
    <3>2. \A k \in lost' : pc'[k] = "ok"
      BY <2>1, <2>4 DEF CountInv, Goto, TypeOK
    <3>3. listeners' = Cardinality(Active' \cup lost' \cup F)
      BY <1>0, <2>4, <3>1 DEF kernel
    <3> QED BY <2>2, <3>2, <3>3 DEF CountInv
  <2> QED BY <1>5, <2>3, <2>4 DEF set_proc_ev_listen_off
<1>6. CASE Event \/ UNCHANGED vars
  <2>1. UNCHANGED <<pc, listeners, lost>>
    BY <1>6 DEF Event, vars, kernel
  <2>2. Active' = Active /\ Failed' = Failed
    BY <2>1 DEF Active, Failed
  <2> QED BY <2>1, <2>2, CountKept
<1> QED BY <1>2, <1>3, <1>4, <1>5, <1>6, <1>7 DEF Next, Step, Terminated

-----------------------------------------------------------------------------
(* Types and sequences of events *)

LEMMA TypeStep == TypeOK /\ CountInv /\ [Next]_vars => TypeOK'
<1> SUFFICES ASSUME TypeOK, CountInv, [Next]_vars PROVE TypeOK'
  OBVIOUS
<1>1. ASSUME NEW m \in Monitors, nl_connect(m) \/ Test(m) \/ RecvError(m) \/ RecvFault(m) \/ on_sigint(m)
      PROVE  TypeOK'
  BY <1>1 DEF nl_connect, Test, RecvError, RecvFault, on_sigint, Goto, kernel, TypeOK
<1>2. ASSUME NEW m \in Monitors, set_proc_ev_listen_on(m) PROVE TypeOK'
  <2>1. CASE Goto(m, "test") /\ listeners' = listeners + 1 /\ Multicast(listeners + 1)
    <3>1. listeners + 1 \in Int
      BY DEF TypeOK
    <3> QED BY <1>2, <2>1, <3>1, MulticastType DEF set_proc_ev_listen_on, Goto, TypeOK
  <2>2. CASE Goto(m, "failure") /\ UNCHANGED kernel
    BY <1>2, <2>2 DEF set_proc_ev_listen_on, Goto, kernel, TypeOK
  <2> QED BY <1>2, <2>1, <2>2 DEF set_proc_ev_listen_on
<1>3. ASSUME NEW m \in Monitors, Recv(m) PROVE TypeOK'
  <2> DEFINE q == queue[m]
  <2>1. q \in Seq(0 .. Wrap-1) /\ q # <<>> /\ Len(q) =< QMax
    BY <1>3 DEF Recv, TypeOK
  <2>2. /\ Head(q) \in 0 .. Wrap-1 /\ Tail(q) \in Seq(0 .. Wrap-1)
        /\ Len(Tail(q)) = Len(q) - 1 /\ Len(q) \in Nat
    BY <2>1, HeadTailFacts
  <2>3. Len(Tail(q)) =< QMax
    BY <2>1, <2>2, PmonAssumption
  <2> QED BY <1>3, <2>2, <2>3 DEF Recv, Goto, TypeOK
<1>4. ASSUME NEW m \in Monitors, set_proc_ev_listen_off(m) PROVE TypeOK'
  <2>1. listeners - 1 \in Nat
    BY <1>4, CountedIsPositive DEF set_proc_ev_listen_off, StillCounted, TypeOK
  <2>2. CASE listeners' = listeners - 1 /\ Multicast(listeners - 1) /\ UNCHANGED lost
    <3>1. listeners - 1 \in Int
      BY <2>1
    <3> QED BY <1>4, <2>1, <2>2, <3>1, MulticastType DEF set_proc_ev_listen_off, Goto, TypeOK
  <2>3. CASE lost' = lost \cup {m} /\ UNCHANGED kernel
    BY <1>4, <2>3 DEF set_proc_ev_listen_off, Goto, kernel, TypeOK
  <2> QED BY <1>4, <2>2, <2>3 DEF set_proc_ev_listen_off
<1>5. CASE Event
  <2>1. listeners \in Int
    BY DEF TypeOK
  <2> QED BY <1>5, <2>1, MulticastType DEF Event, TypeOK
<1>6. CASE UNCHANGED vars
  BY <1>6 DEF vars, kernel, TypeOK
<1> QED BY <1>1, <1>2, <1>3, <1>4, <1>5, <1>6 DEF Next, Step, Terminated

\* A monitor that takes an event out of its queue takes the one that follows
\* the last it printed.
LEMMA RecvFollows ==
    ASSUME TypeOK, SeqInv, NoSilentGap, NEW m \in Monitors, Recv(m)
    PROVE  NoSilentGap' /\ Following(m)'
<1> DEFINE q == queue[m]  t == Tail(q)
<1>1. /\ pc[m] = "recv" /\ m \notin overrun /\ q # <<>> /\ q \in Seq(0 .. Wrap-1)
      /\ queue'[m] = t /\ last'[m] = Head(q) /\ pc'[m] = "test"
      /\ UNCHANGED <<overrun, n>>
      /\ hole' = IF last[m] \in {None, (Head(q) - 1) % Wrap} THEN hole ELSE hole \cup {m}
  BY DEF Recv, Goto, TypeOK
<1>2. Following(m)
  BY <1>1 DEF SeqInv, Live
<1>3. /\ Head(q) = q[1] /\ Head(q) \in 0 .. Wrap-1 /\ Len(t) = Len(q) - 1
      /\ Len(q) \in Nat \ {0} /\ \A i \in 1 .. Len(t) : t[i] = q[i + 1]
      /\ (t = <<>> <=> Len(q) = 1)
  BY <1>1, HeadTailFacts
<1>4. last[m] \in {None, (Head(q) - 1) % Wrap}
  <2>1. CASE last[m] = None
    BY <2>1
  <2>2. CASE last[m] # None
    <3>1. last[m] \in 0 .. Wrap-1 /\ Head(q) = Succ(last[m])
      BY <1>1, <1>2, <1>3, <2>2 DEF Following, TypeOK
    <3> QED BY <3>1, SuccFacts
  <2> QED BY <2>1, <2>2
<1>5. NoSilentGap'
  BY <1>1, <1>4 DEF NoSilentGap
<1>6. \A i \in 1 .. Len(t) - 1 : t[i + 1] = Succ(t[i])
  BY <1>2, <1>3 DEF Following
<1>7. t # <<>> => t[1] = Succ(Head(q)) /\ t[Len(t)] = q[Len(q)] /\ n = Succ(q[Len(q)])
  <2> SUFFICES ASSUME t # <<>>
               PROVE  t[1] = Succ(Head(q)) /\ t[Len(t)] = q[Len(q)] /\ n = Succ(q[Len(q)])
    OBVIOUS
  <2>1. Len(t) >= 1
    BY <1>1, <1>3
  <2> QED BY <1>1, <1>2, <1>3, <2>1 DEF Following
<1>8. t = <<>> => n = Succ(Head(q))
  <2> SUFFICES ASSUME t = <<>> PROVE n = Succ(Head(q))
    OBVIOUS
  <2>1. Len(q) = 1
    BY <1>3
  <2> QED BY <1>1, <1>2, <1>3, <2>1 DEF Following
<1> HIDE DEF t
<1>9. Following(m)'
  BY <1>1, <1>6, <1>7, <1>8 DEF Following
<1> QED BY <1>5, <1>9

LEMMA SeqStep == TypeOK /\ SeqInv /\ NoSilentGap /\ [Next]_vars => SeqInv' /\ NoSilentGap'
<1> SUFFICES ASSUME TypeOK, SeqInv, NoSilentGap, [Next]_vars PROVE SeqInv' /\ NoSilentGap'
  OBVIOUS
<1>1. ASSUME UNCHANGED <<queue, last, overrun, n, hole>>, Live' \subseteq Live,
             \A m \in Live' : pc'[m] = "connect" => pc[m] = "connect"
      PROVE  SeqInv' /\ NoSilentGap'
  BY <1>1 DEF SeqInv, Following, NoSilentGap
<1>2. ASSUME NEW c \in Int, Multicast(c), UNCHANGED <<last, hole>>, Live' \subseteq Live,
             \A m \in Live' : pc'[m] = "connect" => pc[m] = "connect"
      PROVE  SeqInv' /\ NoSilentGap'
  <2>1. ASSUME NEW m \in Live' PROVE Following(m)'
    <3>1. m \in Live /\ Following(m)
      BY <1>2, <2>1 DEF SeqInv
    <3> QED BY <1>2, <3>1, MulticastFollowing
  <2> QED BY <1>2, <2>1 DEF SeqInv, NoSilentGap
<1>3. ASSUME NEW m \in Monitors, nl_connect(m) \/ Test(m) \/ RecvFault(m) \/ on_sigint(m)
      PROVE  SeqInv' /\ NoSilentGap'
  <2>1. UNCHANGED <<queue, last, overrun, n, hole>>
    BY <1>3 DEF nl_connect, Test, RecvFault, on_sigint, kernel
  <2>2. Live' \subseteq Live /\ \A k \in Live' : pc'[k] = "connect" => pc[k] = "connect"
    BY <1>3 DEF nl_connect, Test, RecvFault, on_sigint, Goto, Live, TypeOK
  <2> QED BY <1>1, <2>1, <2>2
<1>4. ASSUME NEW m \in Monitors, set_proc_ev_listen_on(m) \/ set_proc_ev_listen_off(m)
      PROVE  SeqInv' /\ NoSilentGap'
  <2>1. Live' \subseteq Live /\ \A k \in Live' : pc'[k] = "connect" => pc[k] = "connect"
    BY <1>4 DEF set_proc_ev_listen_on, set_proc_ev_listen_off, Goto, Live, TypeOK
  <2>2. UNCHANGED <<last, hole>>
    BY <1>4 DEF set_proc_ev_listen_on, set_proc_ev_listen_off
  <2>3. listeners + 1 \in Int /\ listeners - 1 \in Int
    BY DEF TypeOK
  <2>4. Multicast(listeners + 1) \/ Multicast(listeners - 1) \/ UNCHANGED <<queue, overrun, n>>
    BY <1>4 DEF set_proc_ev_listen_on, set_proc_ev_listen_off, kernel
  <2> QED BY <1>1, <1>2, <2>1, <2>2, <2>3, <2>4
<1>5. ASSUME NEW m \in Monitors, RecvError(m) PROVE SeqInv' /\ NoSilentGap'
  <2>1. Live' = Live \ {m} /\ \A k \in Live' : pc'[k] = pc[k]
    BY <1>5 DEF RecvError, Goto, Live, TypeOK
  <2>2. overrun' = overrun \ {m} /\ UNCHANGED <<queue, last, n, hole>>
    BY <1>5 DEF RecvError
  <2>3. ASSUME NEW k \in Live' PROVE Following(k)'
    BY <2>1, <2>2, <2>3 DEF SeqInv, Following
  <2> QED BY <2>2, <2>3 DEF SeqInv, NoSilentGap
<1>6. ASSUME NEW m \in Monitors, Recv(m) PROVE SeqInv' /\ NoSilentGap'
  <2>1. NoSilentGap' /\ Following(m)'
    BY <1>6, RecvFollows
  <2>2. ASSUME NEW k \in Live', k # m PROVE Following(k)'
    <3>1. /\ k \in Live /\ pc'[k] = pc[k] /\ queue'[k] = queue[k] /\ last'[k] = last[k]
          /\ UNCHANGED <<overrun, n>>
      BY <1>6, <2>2 DEF Recv, Goto, Live, TypeOK
    <3> QED BY <3>1 DEF SeqInv, Following
  <2> QED BY <2>1, <2>2 DEF SeqInv
<1>7. CASE Event
  <2>1. listeners \in Int /\ Live' = Live
    BY <1>7 DEF TypeOK, Event, Live
  <2> QED BY <1>2, <1>7, <2>1 DEF Event
<1>8. CASE UNCHANGED vars
  <2>1. Live' = Live
    BY <1>8 DEF vars, Live
  <2> QED BY <1>1, <1>8, <2>1 DEF vars, kernel
<1> QED BY <1>3, <1>4, <1>5, <1>6, <1>7, <1>8 DEF Next, Step, Terminated

-----------------------------------------------------------------------------
(* Theorems *)

\* The combined invariant holds in every state.
THEOREM InvHolds == Spec => []IInv
<1>1. Init => IInv
  <2> SUFFICES ASSUME Init PROVE IInv
    OBVIOUS
  <2>1. TypeOK
    BY PmonAssumption DEF Init, TypeOK
  <2>2. SeqInv /\ NoSilentGap
    BY PmonAssumption DEF Init, SeqInv, Following, NoSilentGap, Live
  <2>3. CountInv
    <3>1. Active \cup lost \cup {} = {} /\ lost = {} /\ listeners = 0
      BY DEF Init, Active
    <3> QED BY <3>1, FS_EmptySet DEF CountInv
  <2> QED BY <2>1, <2>2, <2>3 DEF IInv
<1>2. IInv /\ [Next]_vars => IInv'
  BY TypeStep, SeqStep, CountStep DEF IInv
<1> QED BY <1>1, <1>2, PTL DEF Spec

\* No monitor prints events with a gap between them: the receive loop of pmon.c
\* ends on the error that follows an overrun (pmon.c:104-107).
THEOREM NoSilentGapHolds == Spec => []NoSilentGap
<1>1. IInv => NoSilentGap
  BY DEF IInv
<1> QED BY <1>1, InvHolds, PTL

\* A monitor at work is counted by the kernel, whatever the others do.
THEOREM StillCountedHolds == Spec => []StillCounted
<1>1. IInv => StillCounted
  BY CountedIsPositive DEF IInv
<1> QED BY <1>1, InvHolds, PTL

\* When all monitors have ended the count is that of the IGNORE messages that
\* could not be sent, and of at most those monitors that failed.
THEOREM EndBalancesHolds == Spec => []EndBalances
<1>1. IInv => EndBalances
  <2> SUFFICES ASSUME CountInv, TypeOK, Live = {}
               PROVE  /\ Cardinality(lost) =< listeners
                      /\ listeners =< Cardinality(lost) + Cardinality(Failed)
    BY DEF IInv, EndBalances, Failed
  <2>1. Active = {}
    BY DEF Active, Live
  <2>2. PICK F \in SUBSET Failed : listeners = Cardinality(Active \cup lost \cup F)
    BY DEF CountInv
  <2>3. Active \cup lost \cup F = lost \cup F /\ lost \cap F = {}
    BY <2>1 DEF CountInv, Failed
  <2>4. lost \subseteq Monitors /\ Failed \subseteq Monitors
    BY DEF TypeOK, Failed
  <2>5. IsFiniteSet(lost) /\ IsFiniteSet(F) /\ IsFiniteSet(Failed)
    BY <2>4, PmonAssumption, FS_Subset
  <2>6. Cardinality(lost \cup F) = Cardinality(lost) + Cardinality(F) - Cardinality(lost \cap F)
    BY <2>5, FS_Union
  <2>7. Cardinality(F) =< Cardinality(Failed)
    BY <2>5, FS_Subset
  <2>8. /\ Cardinality(lost) \in Nat /\ Cardinality(F) \in Nat /\ Cardinality(Failed) \in Nat
        /\ Cardinality(lost \cap F) = 0
    BY <2>3, <2>5, FS_CardinalityType, FS_EmptySet
  <2>9. listeners = Cardinality(lost \cup F)
    BY <2>2, <2>3
  <2> DEFINE a == Cardinality(lost)  b == Cardinality(F)  c == Cardinality(Failed)
  <2>10. listeners = a + b - 0 /\ a \in Nat /\ b \in Nat /\ c \in Nat /\ b =< c
    BY <2>6, <2>7, <2>8, <2>9
  <2> HIDE DEF a, b, c
  <2>11. a =< listeners /\ listeners =< a + c
    BY <2>10
  <2> QED BY <2>11 DEF a, c
<1> QED BY <1>1, InvHolds, PTL
=============================================================================
