--------------------------- MODULE EventfdProofs ---------------------------
(***************************************************************************)
(* Proofs about Eventfd, for every number of eventfds, every timeout, every*)
(* scheduling delay and every set of failing calls.                        *)
(***************************************************************************)
EXTENDS Eventfd, TLAPS

LEMMA IntervalType == \A e \in Efds : Interval(e) \in Nat \ {0} /\ Value(e) \in Nat \ {0}
  BY ConstantsAssumption, SMT DEF Efds, Interval, Value

LEMMA ThreadNames ==
    /\ Main \in Threads /\ Reader \in Threads /\ Efds \subseteq Threads
    /\ Main # Reader /\ Main \notin Efds /\ Reader \notin Efds
    /\ 0 \in Efds
  BY ConstantsAssumption DEF Threads, Main, Reader, Efds

LEMMA LoopType ==
    ASSUME NEW next, LoopTo(next), mi \in Efds
    PROVE  mi' \in Efds /\ mpc' \in {mpc, next}
  BY ConstantsAssumption DEF LoopTo, Efds

LEMMA TypeStep == TypeOK /\ [Next]_vars => TypeOK'
<1> SUFFICES ASSUME TypeOK, [Next]_vars PROVE TypeOK'
  OBVIOUS
<1>0. faults' = faults
  BY DEF Next, vars
<1> USE <1>0, ConstantsAssumption, IntervalType, ThreadNames
    DEF TypeOK, Ended, Ran, mvars, rvars, wvars
<1>1. CASE Malloc BY <1>1 DEF Malloc
<1>2. CASE OpenEfd
  <2>1. CASE LoopTo("reader") /\ open' = open \cup {mi}
    BY <1>2, <2>1, LoopType DEF OpenEfd
  <2>2. CASE mpc' = "exit1" /\ UNCHANGED <<mi, open>>
    BY <1>2, <2>2 DEF OpenEfd
  <2> QED BY <1>2, <2>1, <2>2 DEF OpenEfd
<1>3. CASE CreateReader BY <1>3 DEF CreateReader
<1>4. CASE CreateWriter
  <2>1. mi' \in Efds /\ mpc' \in {mpc, "joinw"}
    BY <1>4, LoopType DEF CreateWriter
  <2>2. wpc' \in [Efds -> {"none", "write", "sleep", "ended"}] /\ lag' \in [Threads -> Nat]
    BY <1>4 DEF CreateWriter
  <2> QED BY <1>4, <2>1, <2>2 DEF CreateWriter
<1>5. CASE JoinWriter
  <2>1. mi' \in Efds /\ mpc' \in {mpc, "joinr", "crash"}
    BY <1>5, LoopType DEF JoinWriter
  <2> QED BY <1>5, <2>1 DEF JoinWriter
<1>6. CASE JoinReader BY <1>6 DEF JoinReader
<1>7. CASE CloseEfd BY <1>7, LoopType DEF CloseEfd
<1>8. CASE ReaderStart BY <1>8 DEF ReaderStart, EpollWaitCall
<1>9. CASE ReaderWake BY <1>9 DEF ReaderWake, Ready
<1>10. CASE ReaderTimeout BY <1>10 DEF ReaderTimeout
<1>11. CASE ReaderWaitError BY <1>11 DEF ReaderWaitError
<1>12. CASE ReaderRead BY <1>12 DEF ReaderRead, EpollWaitCall
<1>13. ASSUME NEW e \in Efds, WriterWrite(e) PROVE TypeOK'
  <2>1. ctr' \in [Efds -> Nat] /\ written' \in [Efds -> Nat] /\ wtimer' \in [Efds -> Nat]
    BY <1>13 DEF WriterWrite
  <2>2. wpc' \in [Efds -> {"none", "write", "sleep", "ended"}]
    BY <1>13 DEF WriterWrite
  <2>3. lag' \in [Threads -> Nat]
    BY <1>13 DEF WriterWrite
  <2> QED BY <1>13, <2>1, <2>2, <2>3 DEF WriterWrite
<1>14. ASSUME NEW e \in Efds, WriterWake(e) PROVE TypeOK'
  BY <1>14 DEF WriterWake
<1>15. CASE Tick
  <2>1. \A n \in Nat : CountDown(n) \in Nat
    BY DEF CountDown
  <2>2. lag' \in [Threads -> Nat] /\ rtimer' \in Nat /\ wtimer' \in [Efds -> Nat]
    BY <1>15, <2>1 DEF Tick
  <2> QED BY <1>15, <2>2 DEF Tick
<1>16. CASE UNCHANGED vars BY <1>16 DEF vars
<1> QED BY <1>1, <1>2, <1>3, <1>4, <1>5, <1>6, <1>7, <1>8, <1>9, <1>10, <1>11,
           <1>12, <1>13, <1>14, <1>15, <1>16 DEF Next, Terminated

LEMMA TypeInit == Init => TypeOK
<1> SUFFICES ASSUME Init PROVE TypeOK
  OBVIOUS
<1>1. mi \in Efds /\ rtimer \in Nat
  BY ThreadNames DEF Init
<1>2. /\ ctr \in [Efds -> Nat] /\ wi \in [Efds -> Nat] /\ wtimer \in [Efds -> Nat]
      /\ written \in [Efds -> Nat] /\ delivered \in [Efds -> Nat] /\ lag \in [Threads -> Nat]
  BY DEF Init
<1>3. wpc \in [Efds -> {"none", "write", "sleep", "ended"}]
  BY DEF Init
<1> QED BY <1>1, <1>2, <1>3 DEF Init, TypeOK, Ended

\* Every variable keeps its type.
THEOREM TypeCorrect == Spec => []TypeOK
  BY TypeInit, TypeStep, PTL DEF Spec

-----------------------------------------------------------------------------
(***************************************************************************)
(* NoUseAfterClose and ReadNeverBlocks rest on where main is: which threads*)
(* exist, which have been joined and which descriptors are open.           *)
(***************************************************************************)
MainInv ==
    /\ mpc \in {"malloc", "eventfd", "reader"} =>
            rpc = "none" /\ \A e \in Efds : wpc[e] = "none"
    /\ mpc = "malloc" => mi = 0
    /\ mpc = "eventfd" => \A e \in Efds : e < mi => e \in open
    /\ mpc \in {"reader", "writers", "joinw", "joinr"} => open = Efds
    /\ mpc = "joinw" => \A e \in Efds : e < mi => wpc[e] \in {"none", "ended"}
    /\ mpc \in {"joinr", "close"} => \A e \in Efds : wpc[e] \in {"none", "ended"}
    /\ mpc = "close" => rpc = "ended"

\* What was written has been read or is still in the kernel's counter.
Conservation == \A e \in Efds : written[e] = delivered[e] + ctr[e]

SafeInv == TypeOK /\ MainInv /\ Conservation /\ ReadNeverBlocks

LEMMA MainStep == TypeOK /\ MainInv /\ [Next]_vars => MainInv'
<1> SUFFICES ASSUME TypeOK, MainInv, [Next]_vars PROVE MainInv'
  OBVIOUS
<1> USE ConstantsAssumption DEF TypeOK, MainInv, mvars, rvars, wvars
<1>1. CASE Malloc BY <1>1 DEF Malloc, Efds
<1>2. CASE OpenEfd
  <2>1. CASE mpc' = "eventfd" /\ open' = open \cup {mi} /\ mi' = mi + 1
    <3>1. \A e \in Efds : e < mi' => e < mi \/ e = mi
      BY <2>1 DEF Efds
    <3> QED BY <1>2, <2>1, <3>1 DEF OpenEfd
  <2>2. CASE mpc' = "reader" /\ open' = open \cup {mi} /\ ~(mi + 1 < N)
    <3>1. \A e \in Efds : e < mi \/ e = mi
      BY <2>2 DEF Efds
    <3>2. mpc = "eventfd" /\ rpc' = rpc /\ wpc' = wpc
      BY <1>2 DEF OpenEfd
    <3>3. open' = Efds
      BY <2>2, <3>1, <3>2
    <3> QED BY <2>2, <3>2, <3>3
  <2>3. CASE mpc' = "exit1"
    BY <1>2, <2>3 DEF OpenEfd
  <2> QED BY <1>2, <2>1, <2>2, <2>3 DEF OpenEfd, LoopTo
<1>3. CASE CreateReader BY <1>3 DEF CreateReader
<1>4. CASE CreateWriter BY <1>4 DEF CreateWriter, LoopTo, Efds
<1>5. CASE JoinWriter
  <2>1. CASE mpc' = "joinw" /\ mi' = mi + 1
    <3>1. \A e \in Efds : e < mi' => e < mi \/ e = mi
      BY <2>1 DEF Efds
    <3> QED BY <1>5, <2>1, <3>1 DEF JoinWriter
  <2>2. CASE mpc' = "joinr" /\ ~(mi + 1 < N)
    <3>1. \A e \in Efds : e < mi \/ e = mi
      BY <2>2 DEF Efds
    <3> QED BY <1>5, <2>2, <3>1 DEF JoinWriter
  <2>3. CASE mpc' = "crash"
    BY <1>5, <2>3 DEF JoinWriter
  <2> QED BY <1>5, <2>1, <2>2, <2>3 DEF JoinWriter, LoopTo
<1>6. CASE JoinReader BY <1>6 DEF JoinReader
<1>7. CASE CloseEfd BY <1>7 DEF CloseEfd, LoopTo
<1>8. CASE ReaderStart BY <1>8 DEF ReaderStart, EpollWaitCall
<1>9. CASE ReaderWake BY <1>9 DEF ReaderWake
<1>10. CASE ReaderTimeout BY <1>10 DEF ReaderTimeout
<1>11. CASE ReaderWaitError BY <1>11 DEF ReaderWaitError
<1>12. CASE ReaderRead BY <1>12 DEF ReaderRead, EpollWaitCall
<1>13. ASSUME NEW e \in Efds, WriterWrite(e) PROVE MainInv'
  BY <1>13 DEF WriterWrite
<1>14. ASSUME NEW e \in Efds, WriterWake(e) PROVE MainInv'
  BY <1>14 DEF WriterWake
<1>15. CASE Tick BY <1>15 DEF Tick
<1>16. CASE UNCHANGED vars BY <1>16 DEF vars
<1> QED BY <1>1, <1>2, <1>3, <1>4, <1>5, <1>6, <1>7, <1>8, <1>9, <1>10, <1>11,
           <1>12, <1>13, <1>14, <1>15, <1>16 DEF Next, Terminated

\* Only the two threads that transfer data touch the counters and the totals.
LEMMA DataStep ==
    TypeOK /\ Conservation /\ ReadNeverBlocks /\ [Next]_vars
        => Conservation' /\ ReadNeverBlocks'
<1> SUFFICES ASSUME TypeOK, Conservation, ReadNeverBlocks, [Next]_vars
             PROVE  Conservation' /\ ReadNeverBlocks'
  OBVIOUS
<1> USE IntervalType DEF TypeOK, Conservation, ReadNeverBlocks
<1>1. CASE UNCHANGED <<ctr, written, delivered, pending, rpc>>
  BY <1>1
<1>2. CASE CreateReader BY <1>2 DEF CreateReader, wvars
<1>3. CASE ReaderStart BY <1>3 DEF ReaderStart, EpollWaitCall, wvars
<1>4. CASE ReaderWake BY <1>4 DEF ReaderWake, Ready, wvars
<1>5. CASE ReaderTimeout \/ ReaderWaitError
  BY <1>5 DEF ReaderTimeout, ReaderWaitError, wvars
<1>6. CASE ReaderRead
  <2> PICK e \in pending :
        \/ /\ ctr[e] > 0
           /\ delivered' = [delivered EXCEPT ![e] = @ + ctr[e]]
           /\ ctr' = [ctr EXCEPT ![e] = 0]
           /\ pending' = pending \ {e}
           /\ IF pending = {e} THEN EpollWaitCall ELSE UNCHANGED <<rpc, rtimer>>
        \/ /\ MayFail("read") /\ rpc' = "ended"
           /\ UNCHANGED <<ctr, pending, rtimer, delivered>>
    BY <1>6 DEF ReaderRead
  <2>1. written' = written
    BY <1>6 DEF ReaderRead, wvars
  <2> QED BY <1>6, <2>1 DEF ReaderRead, EpollWaitCall
<1>7. ASSUME NEW e \in Efds, WriterWrite(e) PROVE Conservation' /\ ReadNeverBlocks'
  BY <1>7 DEF WriterWrite, rvars
<1>8. ASSUME NEW e \in Efds, WriterWake(e) PROVE UNCHANGED <<ctr, written, delivered, pending, rpc>>
  BY <1>8 DEF WriterWake, rvars
<1>9. Malloc \/ OpenEfd \/ CreateWriter \/ JoinWriter \/ JoinReader \/ CloseEfd \/ Tick \/ UNCHANGED vars
        => UNCHANGED <<ctr, written, delivered, pending, rpc>>
  BY DEF Malloc, OpenEfd, CreateWriter, JoinWriter, JoinReader, CloseEfd, Tick, vars, rvars, wvars
<1> QED BY <1>1, <1>2, <1>3, <1>4, <1>5, <1>6, <1>7, <1>8, <1>9 DEF Next, Terminated

LEMMA SafeInit == Init => SafeInv
<1> SUFFICES ASSUME Init PROVE SafeInv
  OBVIOUS
<1>1. TypeOK
  BY TypeInit
<1>2. MainInv
  BY ConstantsAssumption DEF Init, MainInv, Efds
<1>3. Conservation /\ ReadNeverBlocks
  BY DEF Init, Conservation, ReadNeverBlocks
<1> QED BY <1>1, <1>2, <1>3 DEF SafeInv

LEMMA SafeInvariant == Spec => []SafeInv
<1>1. SafeInv /\ [Next]_vars => SafeInv'
  BY TypeStep, MainStep, DataStep DEF SafeInv
<1> QED BY <1>1, SafeInit, PTL DEF Spec

\* The reader's read() never waits, for any schedule and any failing calls.
THEOREM ReadNeverBlocksHolds == Spec => []ReadNeverBlocks
<1>1. SafeInv => ReadNeverBlocks
  BY DEF SafeInv
<1> QED BY <1>1, SafeInvariant, PTL

\* No thread uses an eventfd that main has closed.
THEOREM NoUseAfterCloseHolds == Spec => []NoUseAfterClose
<1>1. SafeInv => NoUseAfterClose
  BY DEF SafeInv, MainInv, NoUseAfterClose, TypeOK, Alive
<1> QED BY <1>1, SafeInvariant, PTL

-----------------------------------------------------------------------------
(***************************************************************************)
(* AllDelivered.  On a punctual schedule the next write of every writer    *)
(* that is running is due (Due) strictly before the reader's timer runs    *)
(* out, unless the writer's last value is still waiting to be read: then   *)
(* epoll_wait returns it and the timer starts again.  The first write of a *)
(* writer that main has yet to create is due by FirstDue.                  *)
(***************************************************************************)
WriteInv ==
    \A e \in Efds :
        /\ wpc[e] = "none"  => wi[e] = 0 /\ written[e] = 0
        /\ wpc[e] = "write" => wi[e] < WriteNum /\ written[e] = wi[e] * Value(e)
        /\ wpc[e] = "sleep" => wi[e] < WriteNum /\ written[e] = (wi[e] + 1) * Value(e)
        /\ wpc[e] = "ended" /\ faults = {} => written[e] = WriteNum * Value(e)

CreateInv ==
    /\ mpc = "reader" => mi = 0
    /\ mpc = "writers" => \A e \in Efds : wpc[e] # "none" => e < mi
    /\ mpc = "writers" /\ faults = {} => \A e \in Efds : e < mi => wpc[e] # "none"
    /\ mpc \in {"joinw", "joinr", "close", "exit0"} /\ faults = {} => \A e \in Efds : wpc[e] # "none"
    /\ mpc \in {"close", "exit0"} => rpc = "ended"

LagInv ==
    /\ \A t \in Threads : lag[t] =< MaxLag
    /\ \A e \in Efds : wpc[e] = "none" => lag[e] = 0
    /\ \A e \in Efds : wpc[e] = "sleep" => wtimer[e] =< Interval(e) /\ (wtimer[e] > 0 => lag[e] = 0)

Due(e)   == IF wpc[e] = "write" THEN MaxLag - lag[e] ELSE wtimer[e] + MaxLag - lag[e]
FirstDue == 2 * MaxLag - lag[Main]

WaitInv ==
    /\ rpc = "wait" =>
        /\ mpc = "writers" => FirstDue < rtimer
        /\ \A e \in Efds : wpc[e] \in {"write", "sleep"} /\ ctr[e] = 0 => Due(e) < rtimer
    /\ rpc = "ended" => mpc # "writers" /\ \A e \in Efds : wpc[e] \in {"none", "ended"} /\ ctr[e] = 0

PunctualInv == SafeInv /\ WriteInv /\ CreateInv /\ LagInv /\ WaitInv

LEMMA Successor == \A m, v \in Nat : (m + 1) * v = m * v + v
  BY SMT

LEMMA ProductMonotone == \A m, n, v \in Nat : m =< n => m * v =< n * v
  BY SMT

LEMMA LastIndex == \A m, n \in Nat : m < n /\ ~(m + 1 < n) => m + 1 = n
  BY SMT

LEMMA NoFault ==
    /\ Punctual => \A c \in ReaderCalls : ~MayFail(c)
    /\ faults = {} => \A c : ~MayFail(c)
  BY DEF Punctual, MayFail

LEMMA WriteStep ==
    ASSUME Punctual, TypeOK, WriteInv, CreateInv, [Next]_vars
    PROVE  WriteInv'
<1>0. faults' = faults
  BY DEF Next, vars
<1> USE <1>0, NoFault, ConstantsAssumption, IntervalType DEF TypeOK, WriteInv
<1>1. CASE UNCHANGED <<wpc, wi, written>>
  BY <1>1
<1>2. CASE CreateWriter
  <2>1. wpc' \in {wpc, [wpc EXCEPT ![mi] = "write"]} /\ wi' = wi /\ written' = written
    BY <1>2 DEF CreateWriter
  <2>2. wpc[mi] = "none"
    BY <1>2 DEF CreateWriter, CreateInv, Efds
  <2> QED BY <2>1, <2>2
<1>3. ASSUME NEW e \in Efds, WriterWrite(e) PROVE WriteInv'
  <2>1. wpc[e] = "write" /\ wi' = wi
    BY <1>3 DEF WriterWrite
  <2>2. CASE wpc' = [wpc EXCEPT ![e] = "sleep"] /\ written' = [written EXCEPT ![e] = @ + Value(e)]
    <3>1. (wi[e] + 1) * Value(e) = wi[e] * Value(e) + Value(e)
      BY Successor
    <3> QED BY <2>1, <2>2, <3>1
  <2>3. CASE MayFail("write") /\ wpc' = [wpc EXCEPT ![e] = "ended"] /\ written' = written
    <3>1. faults # {}
      BY <2>3
    <3> QED BY <2>1, <2>3, <3>1
  <2> QED BY <1>3, <2>2, <2>3 DEF WriterWrite
<1>4. ASSUME NEW e \in Efds, WriterWake(e) PROVE WriteInv'
  <2>1. /\ wpc[e] = "sleep" /\ wi' = [wi EXCEPT ![e] = @ + 1] /\ written' = written
        /\ wpc' = [wpc EXCEPT ![e] = IF wi[e] + 1 < WriteNum THEN "write" ELSE "ended"]
    BY <1>4 DEF WriterWake, wvars
  <2>2. CASE wi[e] + 1 < WriteNum
    BY <2>1, <2>2
  <2>3. CASE ~(wi[e] + 1 < WriteNum)
    <3>1. wi[e] + 1 = WriteNum
      BY <2>1, <2>3, LastIndex, Zenon
    <3>2. written[e] = WriteNum * Value(e)
      BY <2>1, <3>1
    <3>3. wpc' = [wpc EXCEPT ![e] = "ended"]
      BY <2>1, <2>3
    <3> QED BY <2>1, <3>2, <3>3
  <2> QED BY <2>2, <2>3
<1> QED
  BY <1>1, <1>2, <1>3, <1>4
  DEF Next, Terminated, Malloc, OpenEfd, CreateReader, JoinWriter, JoinReader, CloseEfd,
      ReaderStart, ReaderWake, ReaderTimeout, ReaderWaitError, ReaderRead, Tick, vars, wvars

LEMMA CreateStep ==
    ASSUME Punctual, TypeOK, MainInv, CreateInv, WaitInv, [Next]_vars
    PROVE  CreateInv'
<1>0. faults' = faults
  BY DEF Next, vars
<1> USE <1>0, NoFault, ConstantsAssumption DEF TypeOK, CreateInv, mvars, rvars, wvars
<1>1. CASE Malloc BY <1>1 DEF Malloc
<1>2. CASE OpenEfd BY <1>2 DEF OpenEfd, LoopTo
<1>3. CASE CreateReader
  <2>1. mpc = "reader" /\ mpc' \in {"writers", "exit1"} /\ mi' = mi /\ wpc' = wpc
    BY <1>3 DEF CreateReader
  <2> QED BY <2>1 DEF MainInv, Efds
<1>4. CASE CreateWriter
  <2>1. rpc' = rpc /\ mpc = "writers" /\ mi \in 0 .. N-1
    BY <1>4 DEF CreateWriter, Efds
  <2>2. \A e \in Efds : e # mi => wpc'[e] = wpc[e]
    BY <1>4 DEF CreateWriter
  <2>3. faults = {} => wpc'[mi] # "none"
    BY <1>4 DEF CreateWriter
  <2>4. CASE mi + 1 < N
    <3>1. mi' = mi + 1 /\ mpc' = mpc
      BY <1>4, <2>4 DEF CreateWriter, LoopTo
    <3>2. \A e \in Efds : e < mi' <=> e < mi \/ e = mi
      BY <2>1, <3>1 DEF Efds
    <3> QED BY <2>1, <2>2, <2>3, <3>1, <3>2
  <2>5. CASE ~(mi + 1 < N)
    <3>1. mpc' = "joinw"
      BY <1>4, <2>5 DEF CreateWriter, LoopTo
    <3>2. \A e \in Efds : e < mi \/ e = mi
      BY <2>1, <2>5 DEF Efds
    <3> QED BY <2>1, <2>2, <2>3, <3>1, <3>2
  <2> QED BY <2>4, <2>5
<1>5. CASE JoinWriter BY <1>5 DEF JoinWriter, LoopTo
<1>6. CASE JoinReader BY <1>6 DEF JoinReader
<1>7. CASE CloseEfd BY <1>7 DEF CloseEfd, LoopTo
<1>8. CASE ReaderStart BY <1>8 DEF ReaderStart, EpollWaitCall
<1>9. CASE ReaderWake BY <1>9 DEF ReaderWake
<1>10. CASE ReaderTimeout BY <1>10 DEF ReaderTimeout
<1>11. CASE ReaderWaitError BY <1>11 DEF ReaderWaitError
<1>12. CASE ReaderRead BY <1>12 DEF ReaderRead, EpollWaitCall
<1>13. ASSUME NEW e \in Efds, WriterWrite(e) PROVE CreateInv'
  BY <1>13 DEF WriterWrite
<1>14. ASSUME NEW e \in Efds, WriterWake(e) PROVE CreateInv'
  BY <1>14 DEF WriterWake
<1>15. CASE Tick BY <1>15 DEF Tick
<1>16. CASE UNCHANGED vars BY <1>16 DEF vars
<1> QED BY <1>1, <1>2, <1>3, <1>4, <1>5, <1>6, <1>7, <1>8, <1>9, <1>10, <1>11,
           <1>12, <1>13, <1>14, <1>15, <1>16 DEF Next, Terminated

\* A step of a thread resets its lag or leaves it; only Tick makes it grow.
LEMMA LagStep ==
    ASSUME Punctual, TypeOK, CreateInv, LagInv, [Next]_vars
    PROVE  LagInv'
<1> USE NoFault, ConstantsAssumption, IntervalType, ThreadNames DEF TypeOK, LagInv, mvars, rvars, wvars
<1>1. CASE /\ UNCHANGED <<wpc, wtimer>>
           /\ \E t \in {Main, Reader} : Ran(t)
  BY <1>1 DEF Ran
<1>2. CASE CreateWriter
  <2>1. wpc' \in {wpc, [wpc EXCEPT ![mi] = "write"]} /\ wtimer' = wtimer
    BY <1>2 DEF CreateWriter
  <2>2. lag' = lag \/ lag' = [lag EXCEPT ![Main] = 0]
    BY <1>2 DEF CreateWriter
  <2> QED BY <2>1, <2>2
<1>3. ASSUME NEW e \in Efds, WriterWrite(e) PROVE LagInv'
  <2>1. /\ \/ wpc' = [wpc EXCEPT ![e] = "sleep"] /\ wtimer' = [wtimer EXCEPT ![e] = Interval(e)]
           \/ wpc' = [wpc EXCEPT ![e] = "ended"] /\ wtimer' = wtimer
        /\ lag' = [lag EXCEPT ![e] = 0]
    BY <1>3 DEF WriterWrite, Ran
  <2> QED BY <2>1
<1>4. ASSUME NEW e \in Efds, WriterWake(e) PROVE LagInv'
  BY <1>4 DEF WriterWake
<1>5. CASE Tick
  <2>1. \A t \in Threads : lag'[t] = IF Runnable(t) THEN lag[t] + 1 ELSE lag[t]
    BY <1>5 DEF Tick
  <2>2. \A t \in Threads : lag'[t] =< MaxLag
    BY <1>5, <2>1 DEF Tick
  <2>3. wpc' = wpc /\ \A e \in Efds : wpc[e] = "sleep" => wtimer'[e] = CountDown(wtimer[e])
    BY <1>5 DEF Tick
  <2>4. \A e \in Efds : wpc[e] = "none" \/ (wpc[e] = "sleep" /\ wtimer[e] > 0) => ~Runnable(e)
    BY DEF Runnable, WriterRunnable
  <2>5. \A e \in Efds : wpc'[e] = "none" => lag'[e] = 0
    BY <2>1, <2>3, <2>4
  <2>6. ASSUME NEW e \in Efds, wpc'[e] = "sleep"
        PROVE  wtimer'[e] =< Interval(e) /\ (wtimer'[e] > 0 => lag'[e] = 0)
    BY <2>1, <2>3, <2>4, <2>6 DEF CountDown
  <2> QED BY <2>2, <2>5, <2>6
<1>6. CASE UNCHANGED vars BY <1>6 DEF vars
<1> QED
  BY <1>1, <1>2, <1>3, <1>4, <1>5, <1>6
  DEF Next, Terminated, Malloc, OpenEfd, CreateReader, JoinWriter, JoinReader, CloseEfd,
      ReaderStart, ReaderWake, ReaderTimeout, ReaderWaitError, ReaderRead

LEMMA DueNonnegative ==
    ASSUME TypeOK, LagInv, NEW e \in Efds
    PROVE  Due(e) \in Nat /\ FirstDue \in Nat
  BY ConstantsAssumption, ThreadNames DEF TypeOK, LagInv, Due, FirstDue

\* When epoll_wait is called, no writer's next write is as far away as Timeout.
LEMMA DueBeforeTimeout ==
    ASSUME Punctual, TypeOK, LagInv, NEW e \in Efds, wpc[e] \in {"write", "sleep"}
    PROVE  Due(e) < Timeout
  BY ConstantsAssumption, ThreadNames, IntervalType DEF Punctual, TypeOK, LagInv, Due

LEMMA FirstDueBeforeTimeout ==
    ASSUME Punctual, TypeOK
    PROVE  FirstDue < Timeout
  BY ConstantsAssumption, ThreadNames DEF Punctual, TypeOK, FirstDue

\* On a punctual schedule a writer never waits for room in its counter.
LEMMA RoomToWrite ==
    ASSUME Punctual, TypeOK, WriteInv, Conservation, NEW e \in Efds, wpc[e] = "write"
    PROVE  ctr[e] + Value(e) =< EfdMax
<1>1. /\ wi[e] \in Nat /\ wi[e] + 1 \in Nat /\ wi[e] + 1 =< WriteNum /\ WriteNum \in Nat
      /\ Value(e) \in Nat
  BY ConstantsAssumption, IntervalType DEF TypeOK, WriteInv
<1>2. (wi[e] + 1) * Value(e) =< WriteNum * Value(e)
  BY <1>1, ProductMonotone
<1>3. (wi[e] + 1) * Value(e) = written[e] + Value(e)
  BY <1>1, Successor DEF WriteInv
<1>4. WriteNum * Value(e) =< EfdMax
  BY DEF Punctual
<1>5. written[e] \in Nat /\ ctr[e] \in Nat /\ delivered[e] \in Nat /\ written[e] = delivered[e] + ctr[e]
  BY DEF TypeOK, Conservation
<1>6. WriteNum * Value(e) \in Nat /\ EfdMax \in Nat
  BY <1>1, ConstantsAssumption
<1> QED BY <1>1, <1>2, <1>3, <1>4, <1>5, <1>6

LEMMA WaitStep ==
    ASSUME Punctual, SafeInv, WriteInv, CreateInv, LagInv, WaitInv, [Next]_vars,
           TypeOK', LagInv'
    PROVE  WaitInv'
<1> USE NoFault, ConstantsAssumption, IntervalType, ThreadNames DEF SafeInv
<1>1. CASE Malloc \/ OpenEfd \/ CreateReader
  <2>1. rpc' \in {"none", "start"}
    BY <1>1 DEF Malloc, OpenEfd, CreateReader, MainInv, rvars
  <2> QED BY <2>1 DEF WaitInv
<1>2. CASE CreateWriter
  <2>1. /\ wpc' \in {wpc, [wpc EXCEPT ![mi] = "write"]} /\ ctr' = ctr /\ rpc' = rpc
        /\ rtimer' = rtimer /\ wtimer' = wtimer /\ mpc = "writers"
    BY <1>2 DEF CreateWriter, rvars
  <2>2. wpc[mi] = "none" /\ lag[mi] = 0 /\ mi \in Efds
    <3>1. mi \in Efds /\ ~(mi < mi)
      BY DEF TypeOK, Efds
    <3>2. wpc[mi] = "none"
      BY <2>1, <3>1 DEF CreateInv
    <3> QED BY <3>1, <3>2 DEF LagInv
  <2>3. lag'[mi] = 0 /\ \A e \in Efds : lag'[e] = lag[e]
    BY <1>2, <2>2 DEF CreateWriter, TypeOK
  <2>4. rpc = "wait" => FirstDue < rtimer /\ FirstDue \in Nat /\ MaxLag =< FirstDue
    BY <2>1, <2>2, DueNonnegative DEF WaitInv, FirstDue, LagInv, TypeOK
  <2>5. ASSUME NEW e \in Efds, wpc'[e] \in {"write", "sleep"}, ctr'[e] = 0, rpc = "wait"
        PROVE  Due(e)' < rtimer
    <3>1. CASE e = mi
      <4>1. wpc'[e] = "write"
        BY <2>1, <2>2, <2>5, <3>1 DEF TypeOK
      <4>2. Due(e)' = MaxLag
        BY <2>3, <3>1, <4>1 DEF Due
      <4> QED BY <2>4, <2>5, <4>2 DEF TypeOK
    <3>2. CASE e # mi
      <4>1. lag'[e] = lag[e] /\ wpc'[e] = wpc[e]
        BY <2>1, <2>3, <3>2 DEF TypeOK
      <4> QED BY <2>1, <2>5, <4>1 DEF Due, WaitInv
    <3> QED BY <3>1, <3>2
  <2>6. mpc' = "writers" => FirstDue' = FirstDue
    BY <1>2 DEF CreateWriter, LoopTo, FirstDue
  <2>7. rpc # "ended"
    BY <2>1 DEF WaitInv
  <2> QED BY <2>1, <2>4, <2>5, <2>6, <2>7 DEF WaitInv
<1>3. CASE JoinWriter \/ JoinReader \/ CloseEfd
  <2>1. UNCHANGED <<rpc, rtimer, wpc, wtimer, ctr>> /\ lag' = [lag EXCEPT ![Main] = 0]
    BY <1>3 DEF JoinWriter, JoinReader, CloseEfd, Ran, rvars, wvars
  <2>2. mpc' # "writers"
    BY <1>3 DEF JoinWriter, JoinReader, CloseEfd, LoopTo
  <2>3. \A e \in Efds : Due(e)' = Due(e)
    BY <2>1 DEF Due, TypeOK
  <2> QED BY <2>1, <2>2, <2>3 DEF WaitInv
<1>4. CASE ReaderStart \/ ReaderRead
  <2>1. rpc' \in {"wait", "read"} /\ (rpc' = "wait" => rtimer' = Timeout)
    BY <1>4 DEF ReaderStart, ReaderRead, EpollWaitCall, Punctual, ReaderCalls
  <2>2. \A x \in Efds : wpc'[x] = wpc[x] /\ wtimer'[x] = wtimer[x] /\ lag'[x] = lag[x]
    BY <1>4 DEF ReaderStart, ReaderRead, wvars, Ran, TypeOK
  <2>3. lag'[Main] = lag[Main]
    BY <1>4 DEF ReaderStart, ReaderRead, Ran, TypeOK
  <2>4. ASSUME NEW e \in Efds, wpc'[e] \in {"write", "sleep"} PROVE Due(e)' < Timeout
    <3>1. Due(e)' = Due(e)
      BY <2>2 DEF Due
    <3> QED BY <2>2, <2>4, <3>1, DueBeforeTimeout
  <2>5. FirstDue' < Timeout
    BY <2>3, FirstDueBeforeTimeout DEF FirstDue
  <2> QED BY <2>1, <2>4, <2>5 DEF WaitInv
<1>5. CASE ReaderWake BY <1>5 DEF ReaderWake, WaitInv
<1>6. CASE ReaderTimeout
  <2>1. rpc' = "ended" /\ rpc = "wait" /\ rtimer = 0 /\ ctr' = ctr /\ wpc' = wpc /\ mpc' = mpc
    BY <1>6 DEF ReaderTimeout, wvars, mvars
  <2>2. \A e \in Efds : ctr[e] = 0
    BY <1>6 DEF ReaderTimeout, Ready, TypeOK
  <2>3. \A e \in Efds : wpc[e] \in {"none", "ended"}
    BY <2>1, <2>2, DueNonnegative DEF WaitInv, TypeOK
  <2>4. mpc # "writers"
    BY <2>1, DueNonnegative DEF WaitInv
  <2> QED BY <2>1, <2>2, <2>3, <2>4 DEF WaitInv
<1>7. CASE ReaderWaitError BY <1>7 DEF ReaderWaitError, ReaderCalls
<1>8. ASSUME NEW e \in Efds, WriterWrite(e) PROVE WaitInv'
  <2>1. wpc[e] = "write" /\ rpc' = rpc /\ rtimer' = rtimer /\ mpc' = mpc
    BY <1>8 DEF WriterWrite, rvars, mvars
  <2>2. rpc # "ended"
    BY <2>1 DEF WaitInv
  <2>3. wpc'[e] = "ended" \/ ctr'[e] > 0
    BY <1>8 DEF WriterWrite, TypeOK
  <2>4. \A x \in Efds : x # e => wpc'[x] = wpc[x] /\ wtimer'[x] = wtimer[x] /\ lag'[x] = lag[x] /\ ctr'[x] = ctr[x]
    BY <1>8 DEF WriterWrite, Ran, TypeOK
  <2>5. lag'[Main] = lag[Main]
    BY <1>8 DEF WriterWrite, Ran, TypeOK
  <2>6. FirstDue' = FirstDue /\ \A x \in Efds : x # e => Due(x)' = Due(x)
    BY <2>4, <2>5 DEF Due, FirstDue
  <2> QED BY <2>1, <2>2, <2>3, <2>4, <2>6 DEF WaitInv
<1>9. ASSUME NEW e \in Efds, WriterWake(e) PROVE WaitInv'
  <2>1. UNCHANGED <<ctr, rpc, rtimer, lag, wtimer, mpc>> /\ wpc[e] = "sleep" /\ wtimer[e] = 0
    BY <1>9 DEF WriterWake, rvars, mvars
  <2>2. rpc # "ended"
    BY <2>1 DEF WaitInv
  <2>3. wpc'[e] \in {"write", "ended"} /\ \A x \in Efds : x # e => wpc'[x] = wpc[x]
    BY <1>9 DEF WriterWake, TypeOK
  <2>4. FirstDue' = FirstDue
    BY <2>1 DEF FirstDue
  <2>5. \A x \in Efds : wpc'[x] \in {"write", "sleep"} => Due(x)' = Due(x) /\ wpc[x] \in {"write", "sleep"}
    BY <2>1, <2>3 DEF Due, TypeOK
  <2> QED BY <2>1, <2>2, <2>4, <2>5 DEF WaitInv
<1>10. CASE Tick
  <2>1. UNCHANGED <<ctr, rpc, wpc, mpc>>
    BY <1>10 DEF Tick, mvars
  <2>2. rpc = "wait" => rtimer' = CountDown(rtimer)
    BY <1>10 DEF Tick
  <2>3. ASSUME NEW e \in Efds, wpc[e] \in {"write", "sleep"}, ctr[e] = 0, rpc = "wait"
        PROVE  Due(e)' < rtimer'
    <3>1. Due(e) < rtimer /\ Due(e) \in Nat /\ rtimer \in Nat
      BY <2>3, DueNonnegative DEF WaitInv, TypeOK
    <3>2. rtimer' = rtimer - 1
      BY <2>2, <2>3, <3>1 DEF CountDown
    <3>4. CASE wpc[e] = "write"
      <4>1. Runnable(e)
        BY <3>4, RoomToWrite DEF Runnable, WriterRunnable
      <4>2. lag'[e] = lag[e] + 1
        BY <1>10, <4>1 DEF Tick
      <4> QED BY <2>1, <3>1, <3>2, <3>4, <4>2 DEF Due, TypeOK
    <3>5. CASE wpc[e] = "sleep" /\ wtimer[e] = 0
      <4>1. Runnable(e)
        BY <3>5 DEF Runnable, WriterRunnable
      <4>2. lag'[e] = lag[e] + 1 /\ wtimer'[e] = 0
        BY <1>10, <3>5, <4>1 DEF Tick, CountDown
      <4> QED BY <2>1, <3>1, <3>2, <3>5, <4>2 DEF Due, TypeOK
    <3>6. CASE wpc[e] = "sleep" /\ wtimer[e] > 0
      <4>1. ~Runnable(e)
        BY <3>6 DEF Runnable, WriterRunnable
      <4>2. lag'[e] = lag[e] /\ wtimer'[e] = wtimer[e] - 1
        BY <1>10, <3>6, <4>1 DEF Tick, CountDown
      <4> QED BY <2>1, <3>1, <3>2, <3>6, <4>2 DEF Due, TypeOK
    <3> QED BY <2>3, <3>4, <3>5, <3>6 DEF TypeOK
  <2>4. ASSUME mpc = "writers", rpc = "wait" PROVE FirstDue' < rtimer'
    <3>1. FirstDue < rtimer /\ FirstDue \in Nat /\ rtimer \in Nat
      BY <2>4, DueNonnegative DEF WaitInv, TypeOK
    <3>2. rtimer' = rtimer - 1
      BY <2>2, <2>4, <3>1 DEF CountDown
    <3>3. lag'[Main] = lag[Main] + 1
      BY <1>10, <2>4 DEF Tick, Runnable, MainRunnable
    <3> QED BY <3>1, <3>2, <3>3 DEF FirstDue, TypeOK
  <2> QED BY <2>1, <2>3, <2>4 DEF WaitInv
<1>11. CASE UNCHANGED vars
  <2>1. UNCHANGED <<rpc, rtimer, wpc, wtimer, ctr, lag, mpc>>
    BY <1>11 DEF vars, rvars, wvars, mvars
  <2>2. FirstDue' = FirstDue /\ \A e \in Efds : Due(e)' = Due(e)
    BY <2>1 DEF Due, FirstDue
  <2> QED BY <2>1, <2>2 DEF WaitInv
<1> QED BY <1>1, <1>2, <1>3, <1>4, <1>5, <1>6, <1>7, <1>8, <1>9, <1>10, <1>11
        DEF Next, Terminated

LEMMA PunctualInit == Init => PunctualInv
<1> SUFFICES ASSUME Init PROVE PunctualInv
  OBVIOUS
<1> USE ConstantsAssumption, IntervalType, ThreadNames
<1>1. SafeInv
  BY SafeInit
<1>2. WriteInv /\ CreateInv
  BY DEF Init, WriteInv, CreateInv
<1>3. LagInv /\ WaitInv
  BY DEF Init, LagInv, WaitInv
<1> QED BY <1>1, <1>2, <1>3 DEF PunctualInv

\* With every delay below the slack of the timeout, the reader outlives the
\* writers, whichever of them fail, and a run that exits with 0 has printed
\* every write.
THEOREM AllDeliveredHolds == Spec => []AllDelivered
<1> DEFINE IInv == Punctual => PunctualInv
<1>1. Init => IInv
  BY PunctualInit
<1>2. IInv /\ [Next]_vars => IInv'
  <2> SUFFICES ASSUME IInv, [Next]_vars, Punctual' PROVE PunctualInv'
    OBVIOUS
  <2>1. Punctual /\ PunctualInv
    BY DEF Punctual, Next, vars
  <2>2. SafeInv'
    BY <2>1, TypeStep, MainStep, DataStep DEF SafeInv, PunctualInv
  <2>3. WriteInv' /\ CreateInv' /\ LagInv'
    BY <2>1, WriteStep, CreateStep, LagStep DEF PunctualInv, SafeInv
  <2>4. WaitInv'
    BY <2>1, <2>2, <2>3, WaitStep DEF PunctualInv, SafeInv
  <2> QED BY <2>2, <2>3, <2>4 DEF PunctualInv
<1>3. IInv => AllDelivered
  <2> SUFFICES ASSUME PunctualInv PROVE AllDelivered
    BY DEF AllDelivered
  <2>1. rpc = "ended" => mpc # "writers" /\ \A e \in Efds : wpc[e] \in {"none", "ended"} /\ ctr[e] = 0
    BY DEF PunctualInv, WaitInv
  <2>2. mpc = "exit0" => rpc = "ended" /\ (faults = {} => \A e \in Efds : wpc[e] # "none")
    BY DEF PunctualInv, CreateInv
  <2>3. \A e \in Efds : ctr[e] = 0 => delivered[e] = written[e]
    BY DEF PunctualInv, SafeInv, Conservation, TypeOK
  <2>4. \A e \in Efds : wpc[e] = "ended" /\ faults = {} => written[e] = WriteNum * Value(e)
    BY DEF PunctualInv, WriteInv
  <2> QED BY <2>1, <2>2, <2>3, <2>4 DEF AllDelivered
<1> QED BY <1>1, <1>2, <1>3, PTL DEF Spec

=============================================================================
