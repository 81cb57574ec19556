------------------------------ MODULE Eventfd ------------------------------
(***************************************************************************)
(* The eventfd demonstration src/src/linux/eventfd/foo.c.                  *)
(*                                                                         *)
(* main opens N eventfds, starts one reader thread that waits on all of    *)
(* them with epoll_wait(..., 6000) and one writer thread per eventfd that  *)
(* writes write_num times with a sleep between two writes.  The reader     *)
(* ends at the first epoll_wait that times out; main joins every thread    *)
(* and closes the descriptors.                                             *)
(*                                                                         *)
(* Time is a count of ticks.  A thread that can run may be delayed by the  *)
(* scheduler for at most MaxLag ticks (lag[t] counts them), and main's     *)
(* loop that creates the writers takes at most MaxLag ticks altogether.    *)
(* In one run of the program the calls in `faults' may fail, no others.    *)
(***************************************************************************)
EXTENDS Integers, FiniteSets

CONSTANTS
    N,          \* efd_num
    WriteNum,   \* write_num
    MaxEvents,  \* MAX_EVENTS
    Timeout,    \* the timeout of epoll_wait, in ticks
    Second,     \* ticks per second
    EfdMax,     \* largest value of an eventfd counter, 2^64 - 2
    FirstFd,    \* the descriptor number that eventfd() returns first
    MaxLag,     \* bound on the scheduling delay, in ticks
    FaultSets   \* the sets of calls that may fail, one of them in each run

Calls == {"malloc", "eventfd", "pthread_create", "epoll_create1",
          "epoll_ctl", "epoll_wait", "read", "write"}

ASSUME ConstantsAssumption ==
    /\ N \in Nat \ {0} /\ WriteNum \in Nat \ {0} /\ MaxEvents \in Nat \ {0}
    /\ Timeout \in Nat \ {0} /\ Second \in Nat \ {0} /\ EfdMax \in Nat
    /\ FirstFd \in Nat \ {0} /\ MaxLag \in Nat /\ FaultSets \subseteq SUBSET Calls

Efds    == 0 .. N-1
Reader  == N
Main    == N + 1
Threads == 0 .. N+1

VARIABLES
    mpc,        \* where main is
    mi,         \* main's loop variable i
    open,       \* the eventfds that are open
    ctr,        \* the kernel's counter of each eventfd
    rpc,        \* where the reader is
    pending,    \* events reported by epoll_wait and not read yet
    rtimer,     \* ticks left before epoll_wait times out
    epollOpen,  \* the reader's epollfd is open
    wpc, wi,    \* where each writer is, and its loop variable i
    wtimer,     \* ticks left of each writer's sleep
    lag,        \* ticks for which each thread has been runnable
    written,    \* what each writer has printed as written, in total
    delivered,  \* what the reader has printed as read, in total
    faults      \* the calls that may fail in this run

mvars == <<mpc, mi, open>>
rvars == <<rpc, pending, rtimer, epollOpen, delivered>>
wvars == <<wpc, wi, wtimer, written>>
vars  == <<mvars, rvars, wvars, ctr, lag, faults>>

Ended   == {"exit0", "exit1", "crash"}
Alive   == mpc \notin Ended
(* fd numbers are handed out in order; a writer writes its own fd number.  *)
Value(e)    == FirstFd + e
Interval(e) == (2*e + 1) * Second

Init ==
    /\ mpc = "malloc" /\ mi = 0 /\ open = {}
    /\ ctr = [e \in Efds |-> 0]
    /\ rpc = "none" /\ pending = {} /\ rtimer = 0 /\ epollOpen = FALSE
    /\ wpc = [e \in Efds |-> "none"]
    /\ wi = [e \in Efds |-> 0] /\ wtimer = [e \in Efds |-> 0]
    /\ lag = [t \in Threads |-> 0]
    /\ written = [e \in Efds |-> 0] /\ delivered = [e \in Efds |-> 0]
    /\ faults \in FaultSets

MayFail(call) == call \in faults
Ran(t)        == lag' = [lag EXCEPT ![t] = 0]

\* i++ at the end of one of main's loops, and where main goes after the last.
LoopTo(next) ==
    /\ mi' = IF mi + 1 < N THEN mi + 1 ELSE 0
    /\ mpc' = IF mi + 1 < N THEN mpc ELSE next

-----------------------------------------------------------------------------
(* main *)

\* Three mallocs, each with its own label in the chain of gotos.
Malloc ==
    /\ mpc = "malloc"
    /\ \/ mpc' = "eventfd"
       \/ MayFail("malloc") /\ mpc' = "exit1"
    /\ Ran(Main)
    /\ UNCHANGED <<mi, open, rvars, wvars, ctr>>

\* efds[i] = eventfd(0, 0); a failure goes to errs, which frees the arrays.
OpenEfd ==
    /\ mpc = "eventfd"
    /\ \/ /\ open' = open \cup {mi}
          /\ LoopTo("reader")
       \/ /\ MayFail("eventfd") /\ mpc' = "exit1"
          /\ UNCHANGED <<mi, open>>
    /\ Ran(Main)
    /\ UNCHANGED <<rvars, wvars, ctr>>

CreateReader ==
    /\ mpc = "reader"
    /\ \/ mpc' = "writers" /\ rpc' = "start"
       \/ MayFail("pthread_create") /\ mpc' = "exit1" /\ UNCHANGED rpc
    /\ Ran(Main)
    /\ UNCHANGED <<mi, open, pending, rtimer, epollOpen, delivered, wvars, ctr>>

\* The result of pthread_create is not looked at: a writer that could not be
\* created stays "none", and its slot of pid_writes is never assigned.
CreateWriter ==
    /\ mpc = "writers"
    /\ \/ wpc' = [wpc EXCEPT ![mi] = "write"]
       \/ MayFail("pthread_create") /\ UNCHANGED wpc
    /\ LoopTo("joinw")
    /\ lag' = IF mi + 1 < N THEN lag ELSE [lag EXCEPT ![Main] = 0]
    /\ UNCHANGED <<open, rvars, wi, wtimer, written, ctr>>

\* Joining an uninitialised pthread_t is undefined: it returns, or crashes.
JoinWriter ==
    /\ mpc = "joinw" /\ wpc[mi] \in {"none", "ended"}
    /\ \/ /\ LoopTo("joinr")
       \/ wpc[mi] = "none" /\ mpc' = "crash" /\ UNCHANGED mi
    /\ Ran(Main)
    /\ UNCHANGED <<open, rvars, wvars, ctr>>

\* Mutant: the reader is not joined.
JoinReaderNotWaiting ==
    /\ mpc = "joinr"
    /\ mpc' = "close"
    /\ Ran(Main)
    /\ UNCHANGED <<mi, open, rvars, wvars, ctr>>

JoinReader ==
    /\ mpc = "joinr" /\ rpc = "ended"
    /\ mpc' = "close"
    /\ Ran(Main)
    /\ UNCHANGED <<mi, open, rvars, wvars, ctr>>

CloseEfd ==
    /\ mpc = "close"
    /\ open' = open \ {mi}
    /\ LoopTo("exit0")
    /\ Ran(Main)
    /\ UNCHANGED <<rvars, wvars, ctr>>

-----------------------------------------------------------------------------
(* thread_read *)

\* Mutant: one deadline for the whole loop.
EpollWaitOneDeadline ==
    rpc' = "wait" /\ rtimer' = IF rpc = "start" THEN Timeout ELSE rtimer

EpollWaitCall == rpc' = "wait" /\ rtimer' = Timeout

\* Every return but the last leaves the epoll descriptor open.
ReaderStart ==
    /\ Alive /\ rpc = "start"
    /\ \/ /\ N > MaxEvents \/ MayFail("epoll_create1")
          /\ rpc' = "ended" /\ UNCHANGED <<rtimer, epollOpen>>
       \/ /\ N =< MaxEvents /\ MayFail("epoll_ctl")
          /\ rpc' = "ended" /\ epollOpen' = TRUE /\ UNCHANGED rtimer
       \/ /\ N =< MaxEvents /\ EpollWaitCall /\ epollOpen' = TRUE
    /\ Ran(Reader)
    /\ UNCHANGED <<mvars, wvars, ctr, pending, delivered>>

Ready == {e \in Efds : ctr[e] > 0}

ReaderWake ==
    /\ Alive /\ rpc = "wait" /\ Ready # {}
    /\ rpc' = "read" /\ pending' = Ready
    /\ Ran(Reader)
    /\ UNCHANGED <<mvars, wvars, ctr, rtimer, epollOpen, delivered>>

\* Mutant: the timeout does not leave the loop.
ReaderTimeoutGoesOn ==
    /\ Alive /\ rpc = "wait" /\ rtimer = 0 /\ Ready = {}
    /\ EpollWaitCall
    /\ Ran(Reader)
    /\ UNCHANGED <<mvars, wvars, ctr, pending, epollOpen, delivered>>

\* epoll_wait looks at the ready list once more when its timer expires.
ReaderTimeout ==
    /\ Alive /\ rpc = "wait" /\ rtimer = 0 /\ Ready = {}
    /\ rpc' = "ended" /\ epollOpen' = FALSE
    /\ Ran(Reader)
    /\ UNCHANGED <<mvars, wvars, ctr, pending, rtimer, delivered>>

ReaderWaitError ==
    /\ Alive /\ rpc = "wait" /\ MayFail("epoll_wait")
    /\ rpc' = "ended"
    /\ Ran(Reader)
    /\ UNCHANGED <<mvars, wvars, ctr, pending, rtimer, epollOpen, delivered>>

\* Mutant: the event that was read is read again.
ReaderReadTwice ==
    /\ Alive /\ rpc = "read"
    /\ \E e \in pending :
        /\ ctr[e] > 0
        /\ delivered' = [delivered EXCEPT ![e] = @ + ctr[e]]
        /\ ctr' = [ctr EXCEPT ![e] = 0]
    /\ Ran(Reader)
    /\ UNCHANGED <<mvars, wvars, rpc, pending, rtimer, epollOpen>>

\* read() returns the counter and resets it; it would block on a counter of 0.
ReaderRead ==
    /\ Alive /\ rpc = "read"
    /\ \E e \in pending :
        \/ /\ ctr[e] > 0
           /\ delivered' = [delivered EXCEPT ![e] = @ + ctr[e]]
           /\ ctr' = [ctr EXCEPT ![e] = 0]
           /\ pending' = pending \ {e}
           /\ IF pending = {e} THEN EpollWaitCall ELSE UNCHANGED <<rpc, rtimer>>
        \/ /\ MayFail("read") /\ rpc' = "ended"
           /\ UNCHANGED <<ctr, pending, rtimer, delivered>>
    /\ Ran(Reader)
    /\ UNCHANGED <<mvars, wvars, epollOpen>>

-----------------------------------------------------------------------------
(* thread_write *)

\* write() adds to the counter; it would block rather than pass EfdMax.
WriterWrite(e) ==
    /\ Alive /\ wpc[e] = "write"
    /\ \/ /\ ctr[e] + Value(e) =< EfdMax
          /\ ctr' = [ctr EXCEPT ![e] = @ + Value(e)]
          /\ written' = [written EXCEPT ![e] = @ + Value(e)]
          /\ wpc' = [wpc EXCEPT ![e] = "sleep"]
          /\ wtimer' = [wtimer EXCEPT ![e] = Interval(e)]
       \/ /\ MayFail("write") /\ wpc' = [wpc EXCEPT ![e] = "ended"]
          /\ UNCHANGED <<ctr, written, wtimer>>
    /\ Ran(e)
    /\ UNCHANGED <<mvars, rvars, wi>>

WriterWake(e) ==
    /\ Alive /\ wpc[e] = "sleep" /\ wtimer[e] = 0
    /\ wi' = [wi EXCEPT ![e] = @ + 1]
    /\ wpc' = [wpc EXCEPT ![e] = IF wi[e] + 1 < WriteNum THEN "write" ELSE "ended"]
    /\ lag' = lag
    /\ UNCHANGED <<mvars, rvars, wtimer, written, ctr>>

-----------------------------------------------------------------------------
(* Time *)

WriterRunnable(e) ==
    \/ wpc[e] = "write" /\ (ctr[e] + Value(e) =< EfdMax \/ MayFail("write"))
    \/ wpc[e] = "sleep" /\ wtimer[e] = 0
ReaderRunnable ==
    \/ rpc \in {"start", "read"}
    \/ rpc = "wait" /\ (Ready # {} \/ rtimer = 0)
MainRunnable ==
    \/ mpc \in {"malloc", "eventfd", "reader", "writers", "close"}
    \/ mpc = "joinw" /\ wpc[mi] \in {"none", "ended"}
    \/ mpc = "joinr" /\ rpc = "ended"
Runnable(t) ==
    \/ t = Main /\ MainRunnable
    \/ t = Reader /\ ReaderRunnable
    \/ t \in Efds /\ WriterRunnable(t)

CountDown(n) == IF n > 0 THEN n - 1 ELSE 0

Tick ==
    /\ Alive
    /\ \A t \in Threads : Runnable(t) => lag[t] < MaxLag
    /\ lag' = [t \in Threads |-> IF Runnable(t) THEN lag[t] + 1 ELSE lag[t]]
    /\ rtimer' = IF rpc = "wait" THEN CountDown(rtimer) ELSE rtimer
    /\ wtimer' = [e \in Efds |-> IF wpc[e] = "sleep" THEN CountDown(wtimer[e]) ELSE wtimer[e]]
    /\ UNCHANGED <<mvars, ctr, rpc, pending, epollOpen, delivered, wpc, wi, written>>

\* The process has ended, and all its threads with it.
Terminated == ~Alive /\ UNCHANGED vars

Next ==
    /\ \/ Malloc \/ OpenEfd \/ CreateReader \/ CreateWriter
       \/ JoinWriter \/ JoinReader \/ CloseEfd
       \/ ReaderStart \/ ReaderWake \/ ReaderTimeout \/ ReaderWaitError \/ ReaderRead
       \/ \E e \in Efds : WriterWrite(e) \/ WriterWake(e)
       \/ Tick
       \/ Terminated
    /\ UNCHANGED faults

Spec == Init /\ [][Next]_vars

(* The scheduler never leaves the process idle while a thread can run or a *)
(* timer is running; bounded lag makes that fair to every thread.          *)
FairSpec == Spec /\ WF_vars(Next)

-----------------------------------------------------------------------------
(* Properties *)

TypeOK ==
    /\ mpc \in Ended \cup {"malloc", "eventfd", "reader", "writers", "joinw", "joinr", "close"}
    /\ mi \in Efds /\ open \subseteq Efds
    /\ ctr \in [Efds -> Nat]
    /\ rpc \in {"none", "start", "wait", "read", "ended"}
    /\ pending \subseteq Efds /\ rtimer \in Nat /\ epollOpen \in BOOLEAN
    /\ wpc \in [Efds -> {"none", "write", "sleep", "ended"}]
    /\ wi \in [Efds -> Nat] /\ wtimer \in [Efds -> Nat]
    /\ lag \in [Threads -> Nat]
    /\ written \in [Efds -> Nat] /\ delivered \in [Efds -> Nat]
    /\ faults \in FaultSets

\* The reader never blocks in read() (line 67) and so cannot hang past its
\* 6-second timeout: an event reported by epoll_wait is still there when read.
ReadNeverBlocks == rpc = "read" => pending # {} /\ \A e \in pending : ctr[e] > 0

\* main closes an eventfd (line 170) only when no thread can use it any more,
\* also when a writer could not be created and its join returned at once.
NoUseAfterClose ==
    Alive => \A e \in Efds :
        rpc \in {"start", "wait", "read"} \/ wpc[e] \in {"write", "sleep"} => e \in open

\* The schedules under which the fixed timeout of 6000 ms is long enough for
\* intervals of 1, 3 and 5 s: the delays stay below the slack and none of the
\* reader's own calls fails.  Any call of main or of a writer may.
ReaderCalls == {"epoll_create1", "epoll_ctl", "epoll_wait", "read"}
Punctual ==
    /\ faults \cap ReaderCalls = {} /\ N =< MaxEvents
    /\ 2 * MaxLag < Timeout
    /\ \A e \in Efds : Interval(e) + MaxLag < Timeout /\ WriteNum * Value(e) =< EfdMax

\* On a punctual schedule the reader's timeout (line 77) is never taken for the
\* end while a writer is still to be created or has something left to write, so
\* a run that exits with 0 has printed as read all that the writers printed as
\* written, also when some writers could not be created or ended early (lines
\* 101-105); when no call fails that is write_num values of each.
AllDelivered ==
    Punctual =>
        /\ rpc = "ended" => mpc # "writers" /\ \A e \in Efds : wpc[e] \in {"none", "ended"}
        /\ mpc = "exit0" => \A e \in Efds :
                /\ delivered[e] = written[e]
                /\ faults = {} => written[e] = WriteNum * Value(e)

\* The process ends, whatever calls fail: no join waits for ever.
Terminates == <>(~Alive)

=============================================================================
