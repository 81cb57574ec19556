-------------------------------- MODULE Pmon --------------------------------
(***************************************************************************)
(* The process monitor src/src/linux/proc_connector/pmon.c, several copies *)
(* of which may run on one machine.                                        *)
(*                                                                         *)
(* The kernel's proc connector is external: it multicasts every process    *)
(* event to all bound sockets while its count of listeners is not zero; the*)
(* count goes up with a LISTEN message and down with an IGNORE message, and*)
(* both are acknowledged by an event.  A socket whose queue is full drops  *)
(* the event and fails the next recv() with ENOBUFS.                       *)
(*                                                                         *)
(* Events are numbered modulo Wrap, in the order the kernel raises them.   *)
(***************************************************************************)
EXTENDS Integers, Sequences, FiniteSets

CONSTANTS
    Monitors,
    QMax,       \* events a socket's queue holds
    Wrap,       \* events are numbered modulo Wrap
    Faults      \* subset of {"socket", "send", "recv", "shutdown"}: calls that may
                \* fail, and "shutdown" when recv() may return 0

ASSUME PmonAssumption ==
    QMax \in Nat \ {0} /\ Wrap \in Nat /\ Wrap > QMax + 1 /\ IsFiniteSet(Monitors)

VARIABLES
    pc,         \* monitor -> where it is
    need_exit,  \* monitor -> the flag set by on_sigint
    queue,      \* monitor -> events in its socket
    overrun,    \* monitors whose next recv() fails with ENOBUFS
    listeners,  \* the kernel's count of listeners
    n,          \* the number of the next event
    last,       \* monitor -> the last event printed, None before the first
    hole,       \* monitors that printed two events with others between them
    lost        \* monitors that ended well although their IGNORE was not sent

kernel == <<queue, overrun, listeners, n>>
vars == <<pc, need_exit, kernel, last, hole, lost>>

None == -1
Live == {m \in Monitors : pc[m] \notin {"ok", "failure"}}
Bound == {m \in Live : pc[m] # "connect"}

Init ==
    /\ pc = [m \in Monitors |-> "connect"] /\ need_exit = [m \in Monitors |-> FALSE]
    /\ queue = [m \in Monitors |-> <<>>] /\ overrun = {}
    /\ listeners = 0 /\ n = 0
    /\ last = [m \in Monitors |-> None] /\ hole = {} /\ lost = {}

Goto(m, to) == pc' = [pc EXCEPT ![m] = to]

\* One event for every bound socket, if anybody is counted as listening.
Multicast(count) ==
    IF count = 0 THEN UNCHANGED <<queue, overrun, n>>
    ELSE /\ queue' = [m \in Monitors |->
                IF m \in Bound /\ Len(queue[m]) < QMax THEN Append(queue[m], n) ELSE queue[m]]
         /\ overrun' = overrun \cup {m \in Bound : Len(queue[m]) = QMax}
         /\ n' = (n + 1) % Wrap

\* A process forks, executes, changes its ids or ends.
Event ==
    /\ Multicast(listeners)
    /\ UNCHANGED <<pc, need_exit, listeners, last, hole, lost>>

nl_connect(m) ==
    /\ pc[m] = "connect"
    /\ \/ Goto(m, "listen")
       \/ "socket" \in Faults /\ Goto(m, "failure")
    /\ UNCHANGED <<need_exit, kernel, last, hole, lost>>

\* Mutant: a LISTEN that failed is followed by an IGNORE.
set_proc_ev_listen_undo(m) ==
    /\ pc[m] = "listen"
    /\ \/ /\ Goto(m, "test") /\ listeners' = listeners + 1 /\ Multicast(listeners + 1)
       \/ /\ "send" \in Faults /\ Goto(m, "ignore") /\ UNCHANGED kernel
    /\ UNCHANGED <<need_exit, last, hole, lost>>

set_proc_ev_listen_on(m) ==
    /\ pc[m] = "listen"
    /\ \/ /\ Goto(m, "test") /\ listeners' = listeners + 1 /\ Multicast(listeners + 1)
       \/ /\ "send" \in Faults /\ Goto(m, "failure") /\ UNCHANGED kernel
    /\ UNCHANGED <<need_exit, last, hole, lost>>

\* Mutant: while (1).
TestNever(m) ==
    /\ pc[m] = "test" /\ Goto(m, "recv")
    /\ UNCHANGED <<need_exit, kernel, last, hole, lost>>

\* while (!need_exit)
Test(m) ==
    /\ pc[m] = "test"
    /\ Goto(m, IF need_exit[m] THEN "ignore" ELSE "recv")
    /\ UNCHANGED <<need_exit, kernel, last, hole, lost>>

\* Mutant: every error is treated like EINTR.
RecvErrorIgnored(m) ==
    /\ pc[m] = "recv" /\ m \in overrun
    /\ overrun' = overrun \ {m}
    /\ Goto(m, "test")
    /\ UNCHANGED <<need_exit, queue, listeners, n, last, hole, lost>>

\* The ENOBUFS of an overrun: an error other than EINTR ends the loop with -1,
\* and main then skips the IGNORE message.
RecvError(m) ==
    /\ pc[m] = "recv" /\ m \in overrun
    /\ overrun' = overrun \ {m}
    /\ Goto(m, "failure")
    /\ UNCHANGED <<need_exit, queue, listeners, n, last, hole, lost>>

\* Errors that may come at any time but need not: -1 as above, and the 0 that
\* the code takes for a shutdown and that ends the loop well.
RecvFault(m) ==
    /\ pc[m] = "recv" /\ m \notin overrun
    /\ \/ "recv" \in Faults /\ Goto(m, "failure")
       \/ "shutdown" \in Faults /\ Goto(m, "ignore")
    /\ UNCHANGED <<need_exit, kernel, last, hole, lost>>

Recv(m) ==
    /\ pc[m] = "recv" /\ m \notin overrun /\ queue[m] # <<>>
    /\ queue' = [queue EXCEPT ![m] = Tail(@)]
    /\ last' = [last EXCEPT ![m] = Head(queue[m])]
    /\ hole' = IF last[m] \in {None, (Head(queue[m]) - 1) % Wrap} THEN hole ELSE hole \cup {m}
    /\ Goto(m, "test")
    /\ UNCHANGED <<need_exit, overrun, listeners, n, lost>>

\* on_sigint, and the EINTR of a recv() that is waiting; a signal between the
\* test of need_exit and the call of recv() interrupts nothing.
on_sigint(m) ==
    /\ m \in Live
    /\ need_exit' = [need_exit EXCEPT ![m] = TRUE]
    /\ \/ pc[m] = "recv" /\ queue[m] = <<>> /\ m \notin overrun /\ Goto(m, "test")
       \/ UNCHANGED pc
    /\ UNCHANGED <<kernel, last, hole, lost>>

\* Mutant: the IGNORE message is forgotten.
exit_listening(m) ==
    /\ pc[m] = "ignore" /\ Goto(m, "ok")
    /\ UNCHANGED <<need_exit, kernel, last, hole, lost>>

\* The result of the last send is not looked at; then close and exit.
set_proc_ev_listen_off(m) ==
    /\ pc[m] = "ignore"
    /\ Goto(m, "ok")
    /\ \/ listeners' = listeners - 1 /\ Multicast(listeners - 1) /\ UNCHANGED lost
       \/ "send" \in Faults /\ lost' = lost \cup {m} /\ UNCHANGED kernel
    /\ UNCHANGED <<need_exit, last, hole>>

Terminated == Live = {} /\ UNCHANGED vars

Step(m) ==
    \/ nl_connect(m) \/ set_proc_ev_listen_on(m) \/ Test(m)
    \/ Recv(m) \/ RecvError(m) \/ set_proc_ev_listen_off(m)

Next == (\E m \in Monitors : Step(m) \/ RecvFault(m) \/ on_sigint(m)) \/ Event \/ Terminated

Spec     == Init /\ [][Next]_vars
\* Every monitor that can take a step takes one; signals, events and the errors
\* of a recv() that waits need not come.
FairSpec == Spec /\ \A m \in Monitors : WF_vars(Step(m))

-----------------------------------------------------------------------------
(* Properties *)

TypeOK ==
    /\ pc \in [Monitors -> {"connect", "listen", "test", "recv", "ignore", "ok", "failure"}]
    /\ need_exit \in [Monitors -> BOOLEAN]
    /\ queue \in [Monitors -> Seq(0 .. Wrap-1)] /\ \A m \in Monitors : Len(queue[m]) =< QMax
    /\ overrun \subseteq Monitors /\ hole \subseteq Monitors /\ lost \subseteq Monitors
    /\ listeners \in Nat /\ n \in 0 .. Wrap-1
    /\ last \in [Monitors -> {None} \cup (0 .. Wrap-1)]

\* What a monitor prints has no hole: events lost in an overrun make the next
\* recv() fail, and the monitor ends instead of going on after the gap.
NoSilentGap == hole = {}

\* The kernel counts every monitor that is at work, so that none of them stops
\* getting events because another one has left (lines 171-183).
StillCounted == \A m \in Monitors : pc[m] \in {"test", "recv", "ignore"} => listeners > 0

\* When all monitors have ended, the kernel's count is up for every one whose
\* IGNORE could not be sent, beyond them only for monitors that ended in a
\* failure (lines 172-181 skip the IGNORE), and so back at zero when all ended
\* well and every IGNORE was sent.
EndBalances ==
    Live = {} =>
        /\ Cardinality(lost) =< listeners
        /\ listeners =< Cardinality(lost) + Cardinality({m \in Monitors : pc[m] = "failure"})

\* After SIGINT the monitor ends, if process events keep coming: a signal that
\* falls between the test of need_exit (line 99) and recv() interrupts nothing,
\* and only the next event lets the loop see the flag.
SigintEnds ==
    []<><<Event>>_vars => \A m \in Monitors : need_exit[m] ~> pc[m] \in {"ok", "failure"}

=============================================================================
