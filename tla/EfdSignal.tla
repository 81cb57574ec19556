----------------------------- MODULE EfdSignal -----------------------------
(***************************************************************************)
(* A program that waits on an eventfd, src/src/linux/eventfd/efd_us.c, and *)
(* the kernel module that signals it, efd_lkm.c.  The operator loads the   *)
(* module with the pid and the descriptor that the program printed, or     *)
(* with numbers that name something else.                                  *)
(*                                                                         *)
(* The module finds the task, then the file, then the eventfd, and holds   *)
(* no reference before the last of these: the program may end in between.  *)
(***************************************************************************)
EXTENDS Integers

CONSTANT MaxSignals     \* times the module is loaded

ASSUME EfdAssumption == MaxSignals \in Nat

VARIABLES
    upc,            \* program: "open", "wait", "read", "close", "ended", "killed"
    count,          \* the counter of the eventfd
    shown,          \* the value the program printed
    kpc,            \* module: "out", "task", "file", "ctx", "put", "in", "failed", "oops"
    named,          \* what pid and efd name: "efd", "other file", "no file", "no task"
    signals         \* times the module was loaded

efdvars == <<upc, count, shown, kpc, named, signals>>

N == 123

EfdInit ==
    /\ upc = "open" /\ count = 0 /\ shown = 0
    /\ kpc = "out" /\ named = "efd" /\ signals = 0

\* eventfd(0, 0), epoll_create1 and epoll_ctl, each of which may fail.
EfdOpen(ok) ==
    /\ upc = "open" /\ upc' = IF ok THEN "wait" ELSE "ended"
    /\ UNCHANGED <<count, shown, kpc, named, signals>>

\* Mutant: epoll_wait with a timeout.
EpollWaitTimed ==
    /\ upc = "wait" /\ upc' = IF count > 0 THEN "read" ELSE "close"
    /\ UNCHANGED <<count, shown, kpc, named, signals>>

EpollWait ==
    /\ upc = "wait" /\ count > 0 /\ upc' = "read"
    /\ UNCHANGED <<count, shown, kpc, named, signals>>

EfdRead ==
    /\ upc = "read" /\ upc' = "close"
    /\ shown' = count /\ count' = 0
    /\ UNCHANGED <<kpc, named, signals>>

EfdClose ==
    /\ upc = "close" /\ upc' = "ended"
    /\ UNCHANGED <<count, shown, kpc, named, signals>>

\* The program is stopped from outside, or epoll_wait is interrupted.
EfdKilled ==
    /\ upc \in {"open", "wait", "read"} /\ upc' = "killed"
    /\ UNCHANGED <<count, shown, kpc, named, signals>>

----------------------------------------------------------------------------
(* init_module *)

Gone == upc \in {"ended", "killed"}

\* Loading it again takes an rmmod before, where cleanup_module does nothing.
EfdInsmod(n) ==
    /\ kpc \in {"out", "in", "failed"} /\ signals < MaxSignals /\ upc # "open"
    /\ kpc' = "task" /\ named' = n /\ signals' = signals + 1
    /\ UNCHANGED <<upc, count, shown>>

\* pid_task, whose result is used without a look at it.
FindTask ==
    /\ kpc = "task" /\ kpc' = IF named = "no task" \/ Gone THEN "oops" ELSE "file"
    /\ UNCHANGED <<upc, count, shown, named, signals>>

\* fcheck_files; task->files is null once the program has ended.
FindFile ==
    /\ kpc = "file" /\ kpc' = IF Gone THEN "oops" ELSE "ctx"
    /\ UNCHANGED <<upc, count, shown, named, signals>>

\* eventfd_ctx_fileget fails on a null file, and returns an error that is not
\* null for a file that is no eventfd, which eventfd_signal then uses.  A file
\* closed meanwhile is freed memory: anything may be found there.
Signal ==
    /\ kpc = "ctx"
    /\ \/ named = "efd" /\ count' = count + N /\ kpc' = "put"
       \/ named # "efd" /\ kpc' = "oops" /\ UNCHANGED count
       \/ Gone /\ kpc' \in {"oops", "failed", "put"} /\ UNCHANGED count
    /\ UNCHANGED <<upc, shown, named, signals>>

\* eventfd_ctx_put and return.
Put ==
    /\ kpc = "put" /\ kpc' = "in"
    /\ UNCHANGED <<upc, count, shown, named, signals>>

EfdDone ==
    /\ Gone /\ (kpc = "oops" \/ (kpc \in {"out", "in", "failed"} /\ signals = MaxSignals))
    /\ UNCHANGED efdvars

EfdProgram == (\E ok \in BOOLEAN : EfdOpen(ok)) \/ EpollWait \/ EfdRead \/ EfdClose
EfdModule  == FindTask \/ FindFile \/ Signal \/ Put

EfdNext ==
    \/ EfdProgram \/ EfdKilled \/ EfdModule
    \/ \E n \in {"efd", "other file", "no file", "no task"} : EfdInsmod(n)
    \/ EfdDone

----------------------------------------------------------------------------
(* Properties *)

EfdTypeOK ==
    /\ upc \in {"open", "wait", "read", "close", "ended", "killed"}
    /\ count \in 0 .. N * MaxSignals /\ shown \in 0 .. N * MaxSignals
    /\ kpc \in {"out", "task", "file", "ctx", "put", "in", "failed", "oops"}
    /\ signals \in 0 .. MaxSignals

\* What the module has added before the program reads is printed, also when
\* several loads came first, and the program does not stop waiting before.
SignalDelivered ==
    /\ \A k \in 1 .. MaxSignals :
        (count = k * N /\ upc \in {"wait", "read"})
            ~> (shown \in {j * N : j \in k .. MaxSignals} \/ upc = "killed")
    /\ [](upc = "close" => shown > 0)
=============================================================================
