------------------------------ MODULE SPThread ------------------------------
(***************************************************************************)
(* src/src/linux/pthread/simple_pthread/spthread.c: a main thread that     *)
(* creates and kills threads as keys are typed, in a stack of MAX_THREAD   *)
(* slots.  A created thread reads its slot's flag between one-second       *)
(* sleeps and returns when it is clear.                                    *)
(*                                                                         *)
(* The threads of the process are external: a handle is free, or names a   *)
(* thread that runs, sleeps, or has returned and waits to be joined.  A    *)
(* handle may be used again once its thread is joined.                     *)
(***************************************************************************)
EXTENDS Integers

CONSTANTS
    MAX_THREAD,     \* slots
    Handles,        \* the thread handles the process can have
    NoHandle,       \* a tid never written
    MayFail         \* whether pthread_create() may fail

ASSUME SPThreadAssumption ==
    /\ MAX_THREAD \in Nat \ {0}
    /\ NoHandle \notin Handles
    /\ MayFail \in BOOLEAN

VARIABLES
    mpc,            \* where main is
    current_nums,
    running,        \* slot -> args[slot].running
    tid,            \* slot -> args[slot].tid
    thread,         \* handle -> state of its thread
    arg             \* handle -> the slot its thread was given

spvars == <<mpc, current_nums, running, tid, thread, arg>>

Slots == 0 .. MAX_THREAD - 1
Existing == {h \in Handles : thread[h] # "free"}

SPInit ==
    /\ mpc = "getchar" /\ current_nums = 0
    /\ running = [i \in Slots |-> 0] /\ tid = [i \in Slots |-> NoHandle]
    /\ thread = [h \in Handles |-> "free"] /\ arg = [h \in Handles |-> 0]

----------------------------------------------------------------------------
(* The main thread *)

\* Key 'c': the flag is set first, the count moves only if the thread exists.
CreateThread ==
    /\ mpc = "getchar" /\ current_nums < MAX_THREAD
    /\ running' = [running EXCEPT ![current_nums] = 1]
    /\ \/ \E h \in Handles \ Existing :
            /\ tid' = [tid EXCEPT ![current_nums] = h]
            /\ thread' = [thread EXCEPT ![h] = "run"]
            /\ arg' = [arg EXCEPT ![h] = current_nums]
            /\ current_nums' = current_nums + 1
       \/ /\ MayFail
          /\ UNCHANGED <<tid, thread, arg, current_nums>>
    /\ UNCHANGED mpc

\* Mutant: the thread is told to stop and forgotten, without a join.
KillNoJoin ==
    /\ mpc = "getchar" /\ current_nums > 0
    /\ running' = [running EXCEPT ![current_nums - 1] = 0]
    /\ current_nums' = current_nums - 1
    /\ UNCHANGED <<mpc, tid, thread, arg>>

\* Mutant: the flag of the oldest thread is cleared.
KillFirst ==
    /\ mpc = "getchar" /\ current_nums > 0
    /\ running' = [running EXCEPT ![0] = 0]
    /\ mpc' = "join"
    /\ UNCHANGED <<current_nums, tid, thread, arg>>

\* Key 'k': the youngest thread is told to stop ...
Kill ==
    /\ mpc = "getchar" /\ current_nums > 0
    /\ running' = [running EXCEPT ![current_nums - 1] = 0]
    /\ mpc' = "join"
    /\ UNCHANGED <<current_nums, tid, thread, arg>>

\* ... and main waits in pthread_join() until it has returned.  Joining a
\* handle that names no thread fails, and the count stays.
Join ==
    LET h == tid[current_nums - 1] IN
    /\ mpc = "join"
    /\ h \in Existing => thread[h] = "returned"
    /\ IF h \in Existing
       THEN /\ thread' = [thread EXCEPT ![h] = "free"]
            /\ current_nums' = current_nums - 1
       ELSE UNCHANGED <<thread, current_nums>>
    /\ mpc' = "getchar"
    /\ UNCHANGED <<running, tid, arg>>

\* Key 'q': exit() ends every thread.
QuitMain ==
    /\ mpc = "getchar" /\ mpc' = "exit"
    /\ thread' = [h \in Handles |-> "free"]
    /\ UNCHANGED <<current_nums, running, tid, arg>>

----------------------------------------------------------------------------
(* thread_func *)

TestFlag(h) ==
    /\ thread[h] = "run"
    /\ thread' = [thread EXCEPT ![h] = IF running[arg[h]] # 0 THEN "sleep" ELSE "returned"]
    /\ UNCHANGED <<mpc, current_nums, running, tid, arg>>

Awake(h) ==
    /\ thread[h] = "sleep"
    /\ thread' = [thread EXCEPT ![h] = "run"]
    /\ UNCHANGED <<mpc, current_nums, running, tid, arg>>

SPTerminated == mpc = "exit" /\ UNCHANGED spvars

SPNext ==
    \/ CreateThread \/ Kill \/ Join \/ QuitMain
    \/ \E h \in Handles : TestFlag(h) \/ Awake(h)
    \/ SPTerminated

SPSpec == SPInit /\ [][SPNext]_spvars

----------------------------------------------------------------------------
(* Properties *)

SPTypeOK ==
    /\ mpc \in {"getchar", "join", "exit"}
    /\ current_nums \in 0 .. MAX_THREAD
    /\ running \in [Slots -> {0, 1}]
    /\ tid \in [Slots -> Handles \cup {NoHandle}]
    /\ thread \in [Handles -> {"free", "run", "sleep", "returned"}]
    /\ arg \in [Handles -> Slots]

\* The slots below current_nums and the unjoined threads correspond one to
\* one: no thread is forgotten, none is counted twice, and no slot that may
\* be given out again is still read by a thread.
SlotsHoldThreads ==
    mpc # "exit" =>
        /\ \A i \in 0 .. current_nums - 1 : tid[i] \in Existing /\ arg[tid[i]] = i
        /\ \A h \in Existing : arg[h] < current_nums /\ tid[arg[h]] = h

\* Only the thread main is joining has been told to stop, so only it may
\* have returned: 'k' ends the youngest thread and no other.
OnlyTheKilledReturns ==
    \A h \in Handles :
        thread[h] = "returned" => mpc = "join" /\ arg[h] = current_nums - 1

\* Main always comes back to the keyboard from pthread_join().
KillReturns == mpc = "join" ~> mpc = "getchar"

=============================================================================
