---------------------------- MODULE MCPrograms -----------------------------
(* The program that creates and kills threads and the virtual machine      *)
(* runners, for TLC.  A behaviour is about one of the two; the other keeps *)
(* its initial state.  Loops and string of the guests are as they are in   *)
(* the code, and everything that can fail may fail.                        *)
EXTENDS SPThread, Kvm

VARIABLE scene

vars == <<scene, spvars, kvmvars>>

\* "Hello World!" and a new line.
MCString == <<72, 101, 108, 108, 111, 32, 87, 111, 114, 108, 100, 33, 10>>
MCFaults == {calls2[k] : k \in DOMAIN calls2} \cup {"run", "leave"}

Init ==
    /\ scene \in {"threads", "kvm"}
    /\ SPInit /\ KvmInit
    /\ scene # "kvm" => prog = "test1" /\ guest = "add"

InThreads(A) == scene = "threads" /\ A /\ UNCHANGED <<scene, kvmvars>>
InKvm(A)     == scene = "kvm"     /\ A /\ UNCHANGED <<scene, spvars>>

Next == InThreads(SPNext) \/ InKvm(KvmNext)

\* Nobody has to press a key; a join returns once its thread has, and the
\* scheduler runs every thread.  A runner is scheduled, and so is the guest in it.
Fairness ==
    /\ WF_vars(InThreads(Join))
    /\ \A h \in Handles : WF_vars(InThreads(TestFlag(h))) /\ WF_vars(InThreads(Awake(h)))
    /\ WF_vars(InKvm(RunnerStep))

Spec == Init /\ [][Next]_vars /\ Fairness
=============================================================================
