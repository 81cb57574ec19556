-------------------------- MODULE MCKernelModules --------------------------
(* The kernel modules of the repository and the programs they work with,   *)
(* for TLC.  A behaviour is about one of four scenes: a module that is     *)
(* loaded and unloaded, the module that signals an eventfd, the module     *)
(* that lists the UDP sockets, and the UDP programs.  The others keep      *)
(* their initial state.                                                    *)
EXTENDS KernelModules, EfdSignal, Zudp, Udp

VARIABLE scene

vars == <<scene, modvars, efdvars, zudpvars, udpvars>>

AllModules == DOMAIN Modules
MCFaults   == Things

Init ==
    /\ scene \in {"modules", "efd", "zudp", "udp"}
    /\ ModInit /\ EfdInit /\ ZudpInit /\ UdpInit
    /\ scene # "modules" => driver = "hello"

InModules(A) == scene = "modules" /\ A /\ UNCHANGED <<scene, efdvars, zudpvars, udpvars>>
InEfd(A)     == scene = "efd"     /\ A /\ UNCHANGED <<scene, modvars, zudpvars, udpvars>>
InZudp(A)    == scene = "zudp"    /\ A /\ UNCHANGED <<scene, modvars, efdvars, udpvars>>
InUdp(A)     == scene = "udp"     /\ A /\ UNCHANGED <<scene, modvars, efdvars, zudpvars>>

Next == InModules(ModNext) \/ InEfd(EfdNext) \/ InZudp(ZudpNext) \/ InUdp(UdpNext)

\* rmmod goes on, workers run, no handler waits for anything; a program that
\* can run, runs, and insmod goes on.
Fairness ==
    /\ WF_vars(InModules(Release \/ Unloaded)) /\ WF_vars(InModules(WorkRuns))
    /\ \A f \in Files : WF_vars(InModules(my_ioctl(f) \/ Return(f)))
    /\ WF_vars(InEfd(EfdProgram)) /\ WF_vars(InEfd(EfdModule))

Spec == Init /\ [][Next]_vars /\ Fairness
=============================================================================
