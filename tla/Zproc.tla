------------------------------- MODULE Zproc -------------------------------
(***************************************************************************)
(* The proc files of src/src/kernel/procfs/zproc.c and the page table walk *)
(* of src/src/kernel/procfs/get_pid_va.py that uses them.                  *)
(*                                                                         *)
(* The kernel module keeps ONE pid and ONE phys for all who open its files:*)
(* writing mminfo or physvalue sets the global, reading shows what the     *)
(* global names at that moment.  A walker (one run of the script) writes   *)
(* its pid and reads cr3, then writes an address and reads the value there,*)
(* five times: four table entries and the data.                            *)
(*                                                                         *)
(* src/src/linux/affinity/cpu_affinity.c has a file of the same kind: a    *)
(* viewer writes a pid and reads which processors that process may use.    *)
(*                                                                         *)
(* An address is a page and a slot in it.  An entry names a page, says     *)
(* whether its execute-disable bit (63) is set and of which kind it is: one*)
(* that leads on, one of a huge page (bit 7, PS) or one whose present bit  *)
(* is clear.  Neither the script nor the module looks at the kind.         *)
(***************************************************************************)
EXTENDS Integers, Sequences

CONSTANTS
    Walkers,
    Pages, Slots,
    HighPages,      \* pages at or above 4 GB
    Alias,          \* what `pa &= 0xffffffff' makes of a page
    Mem,            \* page -> slot -> entry [page, nx, kind], the memory walked
    Cr3,            \* process -> the page of its top table
    Policied,       \* processes that have a memory policy
    Targets         \* the assignments: walker -> [pid, va], va a sequence of five
                    \* slots, or empty for a viewer of cpu_affinity

Pids == DOMAIN Cr3
Entries == [page : Pages, nx : BOOLEAN, kind : {"present", "huge", "absent"}]
Page0 == CHOOSE p \in Pages : Alias[p] = p /\ \A q \in Pids : Cr3[q] # p

ASSUME ZprocAssumption ==
    /\ HighPages \subseteq Pages /\ Alias \in [Pages -> Pages] /\ Slots # {}
    /\ \A p \in Pages \ HighPages : Alias[p] = p
    /\ \E p \in Pages : Alias[p] = p /\ \A q \in Pids : Cr3[q] # p
    /\ Mem \in [Pages -> [Slots -> Entries]]
    /\ Cr3 \in [Pids -> Pages] /\ Policied \subseteq Pids
    /\ Targets \subseteq [Walkers -> [pid : Pids, va : [1 .. 5 -> Slots] \cup {<<>>}]]

VARIABLES
    target,         \* walker -> the arguments the script was started with
    pid, phys,      \* the globals of zproc.c
    gpid,           \* pid of cpu_affinity.c
    alive,          \* processes that exist
    wpc,            \* walker -> "pid", "mm", "addr", "page", "slot", "done",
                    \* "get", "print", "oops" of a viewer
    level,          \* walker -> 1 .. 5, the step of the walk
    entry,          \* walker -> the entry read last (cr3 before the first)
    pg,             \* walker -> page_num of the read in progress
    task,           \* viewer -> the process found for its read
    seen,           \* viewer -> [pid, task], the pid and the process printed
    disturbed       \* walkers between whose write and read another one wrote

walk == <<phys, pid, level, entry, pg>>
view == <<gpid, task, seen>>
vars == <<target, pid, phys, gpid, alive, wpc, level, entry, pg, task, seen, disturbed>>

NoPid == 0
Top(p) == [page |-> p, nx |-> FALSE, kind |-> "present"]
Init ==
    /\ target \in Targets
    /\ pid = NoPid /\ gpid = NoPid /\ phys = [page |-> Page0, slot |-> CHOOSE s \in Slots : TRUE]
    /\ alive = Pids
    /\ wpc = [w \in Walkers |-> "pid"] /\ level = [w \in Walkers |-> 1]
    /\ entry = [w \in Walkers |-> Top(Page0)]
    /\ pg = [w \in Walkers |-> Page0] /\ disturbed = {}
    /\ task = [w \in Walkers |-> NoPid]
    /\ seen = [w \in Walkers |-> [pid |-> NoPid, task |-> NoPid]]

Viewer(w) == target[w].va = <<>>
Others(w, states) == {x \in Walkers \ {w} : wpc[x] \in states}

\* f.write(str(pid)): mminfo_write.
mminfo_write(w) ==
    /\ wpc[w] = "pid" /\ ~Viewer(w)
    /\ pid' = target[w].pid
    /\ wpc' = [wpc EXCEPT ![w] = "mm"]
    /\ disturbed' = disturbed \cup Others(w, {"mm"})
    /\ UNCHANGED <<phys, alive, level, entry, pg, view>>

\* f.read(): mminfo_show.  When it prints no pgd, cr3 stays 0.
mminfo_show(w) ==
    /\ wpc[w] = "mm"
    /\ entry' = [entry EXCEPT ![w] = Top(IF pid \in alive THEN Cr3[pid] ELSE Page0)]
    /\ wpc' = [wpc EXCEPT ![w] = "addr"]
    /\ UNCHANGED <<pid, phys, alive, level, pg, disturbed, view>>

\* Mutant: the slot of the level before.
AddressOff(w) ==
    LET k == IF level[w] > 1 THEN level[w] - 1 ELSE 1
    IN  [page |-> entry[w].page, slot |-> target[w].va[k]]

\* (value & clear_mask) | (index << 3); the last step also cuts it to 32 bits.
Address(w) ==
    [page |-> IF level[w] = 5 THEN Alias[entry[w].page] ELSE entry[w].page,
     slot |-> target[w].va[level[w]]]

\* phys_value_write.  With bit 63 set, kstrtol fails, phys keeps its value and
\* the script is told that everything was written; step 5 has cut the bit off.
phys_value_write(w) ==
    /\ wpc[w] = "addr"
    /\ IF entry[w].nx /\ level[w] < 5
       THEN UNCHANGED <<phys, disturbed>>
       ELSE /\ phys' = Address(w)
            /\ disturbed' = disturbed \cup Others(w, {"page", "slot"})
    /\ wpc' = [wpc EXCEPT ![w] = "page"]
    /\ UNCHANGED <<pid, alive, level, entry, pg, view>>

\* phys_value_show reads phys twice: page_num and page_off.
show_page(w) ==
    /\ wpc[w] = "page"
    /\ pg' = [pg EXCEPT ![w] = phys.page]
    /\ wpc' = [wpc EXCEPT ![w] = "slot"]
    /\ UNCHANGED <<pid, phys, alive, level, entry, disturbed, view>>

\* ... and the script takes the value, without a look at the address shown
\* with it, and goes back to the start of the file for the next level.
show_value(w) ==
    /\ wpc[w] = "slot"
    /\ entry' = [entry EXCEPT ![w] = Mem[pg[w]][phys.slot]]
    /\ IF level[w] = 5
       THEN wpc' = [wpc EXCEPT ![w] = "done"] /\ UNCHANGED level
       ELSE wpc' = [wpc EXCEPT ![w] = "addr"] /\ level' = [level EXCEPT ![w] = @ + 1]
    /\ UNCHANGED <<pid, phys, alive, pg, disturbed, view>>

----------------------------------------------------------------------------
(* cpu_affinity.c *)

proc_get_write(w) ==
    /\ wpc[w] = "pid" /\ Viewer(w)
    /\ gpid' = target[w].pid
    /\ wpc' = [wpc EXCEPT ![w] = "get"]
    /\ disturbed' = disturbed \cup Others(w, {"get", "print"})
    /\ UNCHANGED <<walk, alive, task, seen>>

\* proc_get_show reads pid to find the process ...
show_find(w) ==
    /\ wpc[w] = "get"
    /\ IF gpid \in alive
       THEN task' = [task EXCEPT ![w] = gpid] /\ wpc' = [wpc EXCEPT ![w] = "print"]
       ELSE wpc' = [wpc EXCEPT ![w] = "done"] /\ UNCHANGED task
    /\ UNCHANGED <<walk, gpid, alive, seen, disturbed>>

\* ... and again to print it.  The policy of a process is a null pointer unless
\* one was set, and the process may have ended.
show_print(w) ==
    /\ wpc[w] = "print"
    /\ seen' = [seen EXCEPT ![w] = [pid |-> gpid, task |-> task[w]]]
    /\ \E end \in {"done", "oops"} :
        /\ task[w] \in alive => end = IF task[w] \in Policied THEN "done" ELSE "oops"
        /\ wpc' = [wpc EXCEPT ![w] = end]
    /\ UNCHANGED <<walk, gpid, alive, task, disturbed>>

----------------------------------------------------------------------------

\* A process that is being looked at may end.
ProcessExit(p) ==
    /\ p \in alive /\ alive' = alive \ {p}
    /\ UNCHANGED <<walk, view, wpc, disturbed>>

Terminated == (\A w \in Walkers : wpc[w] \in {"done", "oops"}) /\ alive = {} /\ UNCHANGED vars

Walk(w) ==
    mminfo_write(w) \/ mminfo_show(w) \/ phys_value_write(w) \/ show_page(w) \/ show_value(w)
View(w) == proc_get_write(w) \/ show_find(w) \/ show_print(w)

Next ==
    \/ (\E w \in Walkers : Walk(w) \/ View(w)) /\ UNCHANGED target
    \/ (\E p \in Pids : ProcessExit(p)) /\ UNCHANGED target
    \/ Terminated

Spec == Init /\ [][Next]_vars

-----------------------------------------------------------------------------
(* Properties *)

TypeOK ==
    /\ target \in Targets
    /\ pid \in Pids \cup {NoPid} /\ phys \in [page : Pages, slot : Slots]
    /\ alive \subseteq Pids /\ disturbed \subseteq Walkers
    /\ wpc \in [Walkers -> {"pid", "mm", "addr", "page", "slot", "get", "print", "done", "oops"}]
    /\ gpid \in Pids \cup {NoPid} /\ task \in [Walkers -> Pids \cup {NoPid}]
    /\ level \in [Walkers -> 1 .. 5] /\ pg \in [Walkers -> Pages]
    /\ entry \in [Walkers -> Entries]

\* The processor's own walk, as long as every entry is present and no page huge.
Entry(p, va, k) ==
    LET e1 == Mem[Cr3[p]][va[1]]
        e2 == Mem[e1.page][va[2]]
        e3 == Mem[e2.page][va[3]]
        e4 == Mem[e3.page][va[4]]
    IN  <<e1, e2, e3, e4, Mem[e4.page][va[5]]>>[k]

\* The walks that the script's arithmetic is right for: through four tables to
\* a page of 4 KB that is in memory and below 4 GB, no execute-disable bit above
\* the last level.
Walkable(t) ==
    /\ \A k \in 1 .. 4 : Entry(t.pid, t.va, k).kind # "absent"
    /\ \A k \in 2 .. 3 : Entry(t.pid, t.va, k).kind # "huge"
    /\ \A k \in 1 .. 3 : ~Entry(t.pid, t.va, k).nx
    /\ Entry(t.pid, t.va, 4).page \notin HighPages

\* A walk that no other walker disturbed between a write and the read that
\* belongs to it ends with the value the processor's walk finds, whatever the
\* walkers did at other times with the same two globals.  A viewer that was not
\* disturbed is shown the process it asked for, under its own pid.
UndisturbedWalkIsRight ==
    \A w \in Walkers \ disturbed :
        wpc[w] = "done" /\ target[w].pid \in alive =>
            IF Viewer(w) THEN seen[w] = [pid |-> target[w].pid, task |-> target[w].pid]
            ELSE Walkable(target[w]) => entry[w] = Entry(target[w].pid, target[w].va, 5)
=============================================================================
