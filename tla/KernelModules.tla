--------------------------- MODULE KernelModules ---------------------------
(***************************************************************************)
(* How the kernel modules of the repository are loaded, used and unloaded. *)
(*                                                                         *)
(* An init function acquires things one by one and returns at the first    *)
(* failure it looks at; an exit function gives things back.  Meanwhile     *)
(* programs open the files of the module, call its handlers and map its    *)
(* memory, and a worker of the kernel runs its work.                       *)
(*                                                                         *)
(* The kernel is external: it refuses to unload a module that owns an open *)
(* file, it lets files be opened as soon as they are registered, it waits  *)
(* for the handlers in progress before it removes a proc file, and it      *)
(* keeps what a module does not give back.                                 *)
(***************************************************************************)
EXTENDS Integers, Sequences, SequencesExt

CONSTANTS
    Loaded,         \* the modules looked at
    Files,          \* files that programs may have open
    MaxLoads,       \* times the module is loaded
    Faults          \* things that may not be had

Things ==
    {"region", "cdev", "class", "device", "chrdev", "data", "misc", "queue", "work",
     "dir", "mminfo", "physvalue", "buddy", "get", "sys_reg", "seq_file"}

(* What each module acquires and gives back, in the order of the code. *)

ofcd2_init == <<"region">>
ofcd2_exit == <<"region">>

\* With CREATE_NODE; the build without it makes no class and no device.
ofcd3_init == <<"region", "cdev", "class", "device">>
plain_init == <<"region", "cdev">>
ofcd3_exit == <<"cdev", "device", "class", "region">>
plain_exit == <<"cdev", "region">>

hello_init == <<"region", "cdev", "class", "device">>
hello_exit == <<"cdev", "region">>

ztest_init == <<"region", "cdev", "class", "device">>
ztest_exit == <<"cdev", "device", "class", "region">>

\* Mutant: the device appears before there is data behind it.
mmap_init_early == <<"misc", "data">>
mmap_init == <<"data", "misc">>
mmap_exit == <<"misc", "data">>

zpage_init == <<"misc", "data">>
zpage_exit == <<"misc">>

dram_init == <<"chrdev">>
dram_exit == <<"chrdev">>

zproc_init == <<"dir", "mminfo", "physvalue", "buddy">>
zproc_exit == <<"mminfo", "physvalue", "buddy", "dir">>

affinity_init == <<"dir", "get">>
affinity_exit == <<"get", "dir">>

sys_reg_init == <<"sys_reg">>
sys_reg_exit == <<"sys_reg">>

work_a_init == <<"work">>
work_a_exit == <<>>

work_b_init == <<"queue", "work">>
work_b_exit == <<"queue">>

Modules ==
    [ofcd2    |-> [init |-> ofcd2_init,    exit |-> ofcd2_exit],
     ofcd3    |-> [init |-> ofcd3_init,    exit |-> ofcd3_exit],
     plain    |-> [init |-> plain_init,    exit |-> plain_exit],
     hello    |-> [init |-> hello_init,    exit |-> hello_exit],
     ztest    |-> [init |-> ztest_init,    exit |-> ztest_exit],
     mmap     |-> [init |-> mmap_init,     exit |-> mmap_exit],
     zpage    |-> [init |-> zpage_init,    exit |-> zpage_exit],
     dram     |-> [init |-> dram_init,     exit |-> dram_exit],
     zproc    |-> [init |-> zproc_init,    exit |-> zproc_exit],
     affinity |-> [init |-> affinity_init, exit |-> affinity_exit],
     sys_reg  |-> [init |-> sys_reg_init,  exit |-> sys_reg_exit],
     work_a   |-> [init |-> work_a_init,   exit |-> work_a_exit],
     work_b   |-> [init |-> work_b_init,   exit |-> work_b_exit]]

ASSUME KernelModulesAssumption ==
    Loaded \subseteq DOMAIN Modules /\ MaxLoads \in Nat /\ Faults \subseteq Things

\* The results that an init function looks at and returns an error for.
Checked == {"region", "cdev", "chrdev", "queue", "sys_reg"}
\* Once one of these is registered the handlers behind it can be called.
SeqFiles  == {"mminfo", "physvalue", "buddy", "get"}
ProcFiles == SeqFiles \cup {"sys_reg"}
Entries   == {"cdev", "misc", "chrdev"} \cup ProcFiles

VARIABLES
    driver,         \* the module of this behaviour
    mod,            \* "out", "init", "in", "exit" or "oops"
    todo,           \* things still to be acquired or given back
    have,           \* things this load has; "work" while the work is pending
    left,           \* things earlier loads left in the kernel
    via,            \* file -> the entry it was opened through, or "none"
    fds, busy, maps,\* files with a descriptor, a handler running, a mapping
    loads           \* loads so far

kernel == <<driver, mod, todo, have, left, loads>>
users  == <<via, fds, busy, maps>>
modvars == <<driver, mod, todo, have, left, via, fds, busy, maps, loads>>

ModInit ==
    /\ driver \in Loaded
    /\ mod = "out" /\ todo = <<>> /\ have = {} /\ left = {}
    /\ via = [f \in Files |-> "none"] /\ fds = {} /\ busy = {} /\ maps = {}
    /\ loads = 0

init == Modules[driver].init
exit == Modules[driver].exit

----------------------------------------------------------------------------
(* insmod and rmmod *)

Insmod ==
    /\ mod = "out" /\ loads < MaxLoads
    /\ mod' = "init" /\ todo' = init /\ loads' = loads + 1 /\ have' = {}
    /\ UNCHANGED <<driver, left, users>>

\* After the last step of init.
Stepped == todo' = Tail(todo) /\ mod' = IF Len(todo) = 1 THEN "in" ELSE "init"

\* A class of that name may be there already; a device needs its class.
Available ==
    /\ Head(todo) = "class"  => "class" \notin left
    /\ Head(todo) = "device" => "class" \in have

Acquire ==
    /\ mod = "init" /\ Available
    /\ have' = have \cup {Head(todo)}
    /\ Stepped
    /\ UNCHANGED <<driver, left, loads, users>>

\* Init returns the error, and what it has stays behind.
AcquireFails ==
    /\ mod = "init" /\ Head(todo) \in Checked \cap Faults
    /\ mod' = "out" /\ todo' = <<>> /\ left' = left \cup have /\ have' = {}
    /\ UNCHANGED <<driver, loads, users>>

\* class_create and device_create report an error as a pointer that is not
\* null, which the tests for null let pass; what misc_register, proc_mkdir and
\* proc_create return is not looked at, nor is the pointer from kzalloc, which
\* mmap_lkm.c hands to strncpy.
AcquireUnseen ==
    /\ mod = "init" /\ (Head(todo) \in Faults \ (Checked \cup {"work"}) \/ ~Available)
    /\ IF Head(todo) = "data" /\ driver = "mmap" THEN mod' = "oops" /\ UNCHANGED todo ELSE Stepped
    /\ UNCHANGED <<driver, have, left, loads, users>>

\* The char drivers say .owner = THIS_MODULE, so that an open file holds the
\* module; a proc file has no owner.
Pinned(f) == via[f] # "none" /\ via[f] \notin ProcFiles

Rmmod ==
    /\ mod = "in" /\ \A f \in Files : ~Pinned(f)
    /\ mod' = "exit" /\ todo' = exit
    /\ UNCHANGED <<driver, have, left, loads, users>>

\* proc_remove waits for the handlers in progress, after which the files that
\* are open are dead; destroy_workqueue waits for the work.  Giving back what
\* the load does not have does nothing, except that device_destroy looks into
\* the class.
Release ==
    /\ mod = "exit" /\ todo # <<>>
    /\ \A f \in busy : via[f] # Head(todo)
    /\ ~(Head(todo) = "queue" /\ "work" \in have)
    /\ IF Head(todo) = "device" /\ "class" \notin have
       THEN mod' = "oops" /\ UNCHANGED <<todo, have>>
       ELSE have' = have \ {Head(todo)} /\ todo' = Tail(todo) /\ UNCHANGED mod
    /\ via' = [f \in Files |-> IF via[f] = Head(todo) THEN "none" ELSE via[f]]
    /\ fds' = {f \in fds : via'[f] # "none"}
    /\ UNCHANGED <<driver, left, loads, busy, maps>>

Unloaded ==
    /\ mod = "exit" /\ todo = <<>>
    /\ mod' = "out" /\ left' = left \cup have /\ have' = {}
    /\ UNCHANGED <<driver, todo, loads, users>>

----------------------------------------------------------------------------
(* The work of the workqueue modules *)

\* Mutant: the work queues itself again.
work_handler_again == have

work_handler == have \ {"work"}

WorkRuns ==
    /\ "work" \in have /\ mod \in {"init", "in", "exit"}
    /\ have' = work_handler
    /\ UNCHANGED <<driver, mod, todo, left, loads, users>>

\* A work that outlives its module runs code that is no longer there.
StrayWorkRuns ==
    /\ "work" \in left /\ mod # "oops"
    /\ mod' = "oops"
    /\ UNCHANGED <<driver, todo, have, left, loads, users>>

----------------------------------------------------------------------------
(* Programs *)

\* A proc file that is being removed lets nobody in any more.
Reachable(e) == e \in have /\ ~(mod = "exit" /\ Head(todo) = e)

\* The seq_file that single_open allocates is never given back: the files of
\* zproc.c and cpu_affinity.c have no release function.
Open(f, e) ==
    /\ via[f] = "none" /\ e \in Entries /\ Reachable(e)
    /\ mod \in {"init", "in"} \/ (mod = "exit" /\ e \in ProcFiles)
    /\ via' = [via EXCEPT ![f] = e] /\ fds' = fds \cup {f}
    /\ left' = IF e \in SeqFiles THEN left \cup {"seq_file"} ELSE left
    /\ UNCHANGED <<driver, mod, todo, have, loads, busy, maps>>

Live == mod \in {"init", "in", "exit"}

Call(f) ==
    /\ Live /\ f \in fds \ busy /\ Reachable(via[f])
    /\ busy' = busy \cup {f}
    /\ UNCHANGED <<kernel, via, fds, maps>>

Done(f) == busy' = busy \ {f} /\ UNCHANGED <<kernel, via, fds, maps>>
Oops    == mod' = "oops" /\ UNCHANGED <<driver, todo, have, left, loads, users>>

\* Of the commands of ztest.c, ZTEST_LIST_FILES uses what pid_task found for a
\* pid, also when that is nothing.
my_ioctl(f) ==
    /\ driver = "ztest" /\ Live /\ f \in busy
    /\ \E cmd \in {"LIST_PROCESS", "LIST_FILES", "GET_THREAD", "other"}, task \in {"current", "found", "null"} :
        IF cmd = "LIST_FILES" /\ task = "null" THEN Oops ELSE Done(f)

\* The other handlers return; those of zpage.c use the page, which may not be
\* there yet.
Return(f) ==
    /\ driver # "ztest" /\ Live /\ f \in busy
    /\ IF driver = "zpage" /\ "data" \notin have THEN Oops ELSE Done(f)

\* my_mmap: a mapping keeps the file open.
my_mmap(f) ==
    /\ Live /\ f \in busy /\ driver \in {"mmap", "zpage"} /\ "data" \in have
    /\ busy' = busy \ {f} /\ maps' = maps \cup {f}
    /\ UNCHANGED <<kernel, via, fds>>

Dropped(f, fs, ms) == via' = IF f \in fs \cup ms THEN via ELSE [via EXCEPT ![f] = "none"]

Close(f) ==
    /\ f \in fds \ busy /\ fds' = fds \ {f} /\ Dropped(f, fds', maps)
    /\ UNCHANGED <<kernel, busy, maps>>

Munmap(f) ==
    /\ f \in maps \ busy /\ maps' = maps \ {f} /\ Dropped(f, fds, maps')
    /\ UNCHANGED <<kernel, fds, busy>>

ModDone ==
    /\ mod = "oops" \/ (mod = "out" /\ loads = MaxLoads)
    /\ UNCHANGED modvars

ModNext ==
    \/ Insmod \/ Acquire \/ AcquireFails \/ AcquireUnseen
    \/ Rmmod \/ Release \/ Unloaded
    \/ WorkRuns \/ StrayWorkRuns
    \/ \E f \in Files :
        \/ \E e \in Entries : Open(f, e)
        \/ Call(f) \/ my_ioctl(f) \/ Return(f) \/ my_mmap(f) \/ Close(f) \/ Munmap(f)
    \/ ModDone

----------------------------------------------------------------------------
(* Properties *)

ModTypeOK ==
    /\ mod \in {"out", "init", "in", "exit", "oops"}
    /\ todo \in Seq(Things) /\ (mod = "init" => todo # <<>>)
    /\ have \subseteq Things /\ left \subseteq Things
    /\ via \in [Files -> Entries \cup {"none"}]
    /\ fds \subseteq Files /\ busy \subseteq fds /\ maps \subseteq Files
    /\ loads \in 0 .. MaxLoads

\* An init function that returns 0 has all it asked for, a work that has run
\* aside: that is what "if (!foo_class) ... Failed to class_create" and "if
\* (!device_create(...)) ... Failed to create device" (hello_chrdev.c:74-81) and
\* their like are for.  It also asks that one load finds the kernel as the load
\* before found it, so that hello_exit (hello_chrdev.c:85) has to give back what
\* hello_init took.
LoadHasAll == mod = "in" => ToSet(init) \ {"work"} \subseteq have

\* A handler that runs finds its module in the kernel, the entry it was called
\* through still registered and the data it uses; so does the page of a
\* mapping.  zpage.c does not promise it: its device is there before its page.
ReadyWhenUsed ==
    driver # "zpage" =>
        \A f \in busy \cup maps :
            /\ mod # "out"
            /\ via[f] \in have
            /\ "data" \in ToSet(init) => "data" \in have

\* rmmod comes to an end, whatever handlers and works were in progress.
UnloadEnds == (mod = "exit") ~> (mod \in {"out", "oops"})
=============================================================================
