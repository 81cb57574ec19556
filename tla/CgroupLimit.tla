---------------------------- MODULE CgroupLimit ----------------------------
(***************************************************************************)
(* The resource limiter src/src/python/cgroup/cgroup_limit.py.             *)
(*                                                                         *)
(* One invocation of the tool is a sequence of external commands (lscgroup,*)
(* cgcreate, cgset, cgclassify, cgdelete, tc), each of them one step here: *)
(* `todo' holds the ones still to run.  Between two of them the threads of *)
(* the limited processes start other threads and end.                      *)
(*                                                                         *)
(* Any command may fail.  The tool ignores the status of those it starts   *)
(* with subprocess.call and goes on; those it reads the output of end it   *)
(* with an exception, as does a word of cgget on its standard error.       *)
(*                                                                         *)
(* A pid is the sequence of its decimal digits, because the tool looks for *)
(* groups by their names.                                                  *)
(***************************************************************************)
EXTENDS Integers, Sequences, SequencesExt, FiniteSets

CONSTANTS
    Pids,       \* processes, as sequences of digits
    WidePids,   \* those above 0xffff
    Extra,      \* thread ids other than those of the main threads
    Rates,      \* numbers given as -u, --wbps ...
    Limits,     \* numbers given as -m and -s
    OpSets,     \* sets of subcommands, one of them in use in each behaviour
    Majors,     \* qdiscs found on the device: the major number of an htb
                \* one, or "other" for one of another kind
    FaultSets   \* sets of commands that may fail, one of them in each behaviour

ASSUME CgroupAssumption ==
    /\ Pids \subseteq Seq(0 .. 9) /\ WidePids \subseteq Pids
    /\ IsFiniteSet(Pids) /\ IsFiniteSet(Extra)
    /\ Rates \cup Limits \subseteq Nat \ {0}
    /\ FaultSets \subseteq SUBSET {"create", "delete", "set", "classify", "qdisc", "class", "filter",
                                   "classdel", "qdiscdel", "cgget", "check"}

Controllers == {"cpu", "memory", "blkio", "net_cls"}
Root  == <<>>           \* the root group of a controller
Unset == <<>>           \* a key that was never set
OurMajor == "368"

VARIABLES
    groups,     \* controller -> the pids whose group ctpid<pid> exists
    conf,       \* controller -> pid -> key -> value of the group's files
    member,     \* controller -> thread -> the group it is in
    owner,      \* live thread -> its process
    qdisc,      \* major of the device's htb qdisc, "other" or "none"
    classes,    \* pids that have a tc class on the device
    filter,     \* the cgroup filter is installed
    cmd,        \* the invocation in progress or the last one
    todo,       \* its external commands still to run
    status,     \* "idle", "running", "ok" or "abort" (an exception)
    listed,     \* the threads get_spids_by_pid returned that live since
    ops,        \* the subcommands in use
    faults,     \* the commands that may fail
    failed      \* those that failed, unseen, in the invocation

cgvars == <<groups, conf, member>>
tcvars == <<qdisc, classes, filter>>
vars   == <<cgvars, tcvars, owner, cmd, todo, status, listed, ops, faults, failed>>

Threads == Pids \cup Extra
Keys    == {"quota", "limit", "memsw", "throttle", "classid"}
NoConf  == [k \in Keys |-> Unset]
Live    == DOMAIN owner

Init ==
    /\ groups = [c \in Controllers |-> {}]
    /\ conf = [c \in Controllers |-> [p \in Pids |-> NoConf]]
    /\ member = [c \in Controllers |-> [t \in Threads |-> Root]]
    /\ owner = [t \in Pids |-> t]
    /\ qdisc \in Majors \cup {"none"} /\ classes = {} /\ filter = FALSE
    /\ cmd = [op |-> "none"] /\ todo = <<>> /\ status = "idle" /\ listed = {}
    /\ ops \in OpSets /\ faults \in FaultSets /\ failed = {}

-----------------------------------------------------------------------------
(* Subcommands: the external commands each one runs, in their order.       *)

Create(c)      == [do |-> "create", c |-> c]
Set(c, k, v)   == [do |-> "set", c |-> c, k |-> k, v |-> v]
Classify(c, t) == [do |-> "classify", c |-> c, t |-> t]
Delete(c, p)   == [do |-> "delete", c |-> c, p |-> p]
Step(name)     == [do |-> name]

\* Mutant: the swap limit before the memory limit.
MemMemswFirst(p, v) ==
    <<Create("memory"), Set("memory", "memsw", v), Set("memory", "limit", v), Classify("memory", p)>>

do_cgroup_cpu(p, v, spid) ==
    <<Create("cpu"), Set("cpu", "quota", v), IF spid THEN Classify("cpu", p) ELSE Step("list")>>

do_cgroup_mem(p, v) ==
    <<Create("memory"), Set("memory", "limit", v), Set("memory", "memsw", v), Classify("memory", p)>>

do_cgroup_blkio(p, v) ==
    <<Create("blkio"), Set("blkio", "throttle", v), Classify("blkio", p)>>

\* Mutant: the group is created before there is a class.
NetGroupFirst(p) ==
    <<Create("net_cls"), Step("setclassid"), Step("qdisc"), Step("class"), Step("filter"),
      Classify("net_cls", p)>>

do_cgroup_net(p) ==
    <<Step("qdisc"), Step("class"), Step("filter"), Create("net_cls"), Step("setclassid"),
      Classify("net_cls", p)>>

Commands ==
    [op : {"cpu"} \cap ops, p : Pids, v : Rates, spid : BOOLEAN]
    \cup [op : {"blkio"} \cap ops, p : Pids, v : Rates]
    \cup [op : {"mem"} \cap ops, p : Pids, v : Limits]
    \cup [op : {"net"} \cap ops, p : Pids]
    \cup [op : {"cpu-C", "mem-C", "blkio-C", "net-C", "clear"} \cap ops, p : Pids]
    \cup [op : {"clearall"} \cap ops]

Script(r) ==
    CASE r.op = "cpu"     -> do_cgroup_cpu(r.p, r.v, r.spid)
      [] r.op = "mem"     -> do_cgroup_mem(r.p, r.v)
      [] r.op = "blkio"   -> do_cgroup_blkio(r.p, r.v)
      [] r.op = "net"     -> do_cgroup_net(r.p)
      [] r.op = "cpu-C"   -> <<Delete("cpu", r.p)>>
      [] r.op = "mem-C"   -> <<Delete("memory", r.p)>>
      [] r.op = "blkio-C" -> <<Delete("blkio", r.p)>>
      [] r.op = "net-C"   -> <<Step("classdel"), Delete("net_cls", r.p)>>
      [] OTHER            -> <<Step("lscgroup")>>

Invoke(r) ==
    /\ status # "running"
    /\ cmd' = r /\ todo' = Script(r) /\ status' = "running" /\ listed' = {} /\ failed' = {}
    /\ UNCHANGED <<cgvars, tcvars, owner>>

Doing(name) == status = "running" /\ todo # <<>> /\ Head(todo).do = name
NextStep(more) == todo' = more \o Tail(todo) /\ UNCHANGED <<cmd, status, failed>>

\* A command fails and nobody looks; an exception ends the tool.
Unseen(name) ==
    /\ name \in faults /\ failed' = failed \cup {name}
    /\ todo' = <<>> \o Tail(todo) /\ UNCHANGED <<cmd, status>>
Abort == status' = "abort" /\ todo' = <<>> /\ UNCHANGED <<cmd, failed>>

\* The commands through which the tool looks first: lscgroup, cgget and
\* tc ... show.
Looks == [create |-> "check", lscgroup |-> "check", qdiscdel |-> "check", qdisc |-> "check",
          class |-> "check", filter |-> "check", classdel |-> "check",
          set |-> "cgget", setclassid |-> "cgget"]

CheckFails ==
    /\ \E name \in DOMAIN Looks : Doing(name) /\ Looks[name] \in faults
    /\ Abort
    /\ UNCHANGED <<cgvars, tcvars, owner, listed>>

Return ==
    /\ status = "running" /\ todo = <<>> /\ status' = "ok"
    /\ UNCHANGED <<cgvars, tcvars, owner, cmd, todo, listed, failed>>

-----------------------------------------------------------------------------
(* Control groups *)

\* cgdelete -r moves the tasks of the group to the root group.
Deleted(c, p, old) == [old EXCEPT ![c] = [t \in Threads |-> IF old[c][t] = p THEN Root ELSE old[c][t]]]

\* An existing group is deleted first, so that a new group has no settings,
\* unless it could not be deleted.
cgcreate ==
    /\ Doing("create")
    /\ LET c == Head(todo).c
           made == groups[c] \cup {cmd.p}
           emptied == /\ conf' = [conf EXCEPT ![c][cmd.p] = NoConf]
                      /\ member' = Deleted(c, cmd.p, member)
       IN  \/ groups' = [groups EXCEPT ![c] = made] /\ emptied /\ NextStep(<<>>)
           \/ groups' = [groups EXCEPT ![c] = @ \ {cmd.p}] /\ emptied /\ Unseen("create")
           \/ cmd.p \in groups[c] /\ UNCHANGED cgvars /\ Unseen("delete")
    /\ UNCHANGED <<tcvars, owner, listed>>

\* The kernel keeps limit_in_bytes <= memsw.limit_in_bytes and refuses a
\* value that breaks it; cgset's status is ignored.
Accepts(f, k, v) ==
    /\ k = "limit" => f["memsw"] = Unset \/ v =< f["memsw"][1]
    /\ k = "memsw" => f["limit"] # Unset /\ f["limit"][1] =< v

\* cgget_key asserts that cgget reports no error: the group must exist.
SetKey(c, k, w, accepted) ==
    /\ \/ cmd.p \notin groups[c] /\ conf' = conf /\ Abort
       \/ /\ cmd.p \in groups[c] /\ NextStep(<<>>)
          /\ conf' = IF accepted THEN [conf EXCEPT ![c][cmd.p][k] = w] ELSE conf
       \/ cmd.p \in groups[c] /\ conf' = conf /\ Unseen("set")
    /\ UNCHANGED <<groups, member, tcvars, owner, listed>>

cgset ==
    /\ Doing("set")
    /\ LET s == Head(todo)
       IN  SetKey(s.c, s.k, <<s.v>>, Accepts(conf[s.c][cmd.p], s.k, s.v))

Htb == qdisc \notin {"none", "other"}
\* What tc_qdisc_add returned: 368 unless it found an htb qdisc, and whether
\* or not it could add one.
tc_major == IF Htb THEN qdisc ELSE OurMajor

\* '0x' + major + '%04x' % pid: the pids that get here have four digits.
set_classid == Doing("setclassid") /\ SetKey("net_cls", "classid", <<tc_major, cmd.p>>, TRUE)

\* A thread that has ended, or a group that is not there, is an ignored error.
cgclassify ==
    /\ Doing("classify")
    /\ LET s == Head(todo)
       IN  \/ /\ member' = IF s.t \in Live /\ cmd.p \in groups[s.c]
                           THEN [member EXCEPT ![s.c][s.t] = cmd.p] ELSE member
              /\ NextStep(<<>>)
           \/ member' = member /\ Unseen("classify")
    /\ UNCHANGED <<groups, conf, tcvars, owner, listed>>

\* Mutant: only the main thread is moved.
get_spids_main_only ==
    /\ Doing("list")
    /\ listed' = {t \in Live : owner[t] = cmd.p}
    /\ NextStep(<<Classify("cpu", cmd.p)>>)
    /\ UNCHANGED <<cgvars, tcvars, owner>>

\* os.listdir('/proc/<pid>/task'), or the pid itself when there is no such process.
get_spids_by_pid ==
    /\ Doing("list")
    /\ LET spids == {t \in Live : owner[t] = cmd.p}
       IN  /\ listed' = spids
           /\ \E order \in SetToSeqs(IF spids = {} THEN {cmd.p} ELSE spids) :
                NextStep([i \in 1 .. Len(order) |-> Classify("cpu", order[i])])
    /\ UNCHANGED <<cgvars, tcvars, owner>>

\* Mutant: every group whose name begins with the given one is deleted.
cgdelete_prefix ==
    /\ Doing("delete")
    /\ LET s == Head(todo)
       IN  /\ groups' = [groups EXCEPT ![s.c] = {p \in @ : ~IsPrefix(s.p, p)}]
           /\ conf' = [conf EXCEPT ![s.c][s.p] = NoConf]
           /\ member' = Deleted(s.c, s.p, member)
    /\ NextStep(<<>>)
    /\ UNCHANGED <<tcvars, owner, listed>>

cgdelete ==
    /\ Doing("delete")
    /\ LET s == Head(todo)
       IN  \/ /\ groups' = [groups EXCEPT ![s.c] = @ \ {s.p}]
              /\ conf' = [conf EXCEPT ![s.c][s.p] = NoConf]
              /\ member' = Deleted(s.c, s.p, member)
              /\ NextStep(<<>>)
           \/ UNCHANGED cgvars /\ Unseen("delete")
    /\ UNCHANGED <<tcvars, owner, listed>>

-----------------------------------------------------------------------------
(* do_cgroup_clear: groups are looked up by `name in line'.                *)

Matches(name) == {m \in Controllers \X Pids : m[2] \in groups[m[1]] /\ IsPrefix(name, m[2])}

lscgroup_filter ==
    /\ Doing("lscgroup")
    /\ \E order \in SetToSeqs(Matches(IF cmd.op = "clear" THEN cmd.p ELSE <<>>)) :
         NextStep([i \in 1 .. Len(order) |-> Delete(order[i][1], order[i][2])]
                  \o <<Step("qdiscdel")>>)
    /\ UNCHANGED <<cgvars, tcvars, owner, listed>>

\* Mutant: the qdisc is left in place.
tc_qdisc_do_nothing ==
    /\ Doing("qdiscdel") /\ NextStep(<<>>) /\ UNCHANGED <<cgvars, tcvars, owner, listed>>

\* With -A the whole qdisc 368: goes.  With -p the pid is still a string, and
\* hex(pid) raises TypeError as soon as there is an htb qdisc.
tc_qdisc_do_del ==
    /\ Doing("qdiscdel")
    /\ \/ /\ cmd.op = "clearall" /\ qdisc = OurMajor
          /\ \/ qdisc' = "none" /\ classes' = {} /\ filter' = FALSE /\ NextStep(<<>>)
             \/ UNCHANGED tcvars /\ Unseen("qdiscdel")
       \/ /\ IF cmd.op = "clearall" THEN qdisc # OurMajor ELSE ~Htb
          /\ NextStep(<<>>) /\ UNCHANGED tcvars
       \/ cmd.op = "clear" /\ Htb /\ Abort /\ UNCHANGED tcvars
    /\ UNCHANGED <<cgvars, owner, listed>>

-----------------------------------------------------------------------------
(* Traffic control on the device *)

\* An htb qdisc is used as it is; adding one fails, unseen, where another kind
\* is in place.
tc_qdisc_add ==
    /\ Doing("qdisc")
    /\ \/ qdisc' = (IF qdisc = "none" THEN OurMajor ELSE qdisc) /\ NextStep(<<>>)
       \/ qdisc = "none" /\ qdisc' = qdisc /\ Unseen("qdisc")
    /\ UNCHANGED <<cgvars, classes, filter, owner, listed>>

\* tc takes a class number of at most four hexadecimal digits: the look for an
\* old class ends the tool for a wider pid.  The old class is deleted, and the
\* new one refused, unseen, where there is no htb qdisc.
tc_class_add ==
    /\ Doing("class")
    /\ \/ cmd.p \in WidePids /\ classes' = classes /\ Abort
       \/ /\ cmd.p \notin WidePids /\ NextStep(<<>>)
          /\ classes' = IF Htb THEN classes \cup {cmd.p} ELSE classes
       \/ cmd.p \notin WidePids /\ classes' \in {classes \ {cmd.p}, classes} /\ Unseen("class")
    /\ UNCHANGED <<cgvars, qdisc, filter, owner, listed>>

tc_filter_add ==
    /\ Doing("filter")
    /\ \/ filter' = (filter \/ Htb) /\ NextStep(<<>>)
       \/ ~filter /\ filter' = filter /\ Unseen("filter")
    /\ UNCHANGED <<cgvars, qdisc, classes, owner, listed>>

\* Without an htb qdisc `net -C' does not look for a class.
tc_class_del ==
    /\ Doing("classdel")
    /\ \/ ~Htb /\ classes' = classes /\ NextStep(<<>>)
       \/ Htb /\ cmd.p \in WidePids /\ classes' = classes /\ Abort
       \/ Htb /\ cmd.p \notin WidePids /\ classes' = classes \ {cmd.p} /\ NextStep(<<>>)
       \/ Htb /\ cmd.p \in classes \ WidePids /\ classes' = classes /\ Unseen("classdel")
    /\ UNCHANGED <<cgvars, qdisc, filter, owner, listed>>

-----------------------------------------------------------------------------
(* The limited processes.  A new thread starts in its creator's groups.    *)

Spawn(t, child) ==
    /\ t \in Live /\ child \in Extra \ Live
    /\ owner' = [x \in Live \cup {child} |-> IF x = child THEN owner[t] ELSE owner[x]]
    /\ member' = [c \in Controllers |-> [member[c] EXCEPT ![child] = member[c][t]]]
    /\ UNCHANGED <<groups, conf, tcvars, cmd, todo, status, listed, failed>>

Exit(t) ==
    /\ t \in Live \ Pids
    /\ owner' = [x \in Live \ {t} |-> owner[x]]
    /\ member' = [c \in Controllers |-> [member[c] EXCEPT ![t] = Root]]
    /\ listed' = listed \ {t}
    /\ UNCHANGED <<groups, conf, tcvars, cmd, todo, status, failed>>

Next ==
    /\ \/ \E r \in Commands : Invoke(r)
       \/ cgcreate \/ cgset \/ set_classid \/ cgclassify \/ get_spids_by_pid \/ cgdelete
       \/ lscgroup_filter \/ tc_qdisc_do_del
       \/ tc_qdisc_add \/ tc_class_add \/ tc_filter_add \/ tc_class_del
       \/ CheckFails \/ Return
       \/ \E t \in Live, child \in Extra : Spawn(t, child)
       \/ \E t \in Live : Exit(t)
    /\ UNCHANGED <<ops, faults>>

Spec == Init /\ [][Next]_vars

-----------------------------------------------------------------------------
(* Properties *)

TypeOK ==
    /\ groups \in [Controllers -> SUBSET Pids]
    /\ \A c \in Controllers : DOMAIN conf[c] = Pids /\ member[c] \in [Threads -> Pids \cup {Root}]
    /\ Live \subseteq Threads /\ \A t \in Live : owner[t] \in Pids
    /\ classes \subseteq Pids /\ filter \in BOOLEAN
    /\ status \in {"idle", "running", "ok", "abort"} /\ listed \subseteq Threads
    /\ failed \subseteq faults

Finished(op) == status = "ok" /\ cmd.op = op

\* Repeating `mem' with a larger or a smaller limit works: when the tool has
\* returned and none of its commands failed, both limits are the requested one
\* and the process is under them, although the two files are written one after
\* the other and the kernel refuses a memory limit above the swap limit (lines
\* 209-215).
MemLimitInForce ==
    Finished("mem") /\ failed = {} =>
        /\ conf["memory"][cmd.p]["limit"] = <<cmd.v>>
        /\ conf["memory"][cmd.p]["memsw"] = <<cmd.v>>
        /\ member["memory"][cmd.p] = cmd.p

\* Every thread that was listed and still lives is in the group when `cpu'
\* returns, whatever threads start and end meanwhile and whatever commands
\* but the moves themselves failed (lines 193-195).
ListedThreadsLimited ==
    Finished("cpu") /\ ~cmd.spid /\ "classify" \notin failed =>
        \A t \in listed : member["cpu"][t] = cmd.p

\* The failures that leave a mark without its class, or a group without a mark.
Harmful == {"delete", "set", "cgget", "qdisc", "class", "filter"}

\* Whenever the tool is not running, even after an exception, packets of a group
\* marked for the device find the class of that mark: the filter is there, and
\* class and mark name the same major and pid.  No other failure than those
\* above may break it, in any invocation, and no pid may be too wide.  A root
\* qdisc of another kind does break it, in tc_qdisc_add.
MarksHaveClasses ==
    status # "running" /\ qdisc # "other" /\ faults \cap Harmful = {} =>
        \A p \in groups["net_cls"] :
            conf["net_cls"][p]["classid"] = <<qdisc, p>> /\ p \in classes /\ filter

\* `clear -A' leaves no group of the tool and no qdisc 368: (lines 289-299),
\* unless cgdelete or tc qdisc del failed under it.
ClearAllLeavesNothing ==
    Finished("clearall") =>
        /\ "delete" \notin failed => \A c \in Controllers : groups[c] = {}
        /\ "qdiscdel" \notin failed => qdisc # OurMajor

\* An invocation other than `clear' touches no group of another process.
OnlyOwnGroups ==
    [][cmd'.op \notin {"none", "clear", "clearall"} =>
         \A c \in Controllers, p \in Pids \ {cmd'.p} :
            (p \in groups'[c] <=> p \in groups[c]) /\ conf'[c][p] = conf[c][p]]_vars

\* "clear pid cgroups" with "Process pid to clear" (lines 283-287): `clear -p'
\* deletes the groups of that process and no others.
ClearOnlyThatPid ==
    cmd.op = "clear" =>
        \A i \in 1 .. Len(todo) : todo[i].do = "delete" => todo[i].p = cmd.p
=============================================================================
