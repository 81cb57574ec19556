# TLA+ specifications of linux-summary

`linux-summary` is a collection of small programs that explore Linux: user-space
demonstrations of system calls, kernel modules with the programs that talk to
them, Python tools, SystemTap probes and notes. The programs do not form one
system. What they share is the kind of trouble they meet: threads and signals,
epoll and sockets, state that a kernel module shares between all who open it,
sequences of commands whose failures are not looked at, and arithmetic on
addresses. Each specification is of one program, or of the two or three that
talk to each other; the kernel, the network and the libraries are modelled from
how the programs use them.

Paths below are relative to the repository; `src/linux/eventfd/foo.c` is
`src/src/linux/eventfd/foo.c` in `PROJECT.json`.

## 1. Inventory

| Component | State it keeps | Operations | What it interacts with | What is hard |
|---|---|---|---|---|
| eventfd demonstration, `src/linux/eventfd/foo.c` | descriptors, thread ids, writers' parameters | open, create, read, write, join, close | reader and writers through the kernel's counters and epoll | a timeout taken for the end, reads of reported events, descriptors closed under threads, joins of threads that were not created |
| dram device, `src/kernel/linux_memory/mm_addr/dram.c` | file position, memory size | read, llseek | fileview reads it | reads stop at every page |
| fileview, `.../mm_addr/fileview.c` | position, page increment, format, buffer, typed address | redraw, ten kinds of keys | `lseek`/`read` of a device or file | short reads, failures in mid page, bounds for every file size |
| cgroup_limit, `src/python/cgroup/cgroup_limit.py` | none of its own: groups, qdisc, classes of the system | `cpu`, `mem`, `blkio`, `net`, `clear` | external commands; the limited process runs on | commands fail unseen, threads start meanwhile, groups found by the beginning of their name |
| zproc and its script, `src/kernel/procfs/zproc.c`, `get_pid_va.py` | two globals, `pid` and `phys` | write and read of two proc files; a five step page walk | scripts share the globals | two walks at once, an address refused silently |
| cpu_affinity, `src/linux/affinity/cpu_affinity.c` | one global, `gpid` | write a pid, read about that task | viewers share the global | a pid replaced before it is read, a task without a memory policy |
| process event monitor, `src/linux/proc_connector/pmon.c` | `need_exit`, socket | listen, receive, ignore, SIGINT | the kernel's proc connector | overrun queue, signal between test and `recv`, listener count |
| thread stack, `src/linux/pthread/simple_pthread/spthread.c` | slots with flag and thread id | keys `c`, `k`, `q` | threads read their slot's flag | slots used again, create fails |
| epoll server and client, `src/linux/socket/tcp/` | epoll set, connections | accept, receive, close; connect, send, close | network | descriptor numbers used again in a round, resets, running out |
| throughput tests, `src/linux/socket/tcp_speed/`, `src/linux/socket/vsock/` | byte counts | connect, send, receive, report | network | partial sends and receives, a second client, broken connections |
| zpage driver and user, `src/kernel/linux_memory/user_task_page/` | one page of answers | ioctls that fill it; a user that prints it | users share the page | answers overwritten, ends included or not, old answers, words that look like errors |
| kernel modules: `src/device_driver/driver2`, `driver3`, `src/driver/simple_register_chrdev`, `src/linux/linux-inside/ztest.c`, `src/linux/mmap/mmap_lkm.c`, and the modules of dram, zpage, zproc, cpu_affinity, `mm_addr/sys_reg.c` | device numbers, cdev, class, device, proc files, data | init, exit, open, close, handlers, mmap | module loader, programs | failures half way, files opened during init, rmmod while a handler runs, things left behind |
| work queues, `src/kernel/workqueue/` | a queued work | init queues, exit | worker thread | unloading while the work is queued or runs |
| eventfd shared with the kernel, `src/linux/eventfd/efd_us.c`, `efd_lkm.c` | one eventfd | wait, signal by pid and number | module loader | signal before the wait, process gone while the module looks for its file, wrong number |
| UDP socket listing, `src/kernel/linux_network/udp_sock/zudp.c` | none | walk of a hash table | kernel table | sockets bound and closed during a walk without a lock, the last slot |
| UDP client and server, `src/linux/socket/udp/` | socket, one buffer | send, receive, print | network | lost, doubled and reordered datagrams, a buffer used again |
| KVM runners, `src/virtual/kvm/kvm_run_test1.c`, `kvm_run_test2.c`, guests `*.asm` | descriptors, mappings, registers | a dozen set-up calls, the `KVM_RUN` loop | KVM, the guest | calls that fail unseen, unknown exits, code longer than its page |
| lists, module list, memory listings, KVM query, NUMA, mmap samples, programs that call a driver once, container_of, gdb samples, hello drivers | none, or straight-line | print | — | — |
| virsh/libvirt scripts, SystemTap probes, shell scripts, configuration | that of remote hosts or of the kernel | run a command, print an event | — | — |

What makes each modelled component correct is stated by its properties
(section 3). The hazards, each at its line, are listed in `PROJECT.json`.

## 2. Modules

| Module | Models | Variables that stand for the program | Run |
|---|---|---|---|
| `Eventfd` | `foo.c` | `mpc`, `mi`, `open` main; `rpc`, `pending`, `rtimer` reader; `wpc`, `wi`, `wtimer` writers; `ctr` kernel counters | `MCEventfd`, `Eventfd.cfg` |
| `Viewer` | abstract: a window that keys move over a file, drawn at once | `top`, `at`, `bytes` | a property of the next |
| `Dram`, `FileView` | `dram.c` below `fileview.c` (`FileView` extends `Dram`, whose `my_read` and `my_llseek` it calls); implements `Viewer` | `size`, `fpos`; `position`, `pageincr`, `buffer`, `got`, `typed` | `MCFileView`, `FileView.cfg` |
| `CgroupLimit` | `cgroup_limit.py` | `groups`, `conf`, `member`, `qdisc`, `classes`, `filter` of the system; `cmd`, `todo`, `status` of the invocation | `MCCgroupLimit`, `CgroupLimit.cfg`, `CgroupClear.cfg` |
| `Zproc` | `zproc.c` and `get_pid_va.py`; `cpu_affinity.c` and its viewers | `pid`, `phys`, `gpid` of the modules; `wpc`, `level`, `entry`, `pg` of the walks; `task`, `seen` of the viewers | `MCZproc`, `Zproc.cfg` |
| `Pmon` | `pmon.c` | `pc`, `need_exit`; `queue`, `overrun`, `listeners` of the kernel | `MCPmon`, `Pmon.cfg` |
| `SPThread` | `spthread.c` | `current_nums`, `running`, `tid`; `thread`, `arg` | `MCPrograms`, `Programs.cfg` |
| `ByteStreams` | abstract: connections that lose nothing until they break | `sent`, `flight`, `received`, `state`, `ended` | a property of the next two |
| `TcpServer` | `tcp_server.c`, `tcp_client.c`; implements `ByteStreams` | `spc`, `events`, `fd`; `cpc`; `net`, `inq`, `end` of the network | `MCTcpServer`, `TcpServer.cfg` |
| `Stream` | the two client and server pairs of the throughput tests; implements `ByteStreams` | `spc`, `conn`, `rnum`; `cpc`, `n`, `num`; `link`, `held` of the network | `MCStream`, `Stream.cfg` |
| `ZPage` | `zpage.c`, `user.c` | `mmap_data`; `upc`, `req`, `i`, `ret`, `shown` of the users; `marked`, the overwritten bytes | `MCZPage`, `ZPage.cfg` |
| `KernelModules` | thirteen modules, one chosen initially: what init acquires and exit gives back, files, handlers, mappings, work | `mod`, `todo`, `have`, `left`; `via`, `fds`, `busy`, `maps` of the programs | `MCKernelModules`, `KernelModules.cfg`, `KernelReload.cfg` |
| `EfdSignal` | `efd_us.c`, `efd_lkm.c` | `upc`, `count`, `shown`; `kpc`, `named` | same |
| `Zudp` | `zudp.c` | `wpc`, `wi`, `node`; `head`, `next`, `slot` of the kernel's table | same |
| `Udp` | `udp_server.c`, `udp_client.c` | `client`, `server`, `buf`; `net` of the network | same |
| `Kvm` | `kvm_run_test1.c`, `kvm_run_test2.c`, the guests | `calls`, `unmapped`, `mem`, `base`, `run`, `out`; `regs` of the virtual processor | same as `SPThread` |

`EventfdProofs`, `FileViewProofs`, `PmonProofs`, `StreamProofs`, `TcpServerProofs`,
`ZprocProofs`, `KernelModulesProofs` and `ProgramProofs` hold the theorems. Each
extends the module it is about; `KernelModulesProofs` extends `MCKernelModules`,
which declares the specification of the four scenes and leaves all constants
open. `ProgramProofs` extends the modules of four programs that share nothing,
`SPThread`, `Kvm`, `ZPage` and `CgroupLimit`; these have no name in common, so
`Init`, `Next` and their like carry the module's name in the first three.

Which modules compose which: `FileView` calls `Dram`; `FileView`, `Stream` and
`TcpServer` instantiate the abstract modules with a refinement mapping;
`MCKernelModules` puts `KernelModules`, `EfdSignal`, `Zudp` and `Udp`, which
share nothing, side by side as four scenes, of which a behaviour plays one, and
`MCPrograms` does the same with `SPThread` and `Kvm`.

Conventions. An action is one handler or the code between two points where
another process, thread, callback or failure can come in; it carries the name
of the C or Python function where there is one. A test of the code is a
conjunct, an error path a disjunct guarded by a member of `Faults` (or
`faults`, `FaultSets`). A variable that never changes (`faults`, `target`,
`limit`, `vsock`, `ops`, `driver`, `prog`) is chosen in `Init`, so that one run
looks at several configurations. Variables that no program keeps (`written`,
`delivered`, `disturbed`, `hole`, `lost`, `cut`, `failed`) record history for
the properties. Definitions under "Mutant:" are plausible mistakes; each is
named with the property that finds it in `PROJECT.json`, and none is used by
the specifications.

What the abstractions leave out, by module:

- `Eventfd`: the text printed. Time is in half seconds.
- `FileView`: the drawing of the screen and the number formats; a byte is
  represented by its address, which is all that can be wrong about it. A typed
  address is the value `strtoull` makes of it.
- `CgroupLimit`: output of the commands beyond what the script parses from it; a
  pid is its sequence of digits, since groups are found by name.
- `Zproc`: an address is a page and a slot, and the masks and shifts of the
  script are what they do to these; bit 63 is kept because `kstrtol` refuses it,
  the bits for present and huge entries because the processor looks at them
  (`kind`) and the script does not, and the 32 bit cut of the last address
  because it changes the page.
- `Pmon`: kinds of events; events are numbered modulo `Wrap`.
- `TcpServer`, `Stream`: the bytes; only how many and from whom.
- `ZPage`: a text formatted by the driver is one cell, and so is the text of one
  byte of the arguments; an int is `WORD` bytes, and `ErrorWords` says which
  of them `ioctl` takes for an error; what a copy longer than the shared page
  does to the memory behind it.
- `KernelModules`: the bytes that read and write handlers copy and the text of
  the proc files; an access to what is not there is an oops, which ends the
  behaviour.
- `EfdSignal`: what is printed apart from the counter.
- `Zudp`: hash function and ports; the memory of a closed socket stays readable
  and keeps its pointer until the socket is bound again, as in the kernel's
  slab; which mark a chain ended in, since the module does not look.
- `Udp`: a byte is text, zero or of no meaning.
- `Kvm`: one memory cell per guest instruction.

## 3. Runs

All passing runs check for deadlock; a program that has ended stutters in
`Terminated` (or `KvmTerminated` ...) or `Idle`, whose guards say when it may.

**`eventfd`** (`Eventfd.cfg`): three writers as in the code, two writes each
(ten in the code), timeout 12 and second 2 ticks: 6 s and intervals of 1, 3 and
5 s as in the code. Delay of at most one tick, and three sets of calls that may
fail: none, the creation of threads and the writes, all. Two writes are enough for
a sleep between writes, for an accumulation of two writes in a counter, and for the
last write to follow the longest interval.
`ReadNeverBlocks`: what epoll reported is still there.
`NoUseAfterClose`: also when threads failed to start. `AllDelivered`: on a
punctual schedule (interval + delay below the timeout, no call of the reader
fails) the reader does not give up while a writer is still to be created or
has something left to write, and a run that exits with 0 has read all that was
written, also when writers could not be created or ended early. `Terminates`.
341,791 states.

**`fileview`** (`FileView.cfg`): plain files of 0 to 530 bytes around the sizes
where the arithmetic changes (240, 241, 242, 256, 257, 272), devices of one and
two pages of 512 bytes, so that a screen spans two reads; typed addresses
below, inside and above the file and a negative one; any `read` may fail.
`ScreenFaithful`: every byte on the screen is the file's byte at the address
printed beside it. `LastByteShown`, `PositionInBounds`. `ImplementsViewer`: with
the window at `position` and the screen as far as it is shown while a key is
awaited, every step is a step of `Viewer` or a stutter; drawing chunk by chunk,
the retyped address and the clamping of the keys cannot be told from a window
that moves and is drawn at once. `AwaitsKey`: every redraw ends.

**`cgroup_limit`** (`CgroupLimit.cfg`): processes 12 and 127000: the name of
one group begins with the other's, and one pid does not fit in 16 bits; a thread
that may start and end between any two commands; two memory limits; three
combinations of subcommands that touch the same groups, in any order and number;
the device without a qdisc, with an htb qdisc or with one of another kind. In a
third of the behaviours no command fails, in a third those may that the
marks must stand (`cgcreate`, `cgclassify`, deletions by tc, and the commands
by which the tool looks first, whose failure is an exception), in a third
those that they do not (`Harmful`); `failed` records what failed in this invocation.
2,398,347 states.
`MemLimitInForce`: both memory limits are the requested one when the tool
returns and none of its commands failed, although the kernel refuses a limit
above the swap limit and the two are written one by one, and whatever failed in
earlier invocations. `MarksHaveClasses`: whenever the tool is not running,
also after an exception, a group for the network has its mark, the class of that
mark and the filter; of all failures only those in `Harmful`, and a root qdisc
of another kind, can break that. A wide pid does not: `tc class show` fails for
it, and the exception comes before group and mark. `ClearAllLeavesNothing`,
unless the very deletions failed; `ListedThreadsLimited`; and the action property
`OnlyOwnGroups`. One thread beside the main one is enough for a thread that starts
after the listing, ends before its move or takes the number of one that was listed;
the theorem has any number.

**`cgroup_clear`** (`CgroupClear.cfg`, expected to be violated): the script
describes `clear -p` as "clear pid cgroups", but `clear -p 12` also deletes the
groups of process 127000 (`cgroup_limit.py:51`).

**`zproc`** (`Zproc.cfg`): two walks, over tables that share a page, with and
without bit 63, of huge pages and not present, one data page above 4 GB;
processes may end at any time. Two
walkers are enough: a third disturbs in the same way. `UndisturbedWalkIsRight`:
a walk between whose writes and reads nobody else wrote finds what the
processor's walk (`Entry`) finds. It is restricted to walks the script's
arithmetic is right for (`Walkable`): through a huge page, an absent entry, an
entry with bit 63 set above the last level or to a data page above 4 GB the
script prints another word. Viewers of `cpu_affinity`
write a pid and read, in the same run; the property also says that what an
undisturbed viewer reads is about the task it asked for.

**`pmon`** (`Pmon.cfg`): two monitors, queues of one event, every call failing,
`recv` also by returning 0, which the code takes for a shutdown.
`NoSilentGap`: events lost to a full queue end the monitor instead of leaving a
hole in what it prints. `StillCounted`: a monitor at work is counted by the
kernel, whatever others do. `EndBalances`: when all have ended, the kernel's
count is up for each IGNORE that could not be sent, and beyond those at most for
the monitors that failed. `SigintEnds`: after SIGINT the
monitor ends if events keep coming; without them it need not, because a signal
between the test of `need_exit` and `recv` (`pmon.c:100`) interrupts nothing. The
premise is needed: failures of a `recv` that waits (`RecvFault`) are outside the
fairness, so that nothing else ends the wait.

**`programs`** (`Programs.cfg`), two scenes, 61,968 states. The thread stack: three
slots and four handles, so that the handles outnumber the slots and both are used
again; `pthread_create` may fail. `SlotsHoldThreads`, `OnlyTheKilledReturns`,
`KillReturns`. The KVM runners: the guests of the repository with their own loop count and
string, guests that access a port in another way than by writing one byte to the
console (another port, a word, an input, a repeated output) and one longer than
the page; every call fails, the guest is left for any reason. `OutputFaithful`:
at any time the output is a beginning of what the guest is meant to print, and
all of it once it has halted. `MonitorEnds`: once one of these guests is started the
runner ends; they all halt, and a guest that loops for ever keeps the runner in
`KVM_RUN`.

**`tcp_server`** (`TcpServer.cfg`): two clients of two bytes each, one or two
descriptors, resets at any time, any call of the server and of a client failing.
With one descriptor a number is given again
in the round that closed it, and a second client makes `accept` fail.
`NeverBlocks`: one thread with blocking sockets never waits on a single
connection. `ConnectionsAreStreams`: each client and its connection implement a
stream of `ByteStreams`, so that the server receives every byte once, the end
after the bytes, and less than all only from a connection that was cut or whose
server is gone. `EventuallyServed`, unless the server has exited. 26,889 states.

**`stream`** (`Stream.cfg`): both pairs, two clients for the one connection, three
buffers of two bytes through a connection that holds three, so that sends are
split, block and resume; connections break at any time, `accept` and `connect`
fail, and a client may arrive between the vsock server's `accept` and the close of
its listening socket.
`ConnectionsAreStreams`, by the same abstract module as for `TcpServer`, with
the counts that the programs keep (`num`, `rnum`) as what was sent and received;
`ReportsAgree`; `ClientsEnd`; `ServerEnds`: a server that has a connection ends.
A connection that breaks is one that both ends hear of; the server sets no
keepalive, so that a client whose machine vanishes silently would leave it
in `recv`, and nothing is claimed of that. 53,708 states.

**`zpage`** (`ZPage.cfg`): two users, one task with a page that is in memory, one
that is not and one that has no page tables, every region in them, a pid that
names no task; ints of two bytes, aligned or across two frames. The driver does not
ask whether a page is in memory: for one that is not, the answer is what some
frame holds (`Junk`). `AnswerExact`: unless
another user's ioctl came between ioctl and print, a user prints exactly the
data that the driver's loops run over, the arguments with the byte at their end
included, and nothing an earlier, longer answer left, if they lie in one page and
it is in memory. An int read by `ZPAGE_GET_PID_ADDR` is overwritten by the
driver; what is printed is compared with memory as earlier requests changed it.
2,288,249 states.

**`kernel_modules`** (`KernelModules.cfg`), four scenes. The modules: each of
the thirteen, two files, every acquisition failing, two loads, of which the
second meets what the first left; a third would meet the same, since what is
left is only kept. `ReadyWhenUsed`: a handler or a mapping in use has its module
loaded, its entry registered and its data allocated, though programs come in
from the first registration on and rmmod overlaps handlers of proc files
(`zpage.c`, which registers its device before it has its page, is excepted).
`UnloadEnds`: rmmod does not wait for
ever. The eventfd: three signals, so that some accumulate
and some come after the end; wrong pids and numbers, the program ending between the
module's lookups. `SignalDelivered`: what
was added by the time the program reads is printed, all of it, unless the
program is killed, and the program never ends its wait without a signal. The socket table: three
sockets bound up to twice each in three slots, so that a chain has a head, a
middle and an end to be removed, and memory is used again. `ListsLasting`:
a socket bound throughout in a slot that the loop reaches is listed exactly
once, unless the memory of a closed socket was bound again meanwhile. UDP:
two clients and two servers for one port, datagrams lost, doubled and
overtaken, buffers of three bytes (two of text and the zero).
`PrintsWhatWasSent`: a server prints what the client it names sent.

**`kernel_reload`** (`KernelReload.cfg`, expected to be violated): the same with no
failure at all. An init function that returns 0 should have all it asked for
(`LoadHasAll`). `hello_exit` leaves the class and the device behind; at the
next load both creations fail with an error pointer, the tests for null that are to
print "Failed to class_create" and "Failed to create device" let it pass, and
the module is loaded without its device (`hello_chrdev.c:74-85`).

### Fairness

Safety properties need none. The liveness properties assume weak fairness of
each process or thread (`WF` of its steps): a runnable thread is scheduled. In
`Eventfd` this is `WF` of the whole step relation, since the bounded lag forces
each thread to run before time passes. `FileView` and the thread stack assume nothing
of the keyboard; `Pmon` assumes nothing of signals, and `SigintEnds` states its
need of events as a premise. `TcpServer` assumes that the network delivers what
was not cut. Failures are never part of a fair step: `RecvFault`, `ServerFails`,
`ConnectFails`, `AcceptFails`, `Cut` and `Reset` may happen and need not.
`MCKernelModules` assumes that a started rmmod or insmod goes on,
that workers run queued work, that handlers, which wait for nothing, return,
and that the program that waits on the eventfd is scheduled; it assumes nothing
of the operator who loads and unloads, nor of programs that open and close.
`CgroupLimit`, `Zproc` and `ZPage` have safety properties only. No property uses
strong fairness.

### Observations without a run of their own

- `cgroup_limit.py:99`: `clear -p` passes the pid as a string to `hex()`; after
  a network limit the command ends in a TypeError, the groups deleted and the
  class still in place (`tc_qdisc_do_del` aborts in the model).
- `cgroup_limit.py:193`: threads are listed once; one started while they are
  moved stays outside the group. `ListedThreadsLimited` is therefore about the
  listed ones.
- `cgroup_limit.py:99`: a pid above 0xffff is no class number, and `net` ends in an
  exception after it has added the qdisc; were it to go on, `'%04x'` in line 167
  would spill into the major number.
- `cgroup_limit.py:118`: with a root qdisc that is not htb, `tc qdisc add` fails
  unseen, the class and the filter are refused as well, and `net` returns as if
  the limit were in force; the group is left with a mark that no class has.
  `MarksHaveClasses` leaves such a qdisc out.
- `cgroup_limit.py:55`: a limit is changed by deleting the group and making it
  again; in between the process is not limited.
- `zpage.c:71`: the loop over the arguments includes the byte at `arg_end`, the first
  one behind them; `AnswerExact` says so, and checks that it is no other.
- `zpage.c:45`: neither `pte_none` nor `pte_present` is asked, so that the answer
  about a page that is not in memory is the contents of another frame; and a
  word written there changes that frame.
- `zpage.c`, `ZPAGE_GET_PID_ADDR`: a word of the task's memory between -4095 and
  -1 is taken for an error of the lookup, and the word looked at is overwritten.
- What else unloading leaves: `zpage.c:263` the page; `zproc.c` and
  `cpu_affinity.c` the memory of `single_open`, having no release function;
  `work_queue_a.c:24` does not flush, so that the work may run after its code
  is gone (`StrayWorkRuns`).
- `zpage.c:258`: the device is registered before its page is allocated; an ioctl
  in between uses a null page.
- `driver3/ofcd.c:83`: `class_create` and `device_create` report failure by an
  error pointer, not by null, so that the module stays loaded without its node,
  and after a failed class `device_destroy` at exit looks into an error pointer
  (also `ztest.c`); likewise the `mmap` tests of the KVM runners
  (`kvm_run_test2.c:82`, `:119`).
- `ztest.c:57`, `efd_lkm.c:18`: the result of `pid_task` is used or handed on
  without a test for null or a reference. `efd_lkm.c:29`: an error pointer of
  `eventfd_ctx_fileget` passes the test for null.
- `cpu_affinity.c:34`: a task with the default policy has no `mempolicy` to look
  into.
- `zudp.c:20`: the loop runs below `udp_table.mask`, which is the number of the
  last slot (`zudp.c:3` calls it the number of sockets), so the last slot is not
  listed; and a socket bound again leads the walk into another chain.
- `fileview.c:250`: ESC while typing an address jumps to address 0.
- `spthread.c:33`: at the end of its input main reads EOF for ever.

## 4. Proofs

TLAPS proves the following for every value of the constants that the named
assumptions of the modules admit: any number of processes, descriptors, sockets,
slots, bytes and loads. The assumptions give the constants their types, say which
sets are finite, and otherwise only this:

- `FileView`: increments are closed under the shifts the keys make, and a device is
  a whole number of pages, which the kernel guarantees;
- `Pmon`: `Wrap` exceeds the length of a queue by two, so that the numbers of the
  events tell a gap from none;
- `Zproc`: the 32 bit cut leaves an address below 4 GB as it is, and there is a
  page 0, where no process has its tables;
- `Udp`: a byte of the text is not the zero that ends it;
- `Zudp`: the mark that ends a chain is not a socket;
- `Kvm`: the string that `hello.asm` prints is not empty (`loop` with cx = 0 would
  go round 65536 times), and the page holds it with the code;
- `ZPage`: the shared page is no smaller than a page of a task (both have 4096
  bytes in the code) and holds at least a text and its terminator.

**`EventfdProofs`**, from `ConstantsAssumption`. `TypeCorrect`
(not a property of the run).
`ReadNeverBlocksHolds` and `NoUseAfterCloseHolds` follow
from `SafeInv`: the type invariant, the first of the two properties, what the
counters mean (`Conservation`: written = delivered + counter), and `MainInv`,
which says for each place main can be at which threads exist or have been
joined and which descriptors are open. `NoUseAfterClose` is not inductive
without it: that main closes late enough depends on where it was when it joined.

`AllDeliveredHolds` needs time. `PunctualInv` adds: how much each writer has
written at each point of its loop (`WriteInv`); who has been created
(`CreateInv`); that lags and sleeps are within their bounds (`LagInv`); and
`WaitInv`: while the reader waits, the next write of every writer that has not
ended and whose counter is empty is due before the reader's timer runs out.
The latest time of that write is `Due`: the rest of the sleep and of the
allowed delay, or, before the thread exists, main's delay and then its own. A
tick decreases both sides; a return of `epoll_wait` sets the timer again, when
every `Due` is below the timeout because interval + delay is. So the timeout can
only expire when all writers have ended. The invariant holds on punctual
schedules, and `Punctual` depends on the constants and on `faults`, which no step changes.

**`FileViewProofs`**, from `FileViewAssumption` and `DramAssumption`.
`PositionInBoundsHolds` rests on `PosInv`: between a key and the redraw that
follows it `pageincr` may be one shift out of bounds, and on lemmas about
alignment and clamping. `ScreenFaithfulHolds` and `LastByteShownHolds` rest on
`FillInv`: the bytes before `got` are those at `position`, the rest is blank and
the file offset is `position + got`; the loop ends with a full buffer, at the
end of the file or after a failure. The lemma `PageEnd` shows that a read cut
at a page never passes the end of a device. `FileViewImplementsViewer` proves
the refinement `ImplementsViewer` from the same two invariants: `TopsFacts` shows that
positions in bounds are places of the abstract window, `FilledWindow` that what
`FillInv` says of the buffer is the abstract window's beginning, `DrawStep` that
the chunk that ends a redraw is `Draw` and the others stutter, and `ViewerStep`
that every key is `Key`. Neither invariant would do alone: where the
window may be comes from the first, what it shows from the second.

**`PmonProofs`**, from `PmonAssumption`. `NoSilentGapHolds` rests on `SeqInv`: the
queue of a monitor that has not ended goes on without a gap where its output
stopped, and up to the next event unless it was overrun; an overrun queue is
full, so that the failing `recv` comes before any event after the gap.
`StillCountedHolds` and `EndBalancesHolds` rest on `CountInv`: the kernel's
count is the size of a set, made of the monitors at work, those whose IGNORE was
lost, and some of those that ended in a failure. Which ones, no variable
tells: they are those that failed after their LISTEN, hence the existential
quantifier. Neither property is inductive: each speaks of one moment of what the
count means.

**`StreamProofs`**, from `StreamAssumption`. `IInv` has three parts. `LinkInv`
says where the server and the clients are with their connections, between
`accept` and the close of the listening socket too; `ByteInv` that
on a connection that did not break, received + held = returned by `send` + the
part of the current `send`; `LoopInv` that a client on such a connection has
made whole calls and leaves the loop after `DATAS` of them.
`ReportsAgreeHolds` follows from the three. `StreamImplementsByteStreams` proves
`ConnectionsAreStreams` from `LinkInv` and `ByteInv`, action by action: every
step of the programs is one of the abstract stream of the connection it concerns,
or a stutter.

**`TcpServerProofs`**, from `TcpServerAssumption`. `NeverBlocksHolds` needs to know
that an event is not made stale by another of the same round. That is `PlaceInv`:
a connection is in one of the backlog, one descriptor, or the closed ones; so
what one event consumes belongs to no other, and a descriptor given again in the
round is not among the events left. `TcpServerImplementsByteStreams` needs `NetInv`
in addition: what the two ends of a connection know of each other (an end of file
reaches the server after the bytes, a reset connection holds none).

**`ZprocProofs`**, from `ZprocAssumption`. The invariant is one formula per walker,
`Fine`: where it is, that the globals are its own (`Own`), that the page it
read belongs to the address it wrote, and that its entry is the one
the processor's walk finds before this level (`Right`). All but the first only
hold for a walker that is not disturbed. The lemma `Kept` does the work of all interleavings:
a step of another walker either keeps `Fine` or puts the walker among the
disturbed. `UndisturbedWalkIsRightHolds` follows;
`EntryStep` and `WalkableStep` relate one level of the script to one level of
the processor's walk.

**`KernelModulesProofs`**, from `KernelModulesAssumption`, `ZudpAssumption` and
`UdpAssumption`; each scene's invariant is kept by the other scenes' steps.

- `ReadyWhenUsedHolds` from `ModInv`. What a load
  has is known only together with how far it is: `Place` says that `todo` is the
  rest of the steps of init or exit; `HaveInv` that during init the load has at
  most what the steps taken acquired, and during exit at most what is still to be
  given back and what exit does not give back; `UsersInv` that files in use keep
  their entry. The lemma `ModuleFacts` is about the tables of the thirteen
  modules: exit gives back every entry that can be called, and none is
  registered before a step whose failure init looks at (`EntriesLast`).
- `ListsLastingHolds` from `ZudpInv`, which speaks of things no variable
  holds: there are an age for every socket and a home slot such that
  chains lead from younger to older sockets of the same slot. A walk then
  meets the sockets of a slot in the order of age; the steady ones already passed are
  those listed once, the others are still ahead, and a socket bound
  during the walk is younger than all of these. A closed socket keeps its place in
  this order because it keeps its pointer; bound again, it would lose it, and
  the invariant ends there (`reused`).
- `PrintsWhatWasSentHolds` from `UdpInv`: whatever is under way is the
  whole message of a client that has sent, and `MessageIsText` shows that the
  text ends at its own zero.

**`ProgramProofs`**, about four programs, each theorem about one of them and from
the assumption of its module.

- `SlotsHoldThreadsHolds` and `OnlyTheKilledReturnsHolds` (`SPThreadAssumption`)
  from `SlotInv`, which adds `FlagsInv`: the flag of every used slot is set but
  for the one being joined.
- `OutputFaithfulHolds` (`KvmAssumption`) from `KvmInv`. `CallsInv` says what the
  calls of the set-up that are behind have done, so that the guest starts with its
  code in the page, at the address of the code, with the registers the program
  set. `GuestInv` says for each guest, by its instruction pointer and its
  counters, how many bytes it has handed over and what is in its registers
  (`AddAt`, `LoopAt`, `HelloAt`, and `OtherAt` for those that access a port in
  another way); a byte handed over and not
  printed yet counts as printed (`Bytes`). The property is not inductive: it
  says nothing of the bytes still to come. `LoopCells`, `HelloCells` and their
  like say what is in the page, `AddStep`, `LoopStep`, `HelloStep` and `OtherStep`
  follow the guest through one instruction. al wraps at 256, for any number of
  rounds.
- `AnswerExactHolds` (`ZPageAssumption`) from `ZPageInv`: for a user that is not
  disturbed, the first cells of the page are the answer to its request as far as
  the copy got, all of it between return and print, and a text, that of the
  arguments included, is terminated (`UserInv`). `ShowsText`, `ShowsArgs` and
  `ShowsData` lead from there to what is printed. `Untouched` and `OtherUsers` do the work of the interleavings: a
  step of one user leaves the others as they were or puts them among the disturbed. `Page`
  shows that a range with both ends in one page is not longer than the page.
- The five theorems about `CgroupLimit` (`CgroupAssumption`) from `CgroupInv`. An
  invocation is known by the commands it has left, so `PlaceInv` lists its places,
  one formula per subcommand, with what the commands so far have done: for `mem`
  that the group has no swap limit when the memory limit is written, and the
  requested memory limit when the swap limit is; for `cpu` that each listed
  thread is in the group or its move is still in the list; for `clear -A` that
  each group that exists has its deletion in the list. `MarksInv` says that a
  `net_cls` group has its mark and its class, but for the one in hand between
  creation and mark, or between the end of its class and its own. It holds in the
  behaviours without a harmful failure and without a foreign qdisc (`Tame`); there
  an exception, which may come at any look, finds the group either not there or
  complete. `Shapes` gives the
  fields of the next command, `DidCreate`, `DidSet` and their like what it leaves
  behind, `CpuStep` to `ClearStep` lead each subcommand from place to place, and
  `ThreadStep` shows that threads that start and end disturb no place. `Onto`
  shows that a listing without repetitions, as long as the set is large, has
  every element: by it no thread and no group is forgotten.
  `OnlyOwnGroupsHolds`, an action property, follows from the effects and from
  the fact that only `clear` deletes a group under another name.

Only model-checked: the liveness properties, since fairness is out of the
prover's reach here (`Terminates`, `AwaitsKey`, `SigintEnds`, `KillReturns`,
`EventuallyServed`, `ClientsEnd`, `ServerEnds`, `UnloadEnds`, `SignalDelivered`,
`MonitorEnds`). Every other property of a passing run is a theorem.

## 5. Not modelled

See `PROJECT.json` for each component. Listings, samples and probes have no
state that changes after they start; the remote scripts work on the state of
libvirt and other hosts; configuration is no program logic. In modelled
components these are left out: the buddy listing of `zproc.c`, which prints
counters under the kernel's lock; the bytes that the read and write handlers of
the character drivers copy, and the text of `sys_reg.c`; short `fread`s of the
guest's code in `kvm_run_test2.c`. The programs that call a driver once
(`proc_mem.c`, which also ignores what `read` returns, `test.c`, `ztest_usr.c`,
`mem_test.c`) share nothing and keep nothing; what they make a driver do is an
action of that driver's module.

## 6. What could follow

The modules are complete for the programs that have state to speak of, and all
safety properties of the passing runs are proved. The liveness properties stay
with TLC until the prover supports fairness. Of the code, the buddy listing of
`zproc.c` and the bytes that the character drivers copy are the next candidates for
a model.
