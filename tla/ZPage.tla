------------------------------- MODULE ZPage -------------------------------
(***************************************************************************)
(* The zpage driver src/src/kernel/linux_memory/user_task_page/zpage.c and *)
(* the program user.c beside it, run by several users.                     *)
(*                                                                         *)
(* The driver has one page, mmap_data, that every user maps: an ioctl puts *)
(* its answer there and the user then prints it from the mapping.  Nothing *)
(* keeps two users apart.                                                  *)
(*                                                                         *)
(* A cell of the page holds a byte, one formatted byte, a formatted text   *)
(* or the terminator.  The memory of a task is a function of addresses;    *)
(* the driver reads through the mapping of one page frame, so a byte       *)
(* beyond that page is whatever the next frame holds.  It does not ask     *)
(* whether the page is in memory either: the entry of an absent page names *)
(* some frame, and what that frame holds is the answer.                    *)
(***************************************************************************)
EXTENDS Integers, Sequences

CONSTANTS
    Users,
    Tasks,          \* the tasks looked at
    Addresses,      \* the addresses users enter
    Gone,           \* a pid that names no task
    PAGE_SIZE,      \* bytes in a page of a task
    MMAP_LEN,       \* cells in mmap_data
    Mem,            \* task -> address -> byte
    WORD,           \* bytes in an int
    MAX_ERRNO,      \* ioctl() takes -MAX_ERRNO .. -1 for an error
    ErrorWords,     \* the words among those
    Tables,         \* task -> the pages its page tables reach
    Present,        \* task -> the pages among them it has in memory
    Data, Args      \* task -> [from, to], to exclusive

ASSUME ZPageAssumption ==
    /\ PAGE_SIZE \in Nat \ {0} /\ MMAP_LEN \in Nat \ {0, 1} /\ PAGE_SIZE =< MMAP_LEN
    /\ Gone \notin Tasks /\ Addresses \subseteq Nat
    /\ WORD \in Nat \ {0} /\ MAX_ERRNO \in Nat
    /\ \A t \in Tasks : Present[t] \subseteq Tables[t] /\ Tables[t] \subseteq Nat
    /\ {Data, Args} \subseteq [Tasks -> [from : Nat, to : Nat]]

VARIABLES
    mmap_data,      \* the shared page
    marked,         \* [task, address] of the words overwritten
    upc,            \* user -> where it is
    req,            \* user -> its request [op, pid, from, to]
    i,              \* user -> loop counter of the copy
    ret,            \* user -> what ioctl() returned
    shown,          \* user -> the cells printed last
    disturbed       \* users whose answer another user's ioctl may have changed

zpvars == <<mmap_data, marked, upc, req, i, ret, shown, disturbed>>

Nul  == <<"nul">>
Junk == <<"junk">>
Mark == <<"0x12345678">>
Cells == 0 .. MMAP_LEN - 1
\* What a copy longer than mmap_data does to the memory behind it is not
\* followed.

Requests ==
    [op : {"mm", "vma", "args", "data"}, pid : Tasks \cup {Gone}, from : {0}, to : {0}]
    \cup [op : {"word"}, pid : Tasks \cup {Gone}, from : Addresses, to : {0}]
    \cup [op : {"region"}, pid : Tasks \cup {Gone}, from : Addresses, to : Addresses]

\* The addresses the copy loops run over, the last one included: the loops of
\* task_get_args and task_get_addr_region test <=, that of task_get_data <.
From(r) == CASE r.op = "args" -> Args[r.pid].from [] r.op = "data" -> Data[r.pid].from
             [] r.op \in {"region", "word"} -> r.from [] OTHER -> 0

\* Mutant: the loops that test <= test <.
ToShort(r) == CASE r.op = "args" -> Args[r.pid].to - 1 [] r.op = "data" -> Data[r.pid].to - 1
                [] r.op = "region" -> r.to - 1 [] OTHER -> 0

To(r) == CASE r.op = "args" -> Args[r.pid].to [] r.op = "data" -> Data[r.pid].to - 1
           [] r.op = "region" -> r.to [] OTHER -> 0

ZPageInit ==
    /\ mmap_data = [x \in Cells |-> Nul] /\ marked = {}
    /\ upc = [u \in Users |-> "cmd"] /\ req = [u \in Users |-> [op |-> "none"]]
    /\ i = [u \in Users |-> 0] /\ ret = [u \in Users |-> 0]
    /\ shown = [u \in Users |-> <<>>] /\ disturbed = {}

Goto(u, to) == upc' = [upc EXCEPT ![u] = to]

----------------------------------------------------------------------------
(* my_ioctl *)

\* What the memory of a task holds now.
Now(t, a) == IF [task |-> t, addr |-> a] \in marked THEN Mark ELSE Mem[t][a]

\* walk_task_page and kmap of the page an address is in, then the byte at an
\* offset from that address, in the frame of that page or behind it.
Byte(t, from, k) ==
    LET page == from \div PAGE_SIZE IN
    IF page \in Present[t] /\ page = (from + k) \div PAGE_SIZE THEN Now(t, from + k) ELSE Junk

\* The text of one byte, "0x%0x ": never empty, whatever the byte.
Hex(b) == <<"hex", b>>

\* pid_task() finds nothing: three commands say -EFAULT, the others go on with
\* a null pointer, which ends the caller.  So does an address whose upper page
\* tables are not there.
Ioctl(u, r) ==
    /\ upc[u] = "cmd"
    /\ req' = [req EXCEPT ![u] = r] /\ i' = [i EXCEPT ![u] = 0]
    /\ disturbed' = disturbed \ {u}
    /\ IF r.pid = Gone
       THEN Goto(u, IF r.op \in {"mm", "vma", "args"} THEN "failure" ELSE "oops")
       ELSE IF r.op \notin {"mm", "vma"} /\ From(r) \div PAGE_SIZE \notin Tables[r.pid]
       THEN Goto(u, "oops")
       ELSE Goto(u, IF r.op = "word" THEN "word" ELSE "copy")
    /\ UNCHANGED <<mmap_data, marked, ret, shown>>

\* Users that have asked and have not printed yet.
Asking == {u \in Users : upc[u] \in {"copy", "print"}}

Texts == {"mm", "vma", "args"}

\* One cell of the answer.
Answer(r, k) ==
    CASE r.op \in {"mm", "vma"} -> <<r.op, r.pid>>
      [] r.op = "args" -> Hex(Byte(r.pid, From(r), k))
      [] OTHER -> Byte(r.pid, From(r), k)

\* snprintf() terminates what it has formatted so far; data are bytes alone.
Copy(u) ==
    LET r == req[u] IN
    /\ upc[u] = "copy" /\ i[u] =< To(r) - From(r)
    /\ mmap_data' = IF r.op \in Texts
                    THEN [mmap_data EXCEPT ![i[u]] = Answer(r, i[u]), ![i[u] + 1] = Nul]
                    ELSE [mmap_data EXCEPT ![i[u]] = Answer(r, i[u])]
    /\ i' = [i EXCEPT ![u] = @ + 1]
    /\ disturbed' = disturbed \cup (Asking \ {u})
    /\ UNCHANGED <<marked, upc, req, ret, shown>>

\* Page frames; NoTasks stands for those that none of the tasks has.
NoTasks == [task |-> Gone, page |-> 0]
Frames == {NoTasks} \cup UNION {{[task |-> t, page |-> p] : p \in Present[t]} : t \in Tasks}

\* ZPAGE_GET_PID_ADDR, "t: test": the word is what ioctl() returns, and it is
\* overwritten, in the frame of the address's page and, if it is not aligned,
\* in the frame behind; an absent page may stand for any frame.  A word that
\* looks like an error ends the user.
Word(u) ==
    LET r    == req[u]
        page == r.from \div PAGE_SIZE
        word == [k \in 1 .. WORD |-> Byte(r.pid, r.from, k - 1)]
        own  == IF page \in Present[r.pid] THEN {[task |-> r.pid, page |-> page]} ELSE Frames
    IN
    /\ upc[u] = "word"
    /\ shown' = [shown EXCEPT ![u] = word]
    /\ \E f \in own, next \in Frames :
          LET frame(a) == IF a \div PAGE_SIZE = page THEN f ELSE next IN
          marked' = marked \cup
            {[task |-> frame(a).task, addr |-> PAGE_SIZE * frame(a).page + (a % PAGE_SIZE)] :
                a \in {b \in r.from .. r.from + WORD - 1 : frame(b) # NoTasks}}
    /\ \/ word \notin ErrorWords /\ Goto(u, "shown")
       \/ (word \in ErrorWords \/ \E k \in DOMAIN word : word[k] = Junk) /\ Goto(u, "failure")
    /\ disturbed' = disturbed \cup {x \in Users \ {u} : upc[x] \in {"copy", "print", "shown"}}
    /\ UNCHANGED <<mmap_data, req, i, ret>>

\* A text is terminated; data are not, their length is what ioctl() returns.
\* A small negative length is an error to the user, who exits.
IoctlReturn(u) ==
    LET r == req[u] IN
    /\ upc[u] = "copy" /\ i[u] > To(r) - From(r)
    /\ mmap_data' = IF r.op \in Texts THEN [mmap_data EXCEPT ![i[u]] = Nul] ELSE mmap_data
    /\ disturbed' = IF r.op \in Texts THEN disturbed \cup (Asking \ {u}) ELSE disturbed
    /\ ret' = [ret EXCEPT ![u] = IF r.op = "region" THEN r.to - r.from ELSE i[u]]
    /\ Goto(u, IF ret'[u] \in -MAX_ERRNO .. -1 THEN "failure" ELSE "print")
    /\ UNCHANGED <<marked, req, i, shown>>

----------------------------------------------------------------------------
(* user.c *)

\* printf("%s"): the cells before the first terminator.
Text == LET stop == CHOOSE k \in Cells : mmap_data[k] = Nul /\ \A j \in 0 .. k - 1 : mmap_data[j] # Nul
        IN  [k \in 1 .. stop |-> mmap_data[k - 1]]

\* A length below zero prints nothing.
Show(u) ==
    /\ upc[u] = "print"
    /\ shown' = [shown EXCEPT ![u] =
            CASE req[u].op \in Texts -> Text
              [] req[u].op = "data" -> [k \in 1 .. ret[u] |-> mmap_data[k - 1]]
              [] OTHER -> [k \in 1 .. ret[u] + 1 |-> mmap_data[k - 1]]]
    /\ Goto(u, "shown")
    /\ UNCHANGED <<mmap_data, marked, req, i, ret, disturbed>>

\* The loop reads the next command; the answer is forgotten.
Prompt(u) ==
    /\ upc[u] = "shown" /\ Goto(u, "cmd")
    /\ req' = [req EXCEPT ![u] = [op |-> "none"]] /\ shown' = [shown EXCEPT ![u] = <<>>]
    /\ i' = [i EXCEPT ![u] = 0] /\ ret' = [ret EXCEPT ![u] = 0]
    /\ disturbed' = disturbed \ {u}
    /\ UNCHANGED <<mmap_data, marked>>

QuitUser(u) ==
    /\ upc[u] = "cmd" /\ Goto(u, "quit")
    /\ UNCHANGED <<mmap_data, marked, req, i, ret, shown, disturbed>>

ZPageTerminated == (\A u \in Users : upc[u] \in {"quit", "failure", "oops"}) /\ UNCHANGED zpvars

ZPageNext ==
    \/ \E u \in Users :
        \/ \E r \in Requests : Ioctl(u, r)
        \/ Copy(u) \/ Word(u) \/ IoctlReturn(u) \/ Show(u) \/ Prompt(u) \/ QuitUser(u)
    \/ ZPageTerminated

ZPageSpec == ZPageInit /\ [][ZPageNext]_zpvars

----------------------------------------------------------------------------
(* Properties *)

ZPageTypeOK ==
    /\ DOMAIN mmap_data = Cells /\ \E k \in Cells : mmap_data[k] = Nul
    /\ upc \in [Users -> {"cmd", "copy", "word", "print", "shown", "quit", "failure", "oops"}]
    /\ i \in [Users -> Nat] /\ ret \in [Users -> Int]
    /\ \A u \in Users : req[u].op = "none" \/ req[u] \in Requests
    /\ disturbed \subseteq Users

\* The bytes of a task from one address to another, both included, and
\* whether a walk of one page reaches them.
BytesOf(t, a, b) == [k \in 1 .. b - a + 1 |-> Now(t, a + k - 1)]
Reached(t, a, b) == a \div PAGE_SIZE = b \div PAGE_SIZE /\ a \div PAGE_SIZE \in Present[t]

\* What user.c prints, unless another user's ioctl wrote to the page or to the
\* task's memory between the user's ioctl and the print.  The mm and vma texts;
\* the arguments formatted from arg_start to arg_end, both included, if they
\* fit; the data segment from start_data to end_data, which is not; the region
\* with both its ends, nothing if they are swapped.  The last three if they
\* lie in one page and it is in memory.  Whatever earlier, longer answers left
\* in the page is not seen.
AnswerExact ==
    \A u \in Users \ disturbed :
        LET r == req[u]
            t == r.pid
        IN
        upc[u] = "shown" =>
            /\ r.op \in {"mm", "vma"} => shown[u] = <<<<r.op, t>>>>
            /\ r.op = "args" /\ Reached(t, Args[t].from, Args[t].to)
                             /\ 0 =< Args[t].to - Args[t].from /\ Args[t].to - Args[t].from + 1 < MMAP_LEN =>
                  shown[u] = [k \in 1 .. Args[t].to - Args[t].from + 1 |->
                                Hex(Now(t, Args[t].from + k - 1))]
            /\ r.op = "data" /\ Reached(t, Data[t].from, Data[t].to - 1) =>
                  shown[u] = BytesOf(t, Data[t].from, Data[t].to - 1)
            /\ r.op = "region" /\ Reached(t, r.from, r.to) => shown[u] = BytesOf(t, r.from, r.to)
=============================================================================
