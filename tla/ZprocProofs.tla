----------------------------- MODULE ZprocProofs -----------------------------
(***************************************************************************)
(* Who is not disturbed walks or views rightly, for every number of        *)
(* walkers, every memory and every set of tables.                          *)
(*                                                                         *)
(* The invariant is one of each walker (Fine): where its program is, what  *)
(* the globals are for it (Own) and what its walk has found so far         *)
(* (Before).  A step of another walker keeps it or disturbs the walker.    *)
(***************************************************************************)
EXTENDS Zproc, TLAPS

Viewing == {"pid", "get", "print", "done", "oops"}
Walking == {"pid", "mm", "addr", "page", "slot", "done"}

Types ==
    /\ target \in Targets
    /\ phys \in [page : Pages, slot : Slots]
    /\ alive \subseteq Pids
    /\ wpc \in [Walkers -> Viewing \cup Walking]
    /\ level \in [Walkers -> 1 .. 5] /\ pg \in [Walkers -> Pages]
    /\ entry \in [Walkers -> Entries]
    /\ task \in [Walkers -> Pids \cup {NoPid}]
    /\ seen \in [Walkers -> [pid : Pids \cup {NoPid}, task : Pids \cup {NoPid}]]
    /\ pid \in Pids \cup {NoPid} /\ gpid \in Pids \cup {NoPid}

\* What the globals are for a walker that has written them.
Own(w) ==
    /\ wpc[w] = "mm" => pid = target[w].pid
    /\ wpc[w] \in {"page", "slot"} /\ (level[w] = 5 \/ ~entry[w].nx) => phys = Address(w)
    /\ wpc[w] = "get" => gpid = target[w].pid
    /\ wpc[w] = "print" => gpid = target[w].pid /\ task[w] = gpid

\* What the walk has found before the level it is at.
Before(t, k) == IF k = 1 THEN Top(Cr3[t.pid]) ELSE Entry(t.pid, t.va, k - 1)

Right(w) ==
    IF Viewer(w)
    THEN wpc[w] = "done" => seen[w] = [pid |-> target[w].pid, task |-> target[w].pid]
    ELSE Walkable(target[w]) =>
            /\ wpc[w] \in {"addr", "page", "slot"} => entry[w] = Before(target[w], level[w])
            /\ wpc[w] = "done" => entry[w] = Entry(target[w].pid, target[w].va, 5)

Place(w) ==
    /\ wpc[w] \in IF Viewer(w) THEN Viewing ELSE Walking
    /\ wpc[w] \in {"pid", "mm"} => level[w] = 1

Fine(w) ==
    /\ Place(w)
    /\ w \notin disturbed =>
        /\ Own(w)
        /\ wpc[w] = "slot" => pg[w] = phys.page
        /\ target[w].pid \in alive => Right(w)

IInv == Types /\ \A w \in Walkers : Fine(w)

------------------------------------------------------------------------------
(* The processor's walk, level by level *)

LEMMA Targeted ==
    ASSUME Types, NEW w \in Walkers
    PROVE  /\ target[w].pid \in Pids /\ Cr3[target[w].pid] \in Pages
           /\ target[w].va \in [1 .. 5 -> Slots] \cup {<<>>}
           /\ ~Viewer(w) => target[w].va \in [1 .. 5 -> Slots]
<1>1. target \in [Walkers -> [pid : Pids, va : [1 .. 5 -> Slots] \cup {<<>>}]]
  BY ZprocAssumption DEF Types
<1>2. target[w] \in [pid : Pids, va : [1 .. 5 -> Slots] \cup {<<>>}]
  BY <1>1
<1>3. target[w].pid \in Pids /\ target[w].va \in [1 .. 5 -> Slots] \cup {<<>>}
  BY <1>2
<1>4. Cr3[target[w].pid] \in Pages
  BY <1>3, ZprocAssumption
<1> QED BY <1>3, <1>4, Zenon DEF Viewer

LEMMA Memory ==
    ASSUME NEW p \in Pages, NEW s \in Slots
    PROVE  Mem[p][s] \in Entries /\ Mem[p][s].page \in Pages
  BY ZprocAssumption DEF Entries

LEMMA Page0IsPage == Page0 \in Pages
  BY ZprocAssumption DEF Page0

LEMMA EntryStep ==
    ASSUME NEW p, NEW va, NEW k \in 1 .. 5
    PROVE  Entry(p, va, k) = Mem[IF k = 1 THEN Cr3[p] ELSE Entry(p, va, k - 1).page][va[k]]
<1> DEFINE e1 == Mem[Cr3[p]][va[1]]
           e2 == Mem[e1.page][va[2]]
           e3 == Mem[e2.page][va[3]]
           e4 == Mem[e3.page][va[4]]
           e5 == Mem[e4.page][va[5]]
<1>1. \A i : Entry(p, va, i) = <<e1, e2, e3, e4, e5>>[i]
  BY Zenon DEF Entry
<1>2. /\ e1 = Mem[Cr3[p]][va[1]] /\ e2 = Mem[e1.page][va[2]] /\ e3 = Mem[e2.page][va[3]]
      /\ e4 = Mem[e3.page][va[4]] /\ e5 = Mem[e4.page][va[5]]
  OBVIOUS
<1> HIDE DEF e1, e2, e3, e4, e5
<1>3. /\ Entry(p, va, 1) = e1 /\ Entry(p, va, 2) = e2 /\ Entry(p, va, 3) = e3
      /\ Entry(p, va, 4) = e4 /\ Entry(p, va, 5) = e5
  BY <1>1
<1>4. k \in {1, 2, 3, 4, 5} /\ 2 - 1 = 1 /\ 3 - 1 = 2 /\ 4 - 1 = 3 /\ 5 - 1 = 4
  OBVIOUS
<1> QED BY <1>2, <1>3, <1>4

LEMMA BeforeStep ==
    ASSUME NEW t, NEW k \in 1 .. 5
    PROVE  Entry(t.pid, t.va, k) = Mem[Before(t, k).page][t.va[k]]
<1>1. CASE k = 1
  BY <1>1, EntryStep DEF Before, Top
<1>2. CASE k # 1
  BY <1>2, EntryStep DEF Before
<1> QED BY <1>1, <1>2

\* Where the script's arithmetic is right, it keeps what it wrote and it wrote
\* the address of the next entry.
LEMMA WalkableStep ==
    ASSUME Types, NEW w \in Walkers, Walkable(target[w]), entry[w] = Before(target[w], level[w])
    PROVE  /\ level[w] = 5 \/ ~entry[w].nx
           /\ Address(w) = [page |-> entry[w].page, slot |-> target[w].va[level[w]]]
<1>1. level[w] \in 1 .. 5 /\ entry[w].page \in Pages
  BY DEF Types, Entries
<1>2. CASE level[w] = 1
  BY <1>2 DEF Before, Address, Top
<1>3. CASE level[w] \in 2 .. 4
  <2>1. level[w] - 1 \in 1 .. 3 /\ level[w] # 1 /\ level[w] # 5
    BY <1>3
  <2>2. ~Entry(target[w].pid, target[w].va, level[w] - 1).nx
    BY <2>1 DEF Walkable
  <2> QED BY <2>1, <2>2 DEF Before, Address
<1>4. CASE level[w] = 5
  <2>1. entry[w] = Entry(target[w].pid, target[w].va, 4)
    BY <1>4 DEF Before
  <2>2. Alias[entry[w].page] = entry[w].page
    BY <1>1, <2>1, ZprocAssumption DEF Walkable
  <2> QED BY <1>4, <2>2 DEF Address
<1> QED BY <1>1, <1>2, <1>3, <1>4

------------------------------------------------------------------------------
(* The invariant, action by action *)

\* A walker that a step does not concern, or disturbs.
LEMMA Kept ==
    ASSUME NEW x \in Walkers, Fine(x), target' = target, alive' \subseteq alive,
           disturbed \subseteq disturbed',
           wpc'[x] = wpc[x], level'[x] = level[x], entry'[x] = entry[x], pg'[x] = pg[x],
           task'[x] = task[x], seen'[x] = seen[x],
           pid' = pid \/ wpc[x] # "mm" \/ x \in disturbed',
           phys' = phys \/ wpc[x] \notin {"page", "slot"} \/ x \in disturbed',
           gpid' = gpid \/ wpc[x] \notin {"get", "print"} \/ x \in disturbed'
    PROVE  Fine(x)'
<1>1. Place(x)'
  BY DEF Fine, Place, Viewer
<1>2. ASSUME x \notin disturbed' PROVE Own(x)' /\ (wpc'[x] = "slot" => pg'[x] = phys'.page)
  BY <1>2 DEF Fine, Own, Address
<1>3. ASSUME x \notin disturbed', target[x].pid \in alive' PROVE Right(x)'
  <2>1. Right(x)
    BY <1>3 DEF Fine
  <2> QED BY <2>1 DEF Right, Viewer
<1> QED BY <1>1, <1>2, <1>3 DEF Fine

LEMMA InitInv == Init => IInv
<1> SUFFICES ASSUME Init PROVE IInv
  OBVIOUS
<1>1. Types
  <2>1. phys \in [page : Pages, slot : Slots]
    BY Page0IsPage, ZprocAssumption DEF Init
  <2> QED BY <2>1, Page0IsPage DEF Init, Types, Viewing, Walking, Top, Entries
<1>2. ASSUME NEW w \in Walkers PROVE Fine(w)
  BY DEF Init, Fine, Place, Own, Right, Viewing, Walking
<1> QED BY <1>1, <1>2 DEF IInv

LEMMA mminfo_writeInv ==
    ASSUME NEW w \in Walkers, IInv, mminfo_write(w), UNCHANGED target
    PROVE  IInv'
<1>1. /\ wpc[w] = "pid" /\ ~Viewer(w) /\ pid' = target[w].pid /\ wpc' = [wpc EXCEPT ![w] = "mm"]
      /\ disturbed' = disturbed \cup Others(w, {"mm"})
      /\ UNCHANGED <<phys, alive, level, entry, pg, gpid, task, seen, target>>
  BY DEF mminfo_write, view
<1>2. Types'
  BY <1>1, Targeted DEF IInv, Types, Viewing, Walking
<1>3. ASSUME NEW x \in Walkers, x # w PROVE Fine(x)'
  <2>1. wpc'[x] = wpc[x] /\ (wpc[x] # "mm" \/ x \in disturbed')
    BY <1>1, <1>3 DEF IInv, Types, Others
  <2> QED BY <1>1, <2>1, Kept DEF IInv
<1>4. Fine(w)'
  <2>1. wpc'[w] = "mm" /\ level[w] = 1
    BY <1>1 DEF IInv, Types, Fine, Place
  <2> QED BY <1>1, <2>1 DEF Fine, Place, Own, Right, Viewer, Walking
<1> QED BY <1>2, <1>3, <1>4 DEF IInv

LEMMA mminfo_showInv ==
    ASSUME NEW w \in Walkers, IInv, mminfo_show(w), UNCHANGED target
    PROVE  IInv'
<1> DEFINE e == Top(IF pid \in alive THEN Cr3[pid] ELSE Page0)
<1>1. /\ wpc[w] = "mm" /\ entry' = [entry EXCEPT ![w] = e] /\ wpc' = [wpc EXCEPT ![w] = "addr"]
      /\ UNCHANGED <<pid, phys, alive, level, pg, disturbed, gpid, task, seen, target>>
  BY DEF mminfo_show, view
<1>2. e \in Entries
  BY Page0IsPage, ZprocAssumption DEF IInv, Types, Top, Entries
<1>3. pid \in alive => e = Top(Cr3[pid])
  OBVIOUS
<1> HIDE DEF e
<1>4. Types'
  BY <1>1, <1>2 DEF IInv, Types, Viewing, Walking
<1>5. ASSUME NEW x \in Walkers, x # w PROVE Fine(x)'
  <2>1. wpc'[x] = wpc[x] /\ entry'[x] = entry[x]
    BY <1>1, <1>5 DEF IInv, Types
  <2> QED BY <1>1, <2>1, Kept DEF IInv
<1>6. Fine(w)'
  <2>1. wpc'[w] = "addr" /\ level[w] = 1 /\ entry'[w] = e /\ ~Viewer(w)
    BY <1>1 DEF IInv, Types, Fine, Place, Viewing
  <2>2. ASSUME w \notin disturbed, target[w].pid \in alive PROVE e = Before(target[w], 1)
    BY <1>1, <1>3, <2>2 DEF IInv, Fine, Own, Before
  <2> QED BY <1>1, <2>1, <2>2 DEF Fine, Place, Own, Right, Viewer, Walking
<1> QED BY <1>4, <1>5, <1>6 DEF IInv

LEMMA phys_value_writeInv ==
    ASSUME NEW w \in Walkers, IInv, phys_value_write(w), UNCHANGED target
    PROVE  IInv'
<1>1. /\ wpc[w] = "addr" /\ wpc' = [wpc EXCEPT ![w] = "page"]
      /\ UNCHANGED <<pid, alive, level, entry, pg, gpid, task, seen, target>>
      /\ \/ UNCHANGED <<phys, disturbed>> /\ entry[w].nx /\ level[w] < 5
         \/ phys' = Address(w) /\ disturbed' = disturbed \cup Others(w, {"page", "slot"})
  BY DEF phys_value_write, view
<1>2. ~Viewer(w) /\ wpc'[w] = "page"
  BY <1>1 DEF IInv, Types, Fine, Place, Viewing
<1>3. Address(w) \in [page : Pages, slot : Slots]
  <2>1. target[w].va \in [1 .. 5 -> Slots] /\ level[w] \in 1 .. 5 /\ entry[w].page \in Pages
    BY <1>2, Targeted DEF IInv, Types, Entries
  <2> QED BY <2>1, ZprocAssumption DEF Address
<1>4. Types'
  BY <1>1, <1>3 DEF IInv, Types, Viewing, Walking
<1>5. ASSUME NEW x \in Walkers, x # w PROVE Fine(x)'
  <2>1. wpc'[x] = wpc[x] /\ (phys' = phys \/ wpc[x] \notin {"page", "slot"} \/ x \in disturbed')
    BY <1>1, <1>5 DEF IInv, Types, Others
  <2> QED BY <1>1, <2>1, Kept DEF IInv
<1>6. Fine(w)'
  <2>1. Own(w)'
    BY <1>1, <1>2 DEF Own, Address, IInv, Types
  <2>2. ASSUME w \notin disturbed, target[w].pid \in alive PROVE Right(w)'
    BY <1>1, <1>2, <2>2 DEF IInv, Fine, Right, Viewer
  <2> QED BY <1>1, <1>2, <2>1, <2>2 DEF Fine, Place, Viewer, Walking
<1> QED BY <1>4, <1>5, <1>6 DEF IInv

LEMMA show_pageInv ==
    ASSUME NEW w \in Walkers, IInv, show_page(w), UNCHANGED target
    PROVE  IInv'
<1>1. /\ wpc[w] = "page" /\ pg' = [pg EXCEPT ![w] = phys.page] /\ wpc' = [wpc EXCEPT ![w] = "slot"]
      /\ UNCHANGED <<pid, phys, alive, level, entry, disturbed, gpid, task, seen, target>>
  BY DEF show_page, view
<1>2. Types'
  BY <1>1 DEF IInv, Types, Viewing, Walking
<1>3. ASSUME NEW x \in Walkers, x # w PROVE Fine(x)'
  <2>1. wpc'[x] = wpc[x] /\ pg'[x] = pg[x]
    BY <1>1, <1>3 DEF IInv, Types
  <2> QED BY <1>1, <2>1, Kept DEF IInv
<1>4. Fine(w)'
  <2>1. wpc'[w] = "slot" /\ pg'[w] = phys.page /\ ~Viewer(w)
    BY <1>1 DEF IInv, Types, Fine, Place, Viewing
  <2>2. Place(w)'
    BY <1>1, <2>1 DEF Place, Viewer, Walking
  <2>3. w \notin disturbed => Own(w)'
    BY <1>1, <2>1 DEF IInv, Fine, Own, Address
  <2>4. ASSUME w \notin disturbed, target[w].pid \in alive PROVE Right(w)'
    <3>1. Right(w)
      BY <2>4 DEF IInv, Fine
    <3> QED BY <1>1, <2>1, <3>1 DEF Right, Viewer
  <2> QED BY <1>1, <2>1, <2>2, <2>3, <2>4 DEF Fine
<1> QED BY <1>2, <1>3, <1>4 DEF IInv

LEMMA show_valueInv ==
    ASSUME NEW w \in Walkers, IInv, show_value(w), UNCHANGED target
    PROVE  IInv'
<1> DEFINE v == Mem[pg[w]][phys.slot]
<1>1. /\ wpc[w] = "slot" /\ entry' = [entry EXCEPT ![w] = v]
      /\ UNCHANGED <<pid, phys, alive, pg, disturbed, gpid, task, seen, target>>
      /\ IF level[w] = 5 THEN wpc' = [wpc EXCEPT ![w] = "done"] /\ UNCHANGED level
         ELSE wpc' = [wpc EXCEPT ![w] = "addr"] /\ level' = [level EXCEPT ![w] = @ + 1]
  BY DEF show_value, view
<1>2. v \in Entries /\ level[w] \in 1 .. 5
  BY Memory DEF IInv, Types
<1>3. ~Viewer(w)
  BY <1>1 DEF IInv, Fine, Place, Viewing
<1>4. ASSUME w \notin disturbed, target[w].pid \in alive, Walkable(target[w])
      PROVE  v = Entry(target[w].pid, target[w].va, level[w])
  <2>1. entry[w] = Before(target[w], level[w])
    BY <1>1, <1>3, <1>4 DEF IInv, Fine, Right
  <2>2. phys = [page |-> entry[w].page, slot |-> target[w].va[level[w]]] /\ pg[w] = phys.page
    BY <1>1, <1>4, <2>1, WalkableStep DEF IInv, Fine, Own
  <2>3. v = Mem[entry[w].page][target[w].va[level[w]]]
    BY <2>2
  <2> QED BY <1>2, <2>1, <2>3, BeforeStep
<1> HIDE DEF v
<1>5. Types'
  <2>1. entry' \in [Walkers -> Entries]
    BY <1>1, <1>2 DEF IInv, Types
  <2>2. CASE level[w] = 5
    BY <1>1, <2>1, <2>2 DEF IInv, Types, Viewing, Walking
  <2>3. CASE level[w] # 5
    <3>1. level' \in [Walkers -> 1 .. 5]
      BY <1>1, <1>2, <2>3 DEF IInv, Types
    <3> QED BY <1>1, <2>1, <2>3, <3>1 DEF IInv, Types, Viewing, Walking
  <2> QED BY <2>2, <2>3
<1>6. ASSUME NEW x \in Walkers, x # w PROVE Fine(x)'
  <2>1. wpc'[x] = wpc[x] /\ entry'[x] = entry[x] /\ level'[x] = level[x]
    BY <1>1, <1>6 DEF IInv, Types
  <2> QED BY <1>1, <2>1, Kept DEF IInv
<1>7. Fine(w)'
  <2>1. entry'[w] = v
    BY <1>1 DEF IInv, Types
  <2>2. CASE level[w] = 5
    <3>1. wpc'[w] = "done"
      BY <1>1, <2>2 DEF IInv, Types
    <3> QED BY <1>1, <1>3, <1>4, <2>1, <2>2, <3>1 DEF Fine, Place, Own, Right, Viewer, Walking
  <2>3. CASE level[w] # 5
    <3>1. wpc'[w] = "addr" /\ level'[w] = level[w] + 1
      BY <1>1, <2>3 DEF IInv, Types
    <3>2. Entry(target[w].pid, target[w].va, level[w]) = Before(target[w], level[w] + 1)
      BY <1>2 DEF Before
    <3> QED BY <1>1, <1>3, <1>4, <2>1, <3>1, <3>2 DEF Fine, Place, Own, Right, Viewer, Walking
  <2> QED BY <2>2, <2>3
<1> QED BY <1>5, <1>6, <1>7 DEF IInv

LEMMA proc_get_writeInv ==
    ASSUME NEW w \in Walkers, IInv, proc_get_write(w), UNCHANGED target
    PROVE  IInv'
<1>1. /\ wpc[w] = "pid" /\ Viewer(w) /\ gpid' = target[w].pid /\ wpc' = [wpc EXCEPT ![w] = "get"]
      /\ disturbed' = disturbed \cup Others(w, {"get", "print"})
      /\ UNCHANGED <<phys, pid, alive, level, entry, pg, task, seen, target>>
  BY DEF proc_get_write, walk
<1>2. Types'
  BY <1>1, Targeted DEF IInv, Types, Viewing, Walking
<1>3. ASSUME NEW x \in Walkers, x # w PROVE Fine(x)'
  <2>1. wpc'[x] = wpc[x] /\ (wpc[x] \notin {"get", "print"} \/ x \in disturbed')
    BY <1>1, <1>3 DEF IInv, Types, Others
  <2> QED BY <1>1, <2>1, Kept DEF IInv
<1>4. Fine(w)'
  <2>1. wpc'[w] = "get"
    BY <1>1 DEF IInv, Types
  <2> QED BY <1>1, <2>1 DEF Fine, Place, Own, Right, Viewer, Viewing
<1> QED BY <1>2, <1>3, <1>4 DEF IInv

LEMMA show_findInv ==
    ASSUME NEW w \in Walkers, IInv, show_find(w), UNCHANGED target
    PROVE  IInv'
<1>1. /\ wpc[w] = "get" /\ UNCHANGED <<phys, pid, gpid, alive, level, entry, pg, seen, disturbed, target>>
      /\ IF gpid \in alive
         THEN task' = [task EXCEPT ![w] = gpid] /\ wpc' = [wpc EXCEPT ![w] = "print"]
         ELSE wpc' = [wpc EXCEPT ![w] = "done"] /\ UNCHANGED task
  BY DEF show_find, walk
<1>2. Types'
  <2>1. CASE gpid \in alive
    <3>1. task' \in [Walkers -> Pids \cup {NoPid}]
      BY <1>1, <2>1 DEF IInv, Types
    <3>2. wpc' \in [Walkers -> Viewing \cup Walking]
      BY <1>1, <2>1 DEF IInv, Types, Viewing
    <3> QED BY <1>1, <3>1, <3>2 DEF IInv, Types
  <2>2. CASE gpid \notin alive
    BY <1>1, <2>2 DEF IInv, Types, Viewing, Walking
  <2> QED BY <2>1, <2>2
<1>3. ASSUME NEW x \in Walkers, x # w PROVE Fine(x)'
  <2>1. wpc'[x] = wpc[x] /\ task'[x] = task[x]
    BY <1>1, <1>3 DEF IInv, Types
  <2> QED BY <1>1, <2>1, Kept DEF IInv
<1>4. Fine(w)'
  <2>1. Viewer(w) /\ (w \notin disturbed => gpid = target[w].pid)
    BY <1>1 DEF IInv, Fine, Place, Own, Walking
  <2>2. CASE gpid \in alive
    <3>1. wpc'[w] = "print" /\ task'[w] = gpid
      BY <1>1, <2>2 DEF IInv, Types
    <3> QED BY <1>1, <2>1, <3>1 DEF Fine, Place, Own, Right, Viewer, Viewing
  <2>3. CASE gpid \notin alive
    <3>1. wpc'[w] = "done"
      BY <1>1, <2>3 DEF IInv, Types
    <3> QED BY <1>1, <2>1, <2>3, <3>1 DEF Fine, Place, Own, Right, Viewer, Viewing
  <2> QED BY <2>2, <2>3
<1> QED BY <1>2, <1>3, <1>4 DEF IInv

LEMMA show_printInv ==
    ASSUME NEW w \in Walkers, IInv, show_print(w), UNCHANGED target
    PROVE  IInv'
<1>1. /\ wpc[w] = "print" /\ seen' = [seen EXCEPT ![w] = [pid |-> gpid, task |-> task[w]]]
      /\ UNCHANGED <<phys, pid, gpid, alive, level, entry, pg, task, disturbed, target>>
  BY DEF show_print, walk
<1>2. PICK to \in {"done", "oops"} : wpc' = [wpc EXCEPT ![w] = to]
  BY DEF show_print
<1>3. Types'
  BY <1>1, <1>2 DEF IInv, Types, Viewing, Walking
<1>4. ASSUME NEW x \in Walkers, x # w PROVE Fine(x)'
  <2>1. wpc'[x] = wpc[x] /\ seen'[x] = seen[x]
    BY <1>1, <1>2, <1>4 DEF IInv, Types
  <2> QED BY <1>1, <2>1, Kept DEF IInv
<1>5. Fine(w)'
  <2>1. Viewer(w) /\ (w \notin disturbed => gpid = target[w].pid /\ task[w] = gpid)
    BY <1>1 DEF IInv, Fine, Place, Own, Walking
  <2>2. wpc'[w] \in {"done", "oops"} /\ seen'[w] = [pid |-> gpid, task |-> task[w]]
    BY <1>1, <1>2 DEF IInv, Types
  <2> QED BY <1>1, <2>1, <2>2 DEF Fine, Place, Own, Right, Viewer, Viewing
<1> QED BY <1>3, <1>4, <1>5 DEF IInv

LEMMA ProcessExitInv ==
    ASSUME NEW p \in Pids, IInv, ProcessExit(p), UNCHANGED target
    PROVE  IInv'
<1>1. /\ alive' \subseteq alive
      /\ UNCHANGED <<phys, pid, gpid, level, entry, pg, task, seen, wpc, disturbed, target>>
  BY DEF ProcessExit, walk, view
<1>2. Types'
  BY <1>1 DEF IInv, Types
<1>3. ASSUME NEW x \in Walkers PROVE Fine(x)'
  BY <1>1, Kept DEF IInv
<1> QED BY <1>2, <1>3 DEF IInv

LEMMA NextInv == IInv /\ [Next]_vars => IInv'
<1> SUFFICES ASSUME IInv, [Next]_vars PROVE IInv'
  OBVIOUS
<1>1. CASE UNCHANGED vars
  <2>1. Types'
    BY <1>1 DEF vars, IInv, Types
  <2>2. ASSUME NEW x \in Walkers PROVE Fine(x)'
    BY <1>1, Kept DEF vars, IInv
  <2> QED BY <2>1, <2>2 DEF IInv
<1>2. ASSUME NEW w \in Walkers, Walk(w), UNCHANGED target PROVE IInv'
  BY <1>2, mminfo_writeInv, mminfo_showInv, phys_value_writeInv, show_pageInv, show_valueInv DEF Walk
<1>3. ASSUME NEW w \in Walkers, View(w), UNCHANGED target PROVE IInv'
  BY <1>3, proc_get_writeInv, show_findInv, show_printInv DEF View
<1> QED BY <1>1, <1>2, <1>3, ProcessExitInv DEF Next, Terminated

\* The combined invariant holds in every state.
THEOREM InvHolds == Spec => []IInv
  BY InitInv, NextInv, PTL DEF Spec

\* An undisturbed walk ends with what the processor's walk finds, in every
\* memory, and an undisturbed viewer is shown the process it asked for.
THEOREM UndisturbedWalkIsRightHolds == Spec => []UndisturbedWalkIsRight
<1>1. IInv => UndisturbedWalkIsRight
  BY DEF IInv, Fine, Right, UndisturbedWalkIsRight
<1> QED BY <1>1, InvHolds, PTL
==============================================================================
