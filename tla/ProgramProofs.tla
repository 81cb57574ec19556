---------------------------- MODULE ProgramProofs ----------------------------
(***************************************************************************)
(* The safety properties of four programs that share nothing: the thread   *)
(* stack (SPThread), the KVM runners (Kvm), the zpage driver with its user *)
(* programs (ZPage) and the cgroup limiter (CgroupLimit).  Their modules   *)
(* have no name in common, and no theorem speaks of more than one of them. *)
(***************************************************************************)
EXTENDS SPThread, Kvm, ZPage, CgroupLimit, SequenceTheorems, FiniteSetTheorems, TLAPS

-----------------------------------------------------------------------------
(***************************************************************************)
(* SPThread, for every number of slots and every set of handles.           *)
(* SlotsHoldThreads is inductive with the types; OnlyTheKilledReturns      *)
(* needs to know which flags are set (FlagsInv): only the flag of the slot *)
(* that main is joining is clear.                                          *)
(***************************************************************************)

\* Main joins only when there is a thread, and the flags of all counted slots
\* are set but that of the slot it joins; after exit() there is no thread.
FlagsInv ==
    /\ mpc = "join" => current_nums > 0
    /\ mpc # "exit" =>
        \A k \in 0 .. current_nums - 1 :
            running[k] = 1 \/ (mpc = "join" /\ k = current_nums - 1)
    /\ mpc = "exit" => Existing = {}

SlotInv == SPTypeOK /\ SlotsHoldThreads /\ FlagsInv /\ OnlyTheKilledReturns

\* The invariant holds when main has created no thread yet.
LEMMA SlotInit == SPInit => SlotInv
  BY SPThreadAssumption
  DEF SPInit, SlotInv, SPTypeOK, SlotsHoldThreads, FlagsInv, OnlyTheKilledReturns, Slots, Existing

\* The 'c' key: the new thread gets the slot above all others.
LEMMA SlotCreate == SlotInv /\ CreateThread => SlotInv'
<1> SUFFICES ASSUME SlotInv, CreateThread PROVE SlotInv'
    OBVIOUS
<1> USE SPThreadAssumption DEF SlotInv, Slots, Existing
<1>1. CASE UNCHANGED <<tid, thread, arg, current_nums>>
  <2>1. SPTypeOK'
      BY <1>1 DEF CreateThread, SPTypeOK
  <2>2. SlotsHoldThreads'
      BY <1>1 DEF CreateThread, SPTypeOK, SlotsHoldThreads
  <2>3. FlagsInv'
      BY <1>1 DEF CreateThread, SPTypeOK, FlagsInv
  <2>4. OnlyTheKilledReturns'
      BY <1>1 DEF CreateThread, SPTypeOK, OnlyTheKilledReturns
  <2>5. QED
      BY <2>1, <2>2, <2>3, <2>4
<1>2. ASSUME NEW h \in Handles \ Existing,
             tid' = [tid EXCEPT ![current_nums] = h],
             thread' = [thread EXCEPT ![h] = "run"],
             arg' = [arg EXCEPT ![h] = current_nums],
             current_nums' = current_nums + 1
      PROVE  SlotInv'
  <2>1. SPTypeOK'
      BY <1>2 DEF CreateThread, SPTypeOK
  <2>2. SlotsHoldThreads'
    <3>1. \A k \in 0 .. current_nums' - 1 : tid'[k] \in Existing' /\ arg'[tid'[k]] = k
        BY <1>2 DEF CreateThread, SPTypeOK, SlotsHoldThreads
    <3>2. \A g \in Existing' : arg'[g] < current_nums' /\ tid'[arg'[g]] = g
        BY <1>2 DEF CreateThread, SPTypeOK, SlotsHoldThreads
    <3>3. QED
        BY <3>1, <3>2 DEF SlotsHoldThreads
  <2>3. FlagsInv'
      BY <1>2 DEF CreateThread, SPTypeOK, FlagsInv
  <2>4. OnlyTheKilledReturns'
      BY <1>2 DEF CreateThread, SPTypeOK, OnlyTheKilledReturns
  <2>5. QED
      BY <2>1, <2>2, <2>3, <2>4
<1>3. QED
    BY <1>1, <1>2 DEF CreateThread

\* The 'k' key, before the join.
LEMMA SlotKill == SlotInv /\ Kill => SlotInv'
<1> SUFFICES ASSUME SlotInv, Kill PROVE SlotInv'
    OBVIOUS
<1> USE SPThreadAssumption DEF SlotInv, Kill, SPTypeOK, Slots, Existing
<1>1. SPTypeOK'
    OBVIOUS
<1>2. SlotsHoldThreads'
    BY DEF SlotsHoldThreads
<1>3. FlagsInv'
    BY DEF FlagsInv
<1>4. OnlyTheKilledReturns'
    BY DEF OnlyTheKilledReturns
<1>5. QED
    BY <1>1, <1>2, <1>3, <1>4

\* The join: the thread of the last counted slot is gone, no other uses it.
LEMMA SlotJoin == SlotInv /\ Join => SlotInv'
<1> SUFFICES ASSUME SlotInv, Join PROVE SlotInv'
    OBVIOUS
<1> USE SPThreadAssumption DEF SlotInv, SPTypeOK, Slots, Existing
<1> DEFINE g == tid[current_nums - 1]
<1>1. /\ current_nums > 0 /\ g \in Existing /\ arg[g] = current_nums - 1
      /\ thread' = [thread EXCEPT ![g] = "free"] /\ current_nums' = current_nums - 1
      /\ mpc' = "getchar" /\ UNCHANGED <<running, tid, arg>>
    BY DEF Join, FlagsInv, SlotsHoldThreads
<1>2. SPTypeOK'
    BY <1>1
<1>3. SlotsHoldThreads'
  <2>1. \A k \in 0 .. current_nums' - 1 : tid'[k] \in Existing' /\ arg'[tid'[k]] = k
      BY <1>1 DEF Join, SlotsHoldThreads
  <2>2. \A x \in Existing' : arg'[x] < current_nums' /\ tid'[arg'[x]] = x
      BY <1>1 DEF Join, SlotsHoldThreads
  <2>3. QED
      BY <2>1, <2>2 DEF SlotsHoldThreads
<1>4. FlagsInv'
    BY <1>1 DEF Join, FlagsInv
<1>5. OnlyTheKilledReturns'
    BY <1>1 DEF Join, OnlyTheKilledReturns, SlotsHoldThreads
<1>6. QED
    BY <1>2, <1>3, <1>4, <1>5

\* A thread looks at its flag or wakes up.
LEMMA SlotThread == ASSUME NEW h \in Handles PROVE SlotInv /\ (TestFlag(h) \/ Awake(h)) => SlotInv'
<1> SUFFICES ASSUME SlotInv, TestFlag(h) \/ Awake(h) PROVE SlotInv'
    OBVIOUS
<1> USE SPThreadAssumption DEF SlotInv, SPTypeOK, Slots, Existing
<1>1. SPTypeOK'
    BY DEF TestFlag, Awake
<1>2. SlotsHoldThreads'
    BY DEF TestFlag, Awake, SlotsHoldThreads
<1>3. FlagsInv'
    BY DEF TestFlag, Awake, FlagsInv
<1>4. OnlyTheKilledReturns'
  <2>1. CASE Awake(h)
      BY <2>1 DEF Awake, OnlyTheKilledReturns
  <2>2. CASE TestFlag(h)
    <3>1. h \in Existing /\ mpc # "exit"
        BY <2>2 DEF TestFlag, FlagsInv
    <3>2. arg[h] \in 0 .. current_nums - 1
        BY <3>1 DEF SlotsHoldThreads
    <3>3. running[arg[h]] = 1 \/ (mpc = "join" /\ arg[h] = current_nums - 1)
        BY <3>1, <3>2 DEF FlagsInv
    <3>4. QED
        BY <2>2, <3>3 DEF TestFlag, OnlyTheKilledReturns
  <2>3. QED
      BY <2>1, <2>2
<1>5. QED
    BY <1>1, <1>2, <1>3, <1>4

\* Every step preserves the invariant.
LEMMA SlotNext == SlotInv /\ [SPNext]_spvars => SlotInv'
<1> SUFFICES ASSUME SlotInv, [SPNext]_spvars PROVE SlotInv'
    OBVIOUS
<1>1. CASE CreateThread
    BY <1>1, SlotCreate
<1>2. CASE Kill
    BY <1>2, SlotKill
<1>3. CASE Join
    BY <1>3, SlotJoin
<1>4. CASE QuitMain
    BY <1>4, SPThreadAssumption
    DEF QuitMain, SlotInv, SPTypeOK, SlotsHoldThreads, FlagsInv, OnlyTheKilledReturns, Slots, Existing
<1>5. ASSUME NEW h \in Handles, TestFlag(h) \/ Awake(h) PROVE SlotInv'
    BY <1>5, SlotThread
<1>6. CASE UNCHANGED spvars
    BY <1>6
    DEF spvars, SlotInv, SPTypeOK, SlotsHoldThreads, FlagsInv, OnlyTheKilledReturns, Slots, Existing
<1>7. QED
    BY <1>1, <1>2, <1>3, <1>4, <1>5, <1>6 DEF SPNext, SPTerminated

\* The combined invariant holds in every state of the program.
THEOREM SlotInvHolds == SPSpec => []SlotInv
  BY SlotInit, SlotNext, PTL DEF SPSpec

\* Slots and unjoined threads correspond one to one in every state, however
\* many slots there are: no thread is lost and no slot is used twice.
THEOREM SlotsHoldThreadsHolds == SPSpec => []SlotsHoldThreads
<1>1. SlotInv => SlotsHoldThreads
    BY DEF SlotInv
<1>2. QED
    BY <1>1, SlotInvHolds, PTL

\* A thread returns only when main is waiting to join it.
THEOREM OnlyTheKilledReturnsHolds == SPSpec => []OnlyTheKilledReturns
<1>1. SlotInv => OnlyTheKilledReturns
    BY DEF SlotInv
<1>2. QED
    BY <1>1, SlotInvHolds, PTL

-----------------------------------------------------------------------------
(***************************************************************************)
(* Kvm, for every page size, number of rounds and string: KvmInv says      *)
(* where the guest and the monitor are and which part of the text has been *)
(* printed by then.                                                        *)
(***************************************************************************)

Regs == [cs : {0, 1}, ip : Nat, dx : {"none", "other", Port}, al : 0 .. 255, bl : 0 .. 255,
         cx : Nat, si : Nat]

Calls == {"argc", "fopen", "malloc", "open", "version", "extension", "create_vm", "mmap_mem", "memcpy",
          "region", "create_vcpu", "mmap_size", "mmap_run", "get_sregs", "set_sregs", "set_regs"}

KvmTypes ==
    /\ prog \in {"test1", "test2"} /\ guest \in Guests /\ (prog = "test1" => guest = "add")
    /\ kpc \in {"setup", "run", "guest", "exit", "ended"} /\ calls \in Seq(Calls)
    /\ regs \in Regs /\ out \in Seq(0 .. 255)
    /\ kpc = "exit" /\ run.reason = "io" => run.data \in 0 .. 255
    /\ kpc \in {"run", "guest"} => run.reason # "hlt"

\* The calls of the set-up still to come, and what those behind have done.
Pending(x) == \E k \in 1 .. Len(calls) : calls[k] = x
Loaded == [a \in 0 .. MemSize - 1 |-> IF a < Len(Code) THEN Code[a + 1] ELSE Zero]

CallsInv ==
    /\ kpc = "setup" => calls # <<>> /\ out = <<>> /\ run.reason = "none"
    /\ kpc \in {"run", "guest", "exit"} => calls = <<>>
    /\ kpc # "ended" /\ ~Pending("memcpy") => mem = Loaded
    /\ kpc # "ended" /\ ~Pending("region") => base = Start
    /\ kpc # "ended" /\ ~Pending("set_sregs") => regs.cs = 0
    /\ kpc = "setup" /\ ~Pending("set_regs") => regs.ip = Start /\ regs.al = 2 /\ regs.bl = 2

\* What was printed, with the byte that the guest has just handed over.
Handed == kpc = "exit" /\ Console
Bytes  == IF Handed THEN Append(out, run.data) ELSE out
Begins(s) == Len(s) =< Len(Meant) /\ \A k \in 1 .. Len(s) : s[k] = Meant[k]

\* Where each guest is, by the registers r and the number n of bytes it has
\* handed over.
AddAt(r, n) ==
    \/ r.ip = Start     /\ n = 0 /\ r.al = 2 /\ r.bl = 2
    \/ r.ip = Start + 1 /\ n = 0 /\ r.dx = Port /\ r.al = 2 /\ r.bl = 2
    \/ r.ip = Start + 2 /\ n = 0 /\ r.dx = Port /\ r.al = 4
    \/ r.ip = Start + 3 /\ n = 0 /\ r.dx = Port /\ r.al = 52
    \/ r.ip = Start + 4 /\ n = 1 /\ r.dx = Port
    \/ r.ip = Start + 5 /\ n = 1 /\ r.dx = Port /\ r.al = NL
    \/ r.ip = Start + 6 /\ n = 2

LoopAt(r, n) ==
    \/ r.ip = 0 /\ n = 0
    \/ r.ip = 1 /\ n = 0 /\ r.dx = Port
    \/ r.ip = 2 /\ n = 0 /\ r.dx = Port /\ r.cx = Rounds
    \/ /\ r.dx = Port /\ r.cx \in 1 .. Rounds
       /\ \/ r.ip = 3 /\ n = Rounds - r.cx     /\ r.al = (65 + Rounds - r.cx) % 256
          \/ r.ip = 4 /\ n = Rounds - r.cx + 1 /\ r.al = (65 + Rounds - r.cx) % 256
          \/ r.ip = 5 /\ n = Rounds - r.cx + 1 /\ r.al = (66 + Rounds - r.cx) % 256
    \/ r.ip = 6 /\ n = Rounds /\ r.dx = Port
    \/ r.ip = 7 /\ n = Rounds /\ r.dx = Port /\ r.al = NL
    \/ r.ip = 8 /\ n = Rounds + 1

HelloAt(r, n) ==
    LET left == Len(String) - r.cx IN
    \/ r.ip = 0 /\ n = 0
    \/ r.ip = 1 /\ n = 0 /\ r.dx = Port
    \/ r.ip = 2 /\ n = 0 /\ r.dx = Port /\ r.si = 8
    \/ /\ r.dx = Port /\ r.cx \in 1 .. Len(String)
       /\ \/ r.ip = 3 /\ n = left     /\ r.si = 8 + left
          \/ r.ip = 4 /\ n = left     /\ r.si = 8 + left /\ r.al = String[left + 1]
          \/ r.ip = 5 /\ n = left + 1 /\ r.si = 8 + left
          \/ r.ip = 6 /\ n = left + 1 /\ r.si = 9 + left
    \/ r.ip = 7 /\ n = Len(String)

Others == {"other", "word", "input", "many"}
OtherAt(r, n) == n = 0 /\ (r.ip = 0 \/ (r.ip = 1 /\ (guest = "other" => r.dx = "other")))

Where(r, n) ==
    /\ guest \in {"add", "long"} => AddAt(r, n)
    /\ guest = "loop"  => LoopAt(r, n)
    /\ guest = "hello" => HelloAt(r, n)
    /\ guest \in Others => OtherAt(r, n)

\* The guest has printed a beginning of what it is meant to, and is where it
\* prints the rest.
GuestInv ==
    /\ kpc \in {"run", "guest"} \/ Handed => Where(regs, Len(Bytes))
    /\ Begins(Bytes)
    /\ kpc \in {"exit", "ended"} /\ run.reason = "hlt" => Len(out) = Len(Meant)

KvmInv == KvmTypes /\ CallsInv /\ GuestInv

-------------------------------------------------------------------------------
\* What a concatenation is made of.
LEMMA Parts ==
    ASSUME NEW S, NEW s \in Seq(S), NEW t \in Seq(S)
    PROVE  /\ s \o t \in Seq(S) /\ Len(s \o t) = Len(s) + Len(t)
           /\ \A k \in 1 .. Len(s) : (s \o t)[k] = s[k]
           /\ \A k \in 1 .. Len(t) : (s \o t)[Len(s) + k] = t[k]
  OBVIOUS

\* The elements of a sequence, and of the two lengths of code used below.
LEMMA Elements ==
    ASSUME NEW S, NEW s \in Seq(S)
    PROVE  \A k \in 1 .. Len(s) : s[k] \in S
  OBVIOUS

\* A tuple of seven elements of S is a sequence over S.
LEMMA Seven ==
    ASSUME NEW S, NEW a \in S, NEW b \in S, NEW c \in S, NEW d \in S, NEW e \in S, NEW f \in S, NEW g \in S
    PROVE  <<a, b, c, d, e, f, g>> \in Seq(S)
  OBVIOUS

\* A tuple of eight elements of S is a sequence over S.
LEMMA Eight ==
    ASSUME NEW S, NEW a \in S, NEW b \in S, NEW c \in S, NEW d \in S, NEW e \in S, NEW f \in S, NEW g \in S,
           NEW h \in S
    PROVE  <<a, b, c, d, e, f, g, h>> \in Seq(S)
  OBVIOUS

\* The sizes of what the guests are meant to print.
LEMMA MeantFacts ==
    ASSUME KvmTypes
    PROVE  /\ Meant \in Seq(0 .. 255)
           /\ guest \in {"add", "long"} => Len(Meant) = 2 /\ Meant[1] = 52 /\ Meant[2] = NL
           /\ guest = "loop" => /\ Len(Meant) = Rounds + 1 /\ Meant[Rounds + 1] = NL
                                /\ \A k \in 1 .. Rounds : Meant[k] = (64 + k) % 256
           /\ guest = "hello" => Meant = String
           /\ guest \in Others => Meant = <<>>
<1>1. CASE guest \in {"add", "long"}
  <2>1. Meant = <<52, 10>>
    BY <1>1 DEF Meant, NL
  <2> QED BY <1>1, <2>1 DEF NL, Others
<1>2. CASE guest = "loop"
  <2> DEFINE s == [k \in 1 .. Rounds |-> (64 + k) % 256]
  <2>1. Rounds \in Nat
    BY KvmAssumption
  <2>2. s \in Seq(0 .. 255) /\ Len(s) = Rounds /\ \A k \in 1 .. Rounds : s[k] = (64 + k) % 256
    BY <2>1
  <2>3. Meant = s \o <<10>>
    BY <1>2 DEF Meant, NL
  <2> HIDE DEF s
  <2>4. <<10>> \in Seq(0 .. 255) /\ Len(<<10>>) = 1 /\ <<10>>[1] = 10
    OBVIOUS
  <2>5. s \o <<10>> \in Seq(0 .. 255) /\ Len(s \o <<10>>) = Rounds + 1
    BY <2>1, <2>2, <2>4, Parts
  <2>6. (s \o <<10>>)[Rounds + 1] = 10 /\ \A k \in 1 .. Rounds : (s \o <<10>>)[k] = s[k]
    BY <2>1, <2>2, <2>4, Parts
  <2> QED BY <1>2, <2>2, <2>3, <2>5, <2>6 DEF NL, Others
<1>3. CASE guest = "hello"
  BY <1>3, KvmAssumption DEF Meant, Others
<1>4. CASE guest \in Others
  BY <1>4 DEF Meant, Others
<1> QED BY <1>1, <1>2, <1>3, <1>4 DEF KvmTypes, Guests, Others

\* The cells of the page that the guests get to.
LEMMA AddCells ==
    ASSUME guest \in {"add", "long"}, mem = Loaded
    PROVE  /\ mem[0] = <<"mov_dx", Port>> /\ mem[1] = <<"add_al_bl">> /\ mem[2] = <<"add_al", 48>>
           /\ mem[3] = <<"out">> /\ mem[4] = <<"mov_al", NL>> /\ mem[5] = <<"out">> /\ mem[6] = <<"hlt">>
<1>1. MemSize \in Nat /\ MemSize > 10
  BY KvmAssumption
<1>2. Len(add) = 7
  BY DEF add
<1>3. Len(Code) \in Nat /\ Len(Code) >= 7 /\ \A k \in 1 .. 7 : Code[k] = add[k]
  <2>1. CASE guest = "add"
    <3>1. Code = add
      BY <2>1 DEF Code
    <3>2. Len(Code) = 7 /\ \A k \in 1 .. 7 : Code[k] = add[k]
      BY <1>2, <3>1, Zenon
    <3> QED BY <3>2
  <2>2. CASE guest = "long"
    <3> DEFINE tail == [k \in 1 .. MemSize |-> <<"db", 0>>]
               S == {<<"mov_dx", Port>>, <<"add_al_bl">>, <<"add_al", 48>>, <<"out">>,
                     <<"mov_al", NL>>, <<"hlt">>, <<"db", 0>>}
    <3>1. <<"db", 0>> \in S
      OBVIOUS
    <3>2. add \in Seq(S)
      <4>1. /\ <<"mov_dx", Port>> \in S /\ <<"add_al_bl">> \in S /\ <<"add_al", 48>> \in S
            /\ <<"out">> \in S /\ <<"mov_al", NL>> \in S /\ <<"hlt">> \in S
        OBVIOUS
      <4> HIDE DEF S
      <4> QED BY <4>1, Seven DEF add
    <3> HIDE DEF S
    <3>3. tail \in Seq(S) /\ Len(tail) = MemSize
      BY <1>1, <3>1
    <3>4. Code = add \o tail
      BY <2>2 DEF Code, long
    <3> HIDE DEF tail
    <3>5. Len(add \o tail) = Len(add) + Len(tail) /\ \A k \in 1 .. Len(add) : (add \o tail)[k] = add[k]
      <4>1. add \in Seq(S) /\ tail \in Seq(S)
        BY <3>2, <3>3
      <4> QED BY <4>1, Parts
    <3>6. Len(Code) = 7 + MemSize /\ \A k \in 1 .. 7 : Code[k] = add[k]
      BY <1>2, <3>3, <3>4, <3>5, Zenon
    <3> QED BY <1>1, <3>6
  <2> QED BY <2>1, <2>2
<1>4. \A a \in 0 .. 6 : mem[a] = Code[a + 1]
  BY <1>1, <1>3 DEF Loaded
<1>5. mem[0] = add[1] /\ mem[1] = add[2] /\ mem[2] = add[3] /\ mem[3] = add[4]
      /\ mem[4] = add[5] /\ mem[5] = add[6] /\ mem[6] = add[7]
  BY <1>3, <1>4
<1> QED BY <1>5 DEF add

\* What the page holds while loop.asm runs.
LEMMA LoopCells ==
    ASSUME guest = "loop", mem = Loaded
    PROVE  /\ mem[0] = <<"mov_dx", Port>> /\ mem[1] = <<"mov_cx", Rounds>> /\ mem[2] = <<"mov_al", 65>>
           /\ mem[3] = <<"out">> /\ mem[4] = <<"inc_al">> /\ mem[5] = <<"loop", 3>>
           /\ mem[6] = <<"mov_al", NL>> /\ mem[7] = <<"out">> /\ mem[8] = <<"hlt">>
<1>1. MemSize \in Nat /\ MemSize > 10
  BY KvmAssumption
<1>2. Code = loop
  BY DEF Code
<1>3. Len(loop) = 9
  BY DEF loop
<1>4. \A a \in 0 .. 8 : mem[a] = loop[a + 1]
  BY <1>1, <1>2, <1>3 DEF Loaded
<1>5. mem[0] = loop[1] /\ mem[1] = loop[2] /\ mem[2] = loop[3] /\ mem[3] = loop[4]
      /\ mem[4] = loop[5] /\ mem[5] = loop[6] /\ mem[6] = loop[7] /\ mem[7] = loop[8]
      /\ mem[8] = loop[9]
  BY <1>4
<1> QED BY <1>5 DEF loop

\* What the page holds while hello.asm runs.
LEMMA HelloCells ==
    ASSUME guest = "hello", mem = Loaded
    PROVE  /\ mem[0] = <<"mov_dx", Port>> /\ mem[1] = <<"mov_si", 8>> /\ mem[2] = <<"mov_cx", Len(String)>>
           /\ mem[3] = <<"mov_al_si">> /\ mem[4] = <<"out">> /\ mem[5] = <<"inc_si">>
           /\ mem[6] = <<"loop", 3>> /\ mem[7] = <<"hlt">>
           /\ \A k \in 1 .. Len(String) : mem[7 + k] = <<"db", String[k]>>
<1> DEFINE code == << <<"mov_dx", Port>>, <<"mov_si", 8>>, <<"mov_cx", Len(String)>>,
                      <<"mov_al_si">>, <<"out">>, <<"inc_si">>, <<"loop", 3>>, <<"hlt">> >>
           data == [k \in DOMAIN String |-> <<"db", String[k]>>]
<1>1. /\ MemSize \in Nat /\ Len(String) \in Nat /\ MemSize > Len(String) + 10
      /\ String \in Seq(0 .. 255) /\ DOMAIN String = 1 .. Len(String)
  BY KvmAssumption
<1> DEFINE S == {<<"mov_dx", Port>>, <<"mov_si", 8>>, <<"mov_cx", Len(String)>>,
                 <<"mov_al_si">>, <<"out">>, <<"inc_si">>, <<"loop", 3>>, <<"hlt">>}
                \cup {<<"db", x>> : x \in 0 .. 255}
<1>2. code \in Seq(S) /\ Len(code) = 8
  <2>1. /\ <<"mov_dx", Port>> \in S /\ <<"mov_si", 8>> \in S /\ <<"mov_cx", Len(String)>> \in S
        /\ <<"mov_al_si">> \in S /\ <<"out">> \in S /\ <<"inc_si">> \in S /\ <<"loop", 3>> \in S
        /\ <<"hlt">> \in S
    OBVIOUS
  <2> HIDE DEF S
  <2>2. code \in Seq(S)
    BY <2>1, Eight
  <2>3. Len(code) = 8
    OBVIOUS
  <2> QED BY <2>2, <2>3
<1>3. data \in Seq(S) /\ Len(data) = Len(String)
      /\ \A k \in 1 .. Len(String) : data[k] = <<"db", String[k]>>
  <2>1. \A k \in 1 .. Len(String) : String[k] \in 0 .. 255
    BY <1>1, Elements
  <2>2. \A k \in 1 .. Len(String) : <<"db", String[k]>> \in S
    BY <2>1
  <2> HIDE DEF S
  <2> QED BY <1>1, <2>2
<1>4. Code = code \o data
  BY DEF Code, hello
<1>5. /\ code[1] = <<"mov_dx", Port>> /\ code[2] = <<"mov_si", 8>> /\ code[3] = <<"mov_cx", Len(String)>>
      /\ code[4] = <<"mov_al_si">> /\ code[5] = <<"out">> /\ code[6] = <<"inc_si">>
      /\ code[7] = <<"loop", 3>> /\ code[8] = <<"hlt">>
  OBVIOUS
<1> HIDE DEF code, data, S
<1>6. /\ Len(code \o data) = 8 + Len(String)
      /\ \A k \in 1 .. 8 : (code \o data)[k] = code[k]
      /\ \A k \in 1 .. Len(String) : (code \o data)[8 + k] = data[k]
  <2>1. /\ Len(code \o data) = Len(code) + Len(data)
        /\ \A k \in 1 .. Len(code) : (code \o data)[k] = code[k]
        /\ \A k \in 1 .. Len(data) : (code \o data)[Len(code) + k] = data[k]
    <3>1. code \in Seq(S) /\ data \in Seq(S)
      BY <1>2, <1>3
    <3> QED BY <3>1, Parts
  <2> QED BY <1>2, <1>3, <2>1, Zenon
<1> DEFINE whole == code \o data
<1>7. /\ Len(whole) = 8 + Len(String) /\ \A k \in 1 .. 8 : whole[k] = code[k]
      /\ \A k \in 1 .. Len(String) : whole[8 + k] = data[k]
  BY <1>6
<1>8. mem = [a \in 0 .. MemSize - 1 |-> IF a < Len(whole) THEN whole[a + 1] ELSE Zero]
  BY <1>4 DEF Loaded
<1> HIDE DEF whole
<1>9. \A a \in 0 .. 7 + Len(String) : mem[a] = whole[a + 1]
  BY <1>1, <1>7, <1>8
<1>10. mem[0] = code[1] /\ mem[1] = code[2] /\ mem[2] = code[3] /\ mem[3] = code[4]
      /\ mem[4] = code[5] /\ mem[5] = code[6] /\ mem[6] = code[7] /\ mem[7] = code[8]
  BY <1>1, <1>7, <1>9
<1>11. \A k \in 1 .. Len(String) : mem[7 + k] = data[k]
  <2> SUFFICES ASSUME NEW k \in 1 .. Len(String)
               PROVE  mem[7 + k] = data[k]
    OBVIOUS
  <2>1. mem[7 + k] = whole[(7 + k) + 1]
    BY <1>1, <1>9
  <2> QED BY <1>1, <1>7, <2>1
<1> QED BY <1>3, <1>5, <1>10, <1>11

\* What the page holds while a guest runs that does not print: its access is
\* to another port or is not the writing of one byte.
LEMMA OtherCells ==
    ASSUME guest \in Others, mem = Loaded
    PROVE  \E p \in {"other", Port}, op \in {"out", "out_ax", "in", "rep_outsb"} :
              /\ mem[0] = <<"mov_dx", p>> /\ mem[1] = <<op>>
              /\ guest = "other" => p = "other"
              /\ op = "out" => guest = "other"
<1>1. MemSize \in Nat /\ MemSize > 10
  BY KvmAssumption
<1>2. PICK p \in {"other", Port}, op \in {"out", "out_ax", "in", "rep_outsb"} :
        Code = foreign(p, op) /\ (guest = "other" => p = "other") /\ (op = "out" => guest = "other")
  BY DEF Code, Others
<1>3. Len(foreign(p, op)) = 3 /\ foreign(p, op)[1] = <<"mov_dx", p>> /\ foreign(p, op)[2] = <<op>>
  BY DEF foreign
<1>4. mem[0] = <<"mov_dx", p>> /\ mem[1] = <<op>>
  BY <1>1, <1>2, <1>3 DEF Loaded
<1> QED BY <1>2, <1>4

\* The registers with those that an instruction sets.
SetRegs(ip, dx, al, cx, si) ==
    [cs |-> regs.cs, ip |-> ip, dx |-> dx, al |-> al, bl |-> regs.bl, cx |-> cx, si |-> si]

\* What an instruction does to the registers.
LEMMA OnExecute ==
    ASSUME regs \in Regs, Execute
    PROVE  /\ Insn[1] = "mov_dx" => regs' = SetRegs(regs.ip + 1, Insn[2], regs.al, regs.cx, regs.si)
           /\ Insn[1] = "mov_cx" => regs' = SetRegs(regs.ip + 1, regs.dx, regs.al, Insn[2], regs.si)
           /\ Insn[1] = "mov_si" => regs' = SetRegs(regs.ip + 1, regs.dx, regs.al, regs.cx, Insn[2])
           /\ Insn[1] = "mov_al" => regs' = SetRegs(regs.ip + 1, regs.dx, Insn[2], regs.cx, regs.si)
           /\ Insn[1] = "add_al_bl" =>
                regs' = SetRegs(regs.ip + 1, regs.dx, (regs.al + regs.bl) % 256, regs.cx, regs.si)
           /\ Insn[1] = "add_al" =>
                regs' = SetRegs(regs.ip + 1, regs.dx, (regs.al + Insn[2]) % 256, regs.cx, regs.si)
           /\ Insn[1] = "inc_al" => regs' = SetRegs(regs.ip + 1, regs.dx, (regs.al + 1) % 256, regs.cx, regs.si)
           /\ Insn[1] = "inc_si" => regs' = SetRegs(regs.ip + 1, regs.dx, regs.al, regs.cx, regs.si + 1)
           /\ Insn[1] = "mov_al_si" =>
                regs' = SetRegs(regs.ip + 1, regs.dx, mem[regs.si - base][2], regs.cx, regs.si)
           /\ Insn[1] = "loop" =>
                regs' = SetRegs(IF regs.cx = 1 THEN regs.ip + 1 ELSE base + Insn[2],
                            regs.dx, regs.al, regs.cx - 1, regs.si)
           /\ Insn[1] \notin {"out", "out_ax", "in", "rep_outsb", "hlt"}
<1> DEFINE next == [regs EXCEPT !.ip = @ + 1]
<1>0. next = SetRegs(regs.ip + 1, regs.dx, regs.al, regs.cx, regs.si)
  BY DEF Regs, SetRegs
<1>1. CASE Insn[1] = "mov_dx" /\ regs' = [next EXCEPT !.dx = Insn[2]]
  BY <1>0, <1>1 DEF SetRegs
<1>2. CASE Insn[1] = "mov_cx" /\ regs' = [next EXCEPT !.cx = Insn[2]]
  BY <1>0, <1>2 DEF SetRegs
<1>3. CASE Insn[1] = "mov_si" /\ regs' = [next EXCEPT !.si = Insn[2]]
  BY <1>0, <1>3 DEF SetRegs
<1>4. CASE Insn[1] = "mov_al" /\ regs' = [next EXCEPT !.al = Insn[2]]
  BY <1>0, <1>4 DEF SetRegs
<1>5. CASE Insn[1] = "add_al_bl" /\ regs' = [next EXCEPT !.al = (@ + regs.bl) % 256]
  BY <1>0, <1>5 DEF SetRegs
<1>6. CASE Insn[1] = "add_al" /\ regs' = [next EXCEPT !.al = (@ + Insn[2]) % 256]
  <2>1. next.al = regs.al
    BY <1>0 DEF SetRegs
  <2>2. regs' = [next EXCEPT !.al = (regs.al + Insn[2]) % 256]
    BY <1>6, <2>1, Zenon
  <2>3. PICK x : x = (regs.al + Insn[2]) % 256
    OBVIOUS
  <2> HIDE DEF next
  <2>4. [next EXCEPT !.al = x] = SetRegs(regs.ip + 1, regs.dx, x, regs.cx, regs.si)
    BY <1>0 DEF SetRegs
  <2> QED BY <1>6, <2>2, <2>3, <2>4
<1>7. CASE Insn[1] = "inc_al" /\ regs' = [next EXCEPT !.al = (@ + 1) % 256]
  BY <1>0, <1>7 DEF SetRegs
<1>8. CASE Insn[1] = "inc_si" /\ regs' = [next EXCEPT !.si = @ + 1]
  BY <1>0, <1>8 DEF SetRegs
<1>9. CASE Insn[1] = "mov_al_si" /\ regs' = [next EXCEPT !.al = mem[regs.si - base][2]]
  BY <1>0, <1>9 DEF SetRegs
<1>10. CASE /\ Insn[1] = "loop"
            /\ regs' = [next EXCEPT !.cx = @ - 1, !.ip = IF regs.cx = 1 THEN @ ELSE base + Insn[2]]
  BY <1>0, <1>10 DEF SetRegs
<1> HIDE DEF next
<1> QED BY <1>1, <1>2, <1>3, <1>4, <1>5, <1>6, <1>7, <1>8, <1>9, <1>10 DEF Execute, next

\* Additions modulo 256, as al makes them.
LEMMA Wraps ==
    ASSUME NEW x \in Nat
    PROVE  x % 256 \in 0 .. 255 /\ ((x % 256) + 1) % 256 = (x + 1) % 256
  OBVIOUS

\* The sums that follow a count c that runs from R down to 1.
LEMMA Counts ==
    ASSUME NEW R \in Nat \ {0}, NEW c \in 1 .. R
    PROVE  /\ c \in Nat /\ c - 1 \in Nat /\ (c # 1 => c - 1 \in 1 .. R) /\ R - c \in Nat
           /\ 65 + R - c \in Nat /\ 66 + R - c \in Nat /\ (65 + R - c) + 1 = 66 + R - c
           /\ R - c + 1 \in 1 .. R /\ R - c + 1 = R - (c - 1) /\ (c = 1 => R - c + 1 = R)
           /\ 66 + R - c = 65 + R - (c - 1)
           /\ (8 + (R - c)) - 0 = 7 + (R - c + 1) /\ 8 + (R - c + 1) = 9 + (R - c)
  OBVIOUS

\* The guests that add two digits go from one instruction to the next.
LEMMA AddStep ==
    ASSUME KvmTypes, guest \in {"add", "long"}, mem = Loaded, base = Start,
           NEW n \in Nat, AddAt(regs, n)
    PROVE  /\ Execute => regs' \in Regs /\ AddAt(regs', n)
           /\ Insn[1] = "out" => /\ regs.dx = Port /\ n < 2 /\ AddAt([regs EXCEPT !.ip = @ + 1], n + 1)
                                 /\ regs.al = IF n = 0 THEN 52 ELSE NL
           /\ Insn[1] = "hlt" => n = 2
<1>0. base \in Nat /\ MemSize \in Nat /\ regs \in Regs
  BY KvmAssumption DEF Start, KvmTypes
<1>c. /\ mem[0] = <<"mov_dx", Port>> /\ mem[1] = <<"add_al_bl">> /\ mem[2] = <<"add_al", 48>>
      /\ mem[3] = <<"out">> /\ mem[4] = <<"mov_al", NL>> /\ mem[5] = <<"out">> /\ mem[6] = <<"hlt">>
  BY AddCells
<1>1. CASE regs.ip = Start /\ n = 0 /\ regs.al = 2 /\ regs.bl = 2
  <2>1. Insn = <<"mov_dx", Port>>
    BY <1>0, <1>c, <1>1 DEF Insn
  <2>2. ASSUME Execute PROVE regs' = SetRegs(regs.ip + 1, Port, regs.al, regs.cx, regs.si)
    BY <1>0, <1>1, <2>1, <2>2, OnExecute
  <2>3. Execute => regs' \in Regs
    BY <1>0, <1>1, <2>2 DEF SetRegs, Regs
  <2>4. Execute => AddAt(regs', n)
    BY <1>0, <1>1, <2>2 DEF SetRegs, AddAt
  <2> QED BY <2>1, <2>3, <2>4
<1>2. CASE regs.ip = Start + 1 /\ n = 0 /\ regs.dx = Port /\ regs.al = 2 /\ regs.bl = 2
  <2>1. Insn = <<"add_al_bl">>
    BY <1>0, <1>c, <1>2 DEF Insn
  <2>2. ASSUME Execute PROVE regs' = SetRegs(regs.ip + 1, regs.dx, 4, regs.cx, regs.si)
    BY <1>0, <1>2, <2>1, <2>2, OnExecute
  <2>3. Execute => regs' \in Regs
    BY <1>0, <1>2, <2>2 DEF SetRegs, Regs
  <2>4. Execute => AddAt(regs', n)
    BY <1>0, <1>2, <2>2 DEF SetRegs, AddAt
  <2> QED BY <2>1, <2>3, <2>4
<1>3. CASE regs.ip = Start + 2 /\ n = 0 /\ regs.dx = Port /\ regs.al = 4
  <2>1. Insn = <<"add_al", 48>>
    BY <1>0, <1>c, <1>3 DEF Insn
  <2>2. ASSUME Execute PROVE regs' = SetRegs(regs.ip + 1, regs.dx, 52, regs.cx, regs.si)
    BY <1>0, <1>3, <2>1, <2>2, OnExecute
  <2>3. Execute => regs' \in Regs
    BY <1>0, <1>3, <2>2 DEF SetRegs, Regs
  <2>4. Execute => AddAt(regs', n)
    BY <1>0, <1>3, <2>2 DEF SetRegs, AddAt
  <2> QED BY <2>1, <2>3, <2>4
<1>4. CASE regs.ip = Start + 3 /\ n = 0 /\ regs.dx = Port /\ regs.al = 52
  <2>1. Insn = <<"out">>
    BY <1>0, <1>c, <1>4 DEF Insn
  <2>2. ~Execute
    BY <1>0, <2>1, OnExecute
  <2>3. AddAt([regs EXCEPT !.ip = @ + 1], n + 1)
    BY <1>0, <1>4 DEF Regs, AddAt
  <2> QED BY <1>0, <1>4, <2>1, <2>2, <2>3
<1>5. CASE regs.ip = Start + 4 /\ n = 1 /\ regs.dx = Port
  <2>1. Insn = <<"mov_al", NL>>
    BY <1>0, <1>c, <1>5 DEF Insn
  <2>2. ASSUME Execute PROVE regs' = SetRegs(regs.ip + 1, regs.dx, NL, regs.cx, regs.si)
    BY <1>0, <1>5, <2>1, <2>2, OnExecute
  <2>3. Execute => regs' \in Regs
    BY <1>0, <1>5, <2>2 DEF SetRegs, Regs, NL
  <2>4. Execute => AddAt(regs', n)
    BY <1>0, <1>5, <2>2 DEF SetRegs, AddAt
  <2> QED BY <2>1, <2>3, <2>4
<1>6. CASE regs.ip = Start + 5 /\ n = 1 /\ regs.dx = Port /\ regs.al = NL
  <2>1. Insn = <<"out">>
    BY <1>0, <1>c, <1>6 DEF Insn
  <2>2. ~Execute
    BY <1>0, <2>1, OnExecute
  <2>3. AddAt([regs EXCEPT !.ip = @ + 1], n + 1)
    BY <1>0, <1>6 DEF Regs, AddAt
  <2> QED BY <1>0, <1>6, <2>1, <2>2, <2>3
<1>7. CASE regs.ip = Start + 6 /\ n = 2
  <2>1. Insn = <<"hlt">>
    BY <1>0, <1>c, <1>7 DEF Insn
  <2>2. ~Execute
    BY <1>0, <2>1, OnExecute
  <2> QED BY <1>7, <2>1, <2>2
<1> QED BY <1>1, <1>2, <1>3, <1>4, <1>5, <1>6, <1>7 DEF AddAt

\* loop.asm goes from one of its instructions to the next.
LEMMA LoopStep ==
    ASSUME KvmTypes, guest = "loop", mem = Loaded, base = Start,
           NEW n \in Nat, LoopAt(regs, n)
    PROVE  /\ Execute => regs' \in Regs /\ LoopAt(regs', n)
           /\ Insn[1] = "out" => /\ regs.dx = Port /\ n < Rounds + 1
                                 /\ LoopAt([regs EXCEPT !.ip = @ + 1], n + 1)
                                 /\ regs.al = IF n < Rounds THEN (65 + n) % 256 ELSE NL
           /\ Insn[1] = "hlt" => n = Rounds + 1
<1>0. base \in Nat /\ MemSize \in Nat /\ regs \in Regs
  BY KvmAssumption DEF Start, KvmTypes
<1>b. base = 0 /\ Rounds \in Nat \ {0}
  BY KvmAssumption DEF KvmTypes, Start
<1>c. /\ base = 0 /\ Rounds \in Nat \ {0}
      /\ mem[0] = <<"mov_dx", Port>> /\ mem[1] = <<"mov_cx", Rounds>> /\ mem[2] = <<"mov_al", 65>>
      /\ mem[3] = <<"out">> /\ mem[4] = <<"inc_al">> /\ mem[5] = <<"loop", 3>>
      /\ mem[6] = <<"mov_al", NL>> /\ mem[7] = <<"out">> /\ mem[8] = <<"hlt">>
  BY <1>b, LoopCells
<1>1. CASE regs.ip = 0 /\ n = 0
  <2>1. Insn = <<"mov_dx", Port>>
    BY <1>0, <1>c, <1>1 DEF Insn
  <2>2. ASSUME Execute PROVE regs' = SetRegs(regs.ip + 1, Port, regs.al, regs.cx, regs.si)
    BY <1>0, <1>b, <1>1, <2>1, <2>2, OnExecute
  <2>3. Execute => regs' \in Regs
    BY <1>0, <1>b, <1>1, <2>2 DEF SetRegs, Regs
  <2>4. Execute => LoopAt(regs', n)
    BY <1>0, <1>b, <1>1, <2>2 DEF SetRegs, LoopAt
  <2> QED BY <2>1, <2>3, <2>4
<1>2. CASE regs.ip = 1 /\ n = 0 /\ regs.dx = Port
  <2>1. Insn = <<"mov_cx", Rounds>>
    BY <1>0, <1>c, <1>2 DEF Insn
  <2>2. ASSUME Execute PROVE regs' = SetRegs(regs.ip + 1, regs.dx, regs.al, Rounds, regs.si)
    BY <1>0, <1>b, <1>2, <2>1, <2>2, OnExecute
  <2>3. Execute => regs' \in Regs
    BY <1>0, <1>b, <1>2, <2>2 DEF SetRegs, Regs
  <2>4. Execute => LoopAt(regs', n)
    BY <1>0, <1>b, <1>2, <2>2 DEF SetRegs, LoopAt
  <2> QED BY <2>1, <2>3, <2>4
<1>3. CASE regs.ip = 2 /\ n = 0 /\ regs.dx = Port /\ regs.cx = Rounds
  <2>1. Insn = <<"mov_al", 65>>
    BY <1>0, <1>c, <1>3 DEF Insn
  <2>2. ASSUME Execute PROVE regs' = SetRegs(regs.ip + 1, regs.dx, 65, regs.cx, regs.si)
    BY <1>0, <1>b, <1>3, <2>1, <2>2, OnExecute
  <2>3. Execute => regs' \in Regs
    BY <1>0, <1>b, <1>3, <2>2 DEF SetRegs, Regs
  <2>4. Execute => LoopAt(regs', n)
    BY <1>0, <1>b, <1>3, <2>2 DEF SetRegs, LoopAt
  <2> QED BY <2>1, <2>3, <2>4
<1>4. CASE /\ regs.dx = Port /\ regs.cx \in 1 .. Rounds /\ regs.ip = 3
           /\ n = Rounds - regs.cx /\ regs.al = (65 + Rounds - regs.cx) % 256
  <2>0. regs.ip - base = 3
    BY <1>c, <1>4
  <2>1. Insn = <<"out">>
    BY <1>c, <2>0 DEF Insn
  <2>2. ~Execute
    BY <1>0, <2>1, OnExecute
  <2>3. LoopAt([regs EXCEPT !.ip = @ + 1], n + 1)
    BY <1>0, <1>b, <1>4 DEF Regs, LoopAt
  <2> QED BY <1>0, <1>b, <1>4, <2>1, <2>2, <2>3
<1>5. CASE /\ regs.dx = Port /\ regs.cx \in 1 .. Rounds /\ regs.ip = 4
           /\ n = Rounds - regs.cx + 1 /\ regs.al = (65 + Rounds - regs.cx) % 256
  <2>0. regs.ip - base = 4
    BY <1>c, <1>5
  <2>1. Insn = <<"inc_al">>
    BY <1>c, <2>0 DEF Insn
  <2>2. regs.al \in 0 .. 255 /\ (regs.al + 1) % 256 = (66 + Rounds - regs.cx) % 256
    <3>1. 65 + Rounds - regs.cx \in Nat /\ (65 + Rounds - regs.cx) + 1 = 66 + Rounds - regs.cx
      BY <1>b, <1>5, Counts, Zenon
    <3>2. (65 + Rounds - regs.cx) % 256 \in 0 .. 255
          /\ (((65 + Rounds - regs.cx) % 256) + 1) % 256 = ((65 + Rounds - regs.cx) + 1) % 256
      BY <3>1, Wraps, Zenon
    <3>3. regs.al = (65 + Rounds - regs.cx) % 256
      BY <1>5
    <3>4. (regs.al + 1) % 256 = ((65 + Rounds - regs.cx) + 1) % 256
      BY <3>2, <3>3, Zenon
    <3> QED BY <3>1, <3>2, <3>3, <3>4, Zenon
  <2>3. ASSUME Execute PROVE regs' = SetRegs(5, regs.dx, (66 + Rounds - regs.cx) % 256, regs.cx, regs.si)
    BY <1>0, <1>5, <2>1, <2>2, <2>3, OnExecute
  <2>4. (66 + Rounds - regs.cx) % 256 \in 0 .. 255
    <3>1. 66 + Rounds - regs.cx \in Nat
      BY <1>b, <1>5, Counts, Zenon
    <3> QED BY <3>1, Wraps, Zenon
  <2>5. Execute => regs' \in Regs
    BY <1>0, <2>3, <2>4 DEF SetRegs, Regs
  <2>6. Execute => LoopAt(regs', n)
    BY <1>0, <1>b, <1>5, <2>3 DEF SetRegs, LoopAt
  <2> QED BY <2>1, <2>5, <2>6
<1>6. CASE /\ regs.dx = Port /\ regs.cx \in 1 .. Rounds /\ regs.ip = 5
           /\ n = Rounds - regs.cx + 1 /\ regs.al = (66 + Rounds - regs.cx) % 256
  <2>0. regs.ip - base = 5
    BY <1>c, <1>6
  <2>1. Insn = <<"loop", 3>>
    BY <1>c, <2>0 DEF Insn
  <2>2. ASSUME Execute
        PROVE  regs' = SetRegs(IF regs.cx = 1 THEN 6 ELSE 3, regs.dx, regs.al, regs.cx - 1, regs.si)
    BY <1>0, <1>c, <1>6, <2>1, <2>2, OnExecute
  <2>3. regs.cx \in Nat /\ regs.cx - 1 \in Nat /\ (regs.cx # 1 => regs.cx - 1 \in 1 .. Rounds)
    BY <1>b, <1>6, Counts, Zenon
  <2>4. Execute => regs' \in Regs
    BY <1>0, <2>2, <2>3 DEF SetRegs, Regs
  <2>5. CASE regs.cx = 1
    <3>1. n = Rounds
      BY <1>b, <1>6, <2>5
    <3> QED BY <1>0, <1>6, <2>1, <2>2, <2>4, <2>5, <3>1 DEF SetRegs, LoopAt
  <2>6. CASE regs.cx # 1
    <3>a. Rounds - regs.cx + 1 = Rounds - (regs.cx - 1)
      BY <1>b, <1>6, Counts, Zenon
    <3>b. 66 + Rounds - regs.cx = 65 + Rounds - (regs.cx - 1)
      BY <1>b, <1>6, Counts, Zenon
    <3>1. n = Rounds - (regs.cx - 1) /\ 66 + Rounds - regs.cx = 65 + Rounds - (regs.cx - 1)
      BY <1>6, <3>a, <3>b, Zenon
    <3>2. regs.al = (65 + Rounds - (regs.cx - 1)) % 256
      BY <1>6, <3>1, Zenon
    <3>3. ASSUME Execute
          PROVE  regs'.dx = Port /\ regs'.cx = regs.cx - 1 /\ regs'.ip = 3 /\ regs'.al = regs.al
      BY <1>6, <2>2, <2>6, <3>3 DEF SetRegs
    <3>4. Execute => LoopAt(regs', n)
      BY <2>3, <2>6, <3>1, <3>2, <3>3, Zenon DEF LoopAt
    <3> QED BY <2>1, <2>4, <3>4
  <2> QED BY <2>5, <2>6
<1>7. CASE regs.ip = 6 /\ n = Rounds /\ regs.dx = Port
  <2>1. Insn = <<"mov_al", NL>>
    BY <1>0, <1>c, <1>7 DEF Insn
  <2>2. ASSUME Execute PROVE regs' = SetRegs(regs.ip + 1, regs.dx, NL, regs.cx, regs.si)
    BY <1>0, <1>b, <1>7, <2>1, <2>2, OnExecute
  <2>3. Execute => regs' \in Regs
    BY <1>0, <1>b, <1>7, <2>2 DEF SetRegs, Regs, NL
  <2>4. Execute => LoopAt(regs', n)
    BY <1>0, <1>b, <1>7, <2>2 DEF SetRegs, LoopAt
  <2> QED BY <2>1, <2>3, <2>4
<1>8. CASE regs.ip = 7 /\ n = Rounds /\ regs.dx = Port /\ regs.al = NL
  <2>1. Insn = <<"out">>
    BY <1>0, <1>c, <1>8 DEF Insn
  <2>2. ~Execute
    BY <1>0, <2>1, OnExecute
  <2>3. LoopAt([regs EXCEPT !.ip = @ + 1], n + 1)
    BY <1>0, <1>b, <1>8 DEF Regs, LoopAt
  <2> QED BY <1>0, <1>b, <1>8, <2>1, <2>2, <2>3
<1>9. CASE regs.ip = 8 /\ n = Rounds + 1
  <2>1. Insn = <<"hlt">>
    BY <1>0, <1>c, <1>9 DEF Insn
  <2>2. ~Execute
    BY <1>0, <2>1, OnExecute
  <2> QED BY <1>9, <2>1, <2>2
<1> QED BY <1>1, <1>2, <1>3, <1>4, <1>5, <1>6, <1>7, <1>8, <1>9 DEF LoopAt

\* hello.asm goes from one of its instructions to the next.
LEMMA HelloStep ==
    ASSUME KvmTypes, guest = "hello", mem = Loaded, base = Start,
           NEW n \in Nat, HelloAt(regs, n)
    PROVE  /\ Execute => regs' \in Regs /\ HelloAt(regs', n)
           /\ Insn[1] = "out" => /\ regs.dx = Port /\ n < Len(String)
                                 /\ HelloAt([regs EXCEPT !.ip = @ + 1], n + 1)
                                 /\ regs.al = String[n + 1]
           /\ Insn[1] = "hlt" => n = Len(String)
<1>0. base \in Nat /\ MemSize \in Nat /\ regs \in Regs
  BY KvmAssumption DEF Start, KvmTypes
<1>b. base = 0 /\ Len(String) \in Nat \ {0} /\ \A k \in 1 .. Len(String) : String[k] \in 0 .. 255
  <2>1. base = 0
    BY DEF KvmTypes, Start
  <2>2. String \in Seq(0 .. 255) /\ Len(String) \in Nat \ {0}
    BY KvmAssumption
  <2> QED BY <2>1, <2>2, Elements
<1>c. /\ base = 0
      /\ mem[0] = <<"mov_dx", Port>> /\ mem[1] = <<"mov_si", 8>> /\ mem[2] = <<"mov_cx", Len(String)>>
      /\ mem[3] = <<"mov_al_si">> /\ mem[4] = <<"out">> /\ mem[5] = <<"inc_si">>
      /\ mem[6] = <<"loop", 3>> /\ mem[7] = <<"hlt">>
      /\ \A k \in 1 .. Len(String) : mem[7 + k] = <<"db", String[k]>>
  BY <1>b, HelloCells
<1>1. CASE regs.ip = 0 /\ n = 0
  <2>1. Insn = <<"mov_dx", Port>>
    BY <1>0, <1>c, <1>1 DEF Insn
  <2>2. ASSUME Execute PROVE regs' = SetRegs(regs.ip + 1, Port, regs.al, regs.cx, regs.si)
    BY <1>0, <1>b, <1>1, <2>1, <2>2, OnExecute
  <2>3. Execute => regs' \in Regs
    BY <1>0, <1>b, <1>1, <2>2 DEF SetRegs, Regs
  <2>4. Execute => HelloAt(regs', n)
    BY <1>0, <1>b, <1>1, <2>2 DEF SetRegs, HelloAt
  <2> QED BY <2>1, <2>3, <2>4
<1>2. CASE regs.ip = 1 /\ n = 0 /\ regs.dx = Port
  <2>1. Insn = <<"mov_si", 8>>
    BY <1>0, <1>c, <1>2 DEF Insn
  <2>2. ASSUME Execute PROVE regs' = SetRegs(regs.ip + 1, regs.dx, regs.al, regs.cx, 8)
    BY <1>0, <1>b, <1>2, <2>1, <2>2, OnExecute
  <2>3. Execute => regs' \in Regs
    BY <1>0, <1>b, <1>2, <2>2 DEF SetRegs, Regs
  <2>4. Execute => HelloAt(regs', n)
    BY <1>0, <1>b, <1>2, <2>2 DEF SetRegs, HelloAt
  <2> QED BY <2>1, <2>3, <2>4
<1>3. CASE regs.ip = 2 /\ n = 0 /\ regs.dx = Port /\ regs.si = 8
  <2>1. Insn = <<"mov_cx", Len(String)>>
    BY <1>0, <1>c, <1>3 DEF Insn
  <2>2. ASSUME Execute PROVE regs' = SetRegs(regs.ip + 1, regs.dx, regs.al, Len(String), regs.si)
    BY <1>0, <1>b, <1>3, <2>1, <2>2, OnExecute
  <2>3. Execute => regs' \in Regs
    BY <1>0, <1>b, <1>3, <2>2 DEF SetRegs, Regs
  <2>4. Execute => HelloAt(regs', n)
    BY <1>0, <1>b, <1>3, <2>2 DEF SetRegs, HelloAt
  <2> QED BY <2>1, <2>3, <2>4
<1>4. CASE /\ regs.dx = Port /\ regs.cx \in 1 .. Len(String) /\ regs.ip = 3
           /\ n = Len(String) - regs.cx /\ regs.si = 8 + n
  <2>0. regs.ip - base = 3
    BY <1>c, <1>4
  <2>1. Insn = <<"mov_al_si">>
    BY <1>c, <2>0 DEF Insn
  <2>2. n + 1 \in 1 .. Len(String) /\ regs.si - base = 7 + (n + 1)
    <3>1. /\ Len(String) - regs.cx + 1 \in 1 .. Len(String)
          /\ (8 + (Len(String) - regs.cx)) - 0 = 7 + (Len(String) - regs.cx + 1)
      BY <1>b, <1>4, Counts, Zenon
    <3>2. n = Len(String) - regs.cx /\ regs.si = 8 + (Len(String) - regs.cx) /\ base = 0
      BY <1>b, <1>4, Zenon
    <3> QED BY <3>1, <3>2, Zenon
  <2>3. mem[regs.si - base][2] = String[n + 1] /\ String[n + 1] \in 0 .. 255
    <3>1. mem[7 + (n + 1)] = <<"db", String[n + 1]>>
      BY <1>c, <2>2
    <3> QED BY <1>b, <2>2, <3>1
  <2>4. ASSUME Execute PROVE regs' = SetRegs(4, regs.dx, String[n + 1], regs.cx, regs.si)
    BY <1>0, <1>4, <2>1, <2>3, <2>4, OnExecute
  <2>5. Execute => regs' \in Regs
    <3>1. PICK x \in 0 .. 255 : x = String[n + 1]
      BY <2>3
    <3>2. Execute => regs' = SetRegs(4, regs.dx, x, regs.cx, regs.si)
      BY <2>4, <3>1, Zenon
    <3>3. SetRegs(4, regs.dx, x, regs.cx, regs.si) \in Regs
      BY <1>0 DEF SetRegs, Regs
    <3> QED BY <3>2, <3>3
  <2>6. Execute => HelloAt(regs', n)
    <3>1. ASSUME Execute
          PROVE  /\ regs'.dx = Port /\ regs'.cx = regs.cx /\ regs'.ip = 4 /\ regs'.al = String[n + 1]
                 /\ regs'.si = 8 + n
      BY <1>4, <2>4, <3>1 DEF SetRegs
    <3> QED BY <1>4, <3>1, Zenon DEF HelloAt
  <2> QED BY <2>1, <2>5, <2>6
<1>5. CASE /\ regs.dx = Port /\ regs.cx \in 1 .. Len(String) /\ regs.ip = 4
           /\ n = Len(String) - regs.cx /\ regs.si = 8 + n /\ regs.al = String[n + 1]
  <2>0. regs.ip - base = 4
    BY <1>c, <1>5
  <2>1. Insn = <<"out">>
    BY <1>c, <2>0 DEF Insn
  <2>2. ~Execute
    BY <1>0, <2>1, OnExecute
  <2>3. HelloAt([regs EXCEPT !.ip = @ + 1], n + 1)
    BY <1>0, <1>b, <1>5 DEF Regs, HelloAt
  <2> QED BY <1>0, <1>b, <1>5, <2>1, <2>2, <2>3
<1>6. CASE /\ regs.dx = Port /\ regs.cx \in 1 .. Len(String) /\ regs.ip = 5
           /\ n = Len(String) - regs.cx + 1 /\ regs.si = 7 + n
  <2>0. regs.ip - base = 5
    BY <1>c, <1>6
  <2>1. Insn = <<"inc_si">>
    BY <1>c, <2>0 DEF Insn
  <2>2. ASSUME Execute PROVE regs' = SetRegs(regs.ip + 1, regs.dx, regs.al, regs.cx, 8 + n)
    BY <1>0, <1>b, <1>6, <2>1, <2>2, OnExecute
  <2>3. Execute => regs' \in Regs
    BY <1>0, <1>b, <1>6, <2>2 DEF SetRegs, Regs
  <2>4. Execute => HelloAt(regs', n)
    <3>1. n = Len(String) - regs.cx + 1 /\ 8 + n = 9 + (Len(String) - regs.cx)
      BY <1>0, <1>b, <1>6
    <3> QED BY <1>0, <1>6, <2>2, <3>1 DEF SetRegs, HelloAt
  <2> QED BY <2>1, <2>3, <2>4
<1>7. CASE /\ regs.dx = Port /\ regs.cx \in 1 .. Len(String) /\ regs.ip = 6
           /\ n = Len(String) - regs.cx + 1 /\ regs.si = 8 + n
  <2>0. regs.ip - base = 6
    BY <1>c, <1>7
  <2>1. Insn = <<"loop", 3>>
    BY <1>c, <2>0 DEF Insn
  <2>2. ASSUME Execute
        PROVE  regs' = SetRegs(IF regs.cx = 1 THEN 7 ELSE 3, regs.dx, regs.al, regs.cx - 1, regs.si)
    BY <1>0, <1>c, <1>7, <2>1, <2>2, OnExecute
  <2>3. regs.cx \in Nat /\ regs.cx - 1 \in Nat /\ (regs.cx # 1 => regs.cx - 1 \in 1 .. Len(String))
    BY <1>b, <1>7, Counts, Zenon
  <2>4. Execute => regs' \in Regs
    BY <1>0, <2>2, <2>3 DEF SetRegs, Regs
  <2>5. CASE regs.cx = 1
    <3>1. n = Len(String)
      BY <1>b, <1>7, <2>5
    <3> QED BY <1>0, <1>7, <2>1, <2>2, <2>4, <2>5, <3>1 DEF SetRegs, HelloAt
  <2>6. CASE regs.cx # 1
    <3>1. n = Len(String) - (regs.cx - 1)
      BY <1>b, <1>7, Counts, Zenon
    <3>2. ASSUME Execute
          PROVE  regs'.dx = Port /\ regs'.cx = regs.cx - 1 /\ regs'.ip = 3 /\ regs'.si = 8 + n
      BY <1>7, <2>2, <2>6, <3>2 DEF SetRegs
    <3>3. Execute => HelloAt(regs', n)
      BY <2>3, <2>6, <3>1, <3>2, Zenon DEF HelloAt
    <3> QED BY <2>1, <2>4, <3>3
  <2> QED BY <2>5, <2>6
<1>8. CASE regs.ip = 7 /\ n = Len(String)
  <2>1. Insn = <<"hlt">>
    BY <1>0, <1>c, <1>8 DEF Insn
  <2>2. ~Execute
    BY <1>0, <2>1, OnExecute
  <2> QED BY <1>8, <2>1, <2>2
<1> QED
  <2>1. \/ regs.ip = 3 /\ n = Len(String) - regs.cx     /\ regs.si = 8 + (Len(String) - regs.cx)
        \/ /\ regs.ip = 4 /\ n = Len(String) - regs.cx /\ regs.si = 8 + (Len(String) - regs.cx)
           /\ regs.al = String[Len(String) - regs.cx + 1]
        \/ regs.ip = 5 /\ n = Len(String) - regs.cx + 1 /\ regs.si = 8 + (Len(String) - regs.cx)
        \/ regs.ip = 6 /\ n = Len(String) - regs.cx + 1 /\ regs.si = 9 + (Len(String) - regs.cx)
        \/ regs.ip \in {0, 1, 2, 7}
    BY DEF HelloAt
  <2> QED BY <1>1, <1>2, <1>3, <1>4, <1>5, <1>6, <1>7, <1>8, <2>1 DEF HelloAt

\* A guest that uses a port in another way prints nothing.
LEMMA OtherStep ==
    ASSUME KvmTypes, guest \in Others, mem = Loaded, base = Start,
           NEW n \in Nat, OtherAt(regs, n)
    PROVE  /\ Execute => regs' \in Regs /\ OtherAt(regs', n)
           /\ Insn[1] = "out" => regs.dx = "other"
           /\ Insn[1] # "hlt"
<1>0. base = 0 /\ regs \in Regs
  BY DEF Start, KvmTypes, Others
<1>c. PICK p \in {"other", Port}, op \in {"out", "out_ax", "in", "rep_outsb"} :
        /\ mem[0] = <<"mov_dx", p>> /\ mem[1] = <<op>>
        /\ guest = "other" => p = "other"
        /\ op = "out" => guest = "other"
  BY OtherCells
<1>1. CASE regs.ip = 0
  <2>1. Insn = <<"mov_dx", p>>
    BY <1>0, <1>c, <1>1 DEF Insn
  <2>2. ASSUME Execute PROVE regs' = SetRegs(1, p, regs.al, regs.cx, regs.si)
    BY <1>0, <1>1, <2>1, <2>2, OnExecute
  <2>3. Execute => regs' \in Regs
    BY <1>0, <1>1, <2>2 DEF SetRegs, Regs
  <2>4. Execute => OtherAt(regs', n)
    BY <1>0, <1>c, <1>1, <2>2 DEF SetRegs, OtherAt
  <2> QED BY <2>1, <2>3, <2>4
<1>2. CASE regs.ip = 1 /\ (guest = "other" => regs.dx = "other")
  <2>1. Insn = <<op>>
    BY <1>0, <1>c, <1>2 DEF Insn
  <2>2. ~Execute
    BY <1>0, <2>1, OnExecute
  <2> QED BY <1>c, <1>2, <2>1, <2>2
<1> QED BY <1>1, <1>2 DEF OtherAt

\* The same for the guest that is loaded, whichever it is.
LEMMA GuestStep ==
    ASSUME KvmInv, kpc = "guest"
    PROVE  /\ Where(regs, Len(out)) /\ Len(out) \in Nat /\ Begins(out)
           /\ Execute => regs' \in Regs /\ Where(regs', Len(out))
           /\ Insn[1] = "out" /\ regs.dx = Port =>
                /\ Len(out) < Len(Meant) /\ regs.al = Meant[Len(out) + 1]
                /\ Where([regs EXCEPT !.ip = @ + 1], Len(out) + 1)
           /\ Insn[1] = "hlt" => Len(out) = Len(Meant)
<1>1. Bytes = out /\ Where(regs, Len(out)) /\ Begins(out)
  BY DEF KvmInv, GuestInv, Bytes, Handed
<1>2. KvmTypes /\ Len(out) \in Nat
  BY DEF KvmInv, KvmTypes
<1>3. mem = Loaded /\ base = Start
  <2>1. calls = <<>>
    BY DEF KvmInv, CallsInv
  <2>2. Len(calls) = 0
    BY <2>1
  <2>3. ~Pending("memcpy") /\ ~Pending("region")
    BY <2>2 DEF Pending
  <2> QED BY <2>3 DEF KvmInv, CallsInv
<1> DEFINE n == Len(out)
<1>4. CASE guest \in {"add", "long"}
  <2>1. AddAt(regs, n)
    BY <1>1, <1>4 DEF Where
  <2>2. Len(Meant) = 2 /\ Meant[1] = 52 /\ Meant[2] = NL
    BY <1>2, <1>4, MeantFacts
  <2> HIDE DEF n
  <2>3. n \in Nat
    BY <1>2 DEF n
  <2>4. /\ Execute => regs' \in Regs /\ AddAt(regs', n)
        /\ Insn[1] = "out" => /\ regs.dx = Port /\ n < 2 /\ AddAt([regs EXCEPT !.ip = @ + 1], n + 1)
                              /\ regs.al = IF n = 0 THEN 52 ELSE NL
        /\ Insn[1] = "hlt" => n = 2
    BY <1>2, <1>3, <1>4, <2>1, <2>3, AddStep
  <2>5. Insn[1] = "out" => n < 2 /\ regs.al = Meant[n + 1]
    BY <2>2, <2>3, <2>4
  <2> QED BY <1>1, <1>2, <1>4, <2>2, <2>4, <2>5 DEF Where, Others, n
<1>5. CASE guest = "loop"
  <2>1. LoopAt(regs, n) /\ Rounds \in Nat
    BY <1>1, <1>5, KvmAssumption DEF Where
  <2>2. /\ Len(Meant) = Rounds + 1 /\ Meant[Rounds + 1] = NL
        /\ \A k \in 1 .. Rounds : Meant[k] = (64 + k) % 256
    BY <1>2, <1>5, MeantFacts
  <2> HIDE DEF n
  <2>3. n \in Nat
    BY <1>2 DEF n
  <2>4. /\ Execute => regs' \in Regs /\ LoopAt(regs', n)
        /\ Insn[1] = "out" => /\ regs.dx = Port /\ n < Rounds + 1
                              /\ LoopAt([regs EXCEPT !.ip = @ + 1], n + 1)
                              /\ regs.al = IF n < Rounds THEN (65 + n) % 256 ELSE NL
        /\ Insn[1] = "hlt" => n = Rounds + 1
    BY <1>2, <1>3, <1>5, <2>1, <2>3, LoopStep
  <2>5. ASSUME Insn[1] = "out" PROVE regs.al = Meant[n + 1]
    <3>1. CASE n < Rounds
      <4>1. n + 1 \in 1 .. Rounds /\ 64 + (n + 1) = 65 + n
        BY <2>1, <2>3, <3>1
      <4> QED BY <2>2, <2>4, <2>5, <3>1, <4>1
    <3>2. CASE ~(n < Rounds)
      <4>1. n = Rounds
        BY <2>1, <2>3, <2>4, <2>5, <3>2
      <4> QED BY <2>2, <2>4, <2>5, <3>2, <4>1
    <3> QED BY <3>1, <3>2
  <2> QED BY <1>1, <1>2, <1>5, <2>2, <2>4, <2>5 DEF Where, Others, n
<1>6. CASE guest = "hello"
  <2>1. HelloAt(regs, n)
    BY <1>1, <1>6 DEF Where
  <2>2. Meant = String
    BY <1>2, <1>6, MeantFacts
  <2> HIDE DEF n
  <2>3. n \in Nat
    BY <1>2 DEF n
  <2>4. /\ Execute => regs' \in Regs /\ HelloAt(regs', n)
        /\ Insn[1] = "out" => /\ regs.dx = Port /\ n < Len(String)
                              /\ HelloAt([regs EXCEPT !.ip = @ + 1], n + 1)
                              /\ regs.al = String[n + 1]
        /\ Insn[1] = "hlt" => n = Len(String)
    BY <1>2, <1>3, <1>6, <2>1, <2>3, HelloStep
  <2>5. guest \notin Others
    BY <1>6 DEF Others
  <2> QED BY <1>1, <1>2, <1>6, <2>2, <2>4, <2>5, Zenon DEF Where, n
<1>7. CASE guest \in Others
  <2>1. OtherAt(regs, n)
    BY <1>1, <1>7 DEF Where
  <2> HIDE DEF n
  <2>2. n \in Nat
    BY <1>2 DEF n
  <2>3. /\ Execute => regs' \in Regs /\ OtherAt(regs', n)
        /\ Insn[1] = "out" => regs.dx = "other"
        /\ Insn[1] # "hlt"
    BY <1>2, <1>3, <1>7, <2>1, <2>2, OtherStep
  <2>4. "other" # Port
    BY DEF Port
  <2> QED BY <1>1, <1>2, <1>7, <2>3, <2>4 DEF Where, Others, n
<1> QED BY <1>2, <1>4, <1>5, <1>6, <1>7 DEF KvmTypes, Guests, Others

-------------------------------------------------------------------------------
\* A non-empty sequence without its head.
LEMMA Rest ==
    ASSUME NEW S, NEW s \in Seq(S), s # <<>>
    PROVE  /\ Tail(s) \in Seq(S) /\ Len(s) \in Nat \ {0} /\ Len(Tail(s)) = Len(s) - 1 /\ Head(s) = s[1]
           /\ \A k \in 1 .. Len(s) - 1 : Tail(s)[k] = s[k + 1]
           /\ Len(s) = 1 => Tail(s) = <<>>
           /\ Len(s) # 1 => Tail(s) # <<>>
<1>1. Tail(s) \in Seq(S) /\ Len(s) \in Nat \ {0} /\ Len(Tail(s)) = Len(s) - 1
  OBVIOUS
<1>2. Head(s) = s[1] /\ \A k \in 1 .. Len(s) - 1 : Tail(s)[k] = s[k + 1]
  OBVIOUS
<1>3. Tail(s) = <<>> <=> Len(Tail(s)) = 0
  BY <1>1, EmptySeq
<1>4. (Len(s) = 1 => Tail(s) = <<>>) /\ (Len(s) # 1 => Tail(s) # <<>>)
  <2> DEFINE t == Tail(s)
  <2>1. t = <<>> <=> Len(t) = 0
    BY <1>3
  <2>2. Len(t) = Len(s) - 1 /\ Len(s) \in Nat \ {0}
    BY <1>1
  <2> HIDE DEF t
  <2>3. Len(s) = 1 <=> t = <<>>
    BY <2>1, <2>2
  <2> QED BY <2>3 DEF t
<1> QED BY <1>1, <1>2, <1>4

\* A call of the set-up that returns.
LEMMA AdvanceFacts ==
    ASSUME calls \in Seq(Calls), calls # <<>>, Advance
    PROVE  /\ calls' \in Seq(Calls)
           /\ (kpc' = "run" /\ calls' = <<>>) \/ (kpc' = "setup" /\ calls' # <<>>)
           /\ \A x : ~Pending(x)' => ~Pending(x) \/ x = Head(calls)
<1>1. calls' = Tail(calls) /\ kpc' = IF Len(calls) = 1 THEN "run" ELSE "setup"
  BY DEF Advance
<1>2. \A x : ~Pending(x)' => ~Pending(x) \/ x = Head(calls)
  <2> SUFFICES ASSUME NEW x, ~Pending(x)', NEW k \in 1 .. Len(calls), calls[k] = x
               PROVE  x = Head(calls)
    BY DEF Pending
  <2>1. CASE k = 1
    BY <2>1, Rest
  <2>2. CASE k # 1
    <3>1. k - 1 \in 1 .. Len(calls) - 1 /\ (k - 1) + 1 = k
      BY <2>2, Rest
    <3>2. Tail(calls)[k - 1] = x /\ k - 1 \in 1 .. Len(Tail(calls))
      BY <3>1, Rest
    <3> QED BY <1>1, <3>2 DEF Pending
  <2> QED BY <2>1, <2>2
<1> QED BY <1>1, <1>2, Rest

\* What keeps the sets of things meant by the guest's name.
LEMMA SameGuest ==
    ASSUME UNCHANGED <<prog, guest>>
    PROVE  /\ Loaded' = Loaded /\ Start' = Start /\ Meant' = Meant
           /\ \A r, n : Where(r, n)' <=> Where(r, n)
<1>1. Loaded' = Loaded
  BY DEF Loaded, Code
<1>2. Start' = Start
  BY DEF Start
<1>3. Meant' = Meant
  BY DEF Meant
<1>4. \A r, n : Where(r, n)' <=> Where(r, n)
  <2> TAKE r, n
  <2>1. AddAt(r, n)' <=> AddAt(r, n)
    BY <1>2 DEF AddAt
  <2>2. (LoopAt(r, n)' <=> LoopAt(r, n)) /\ (HelloAt(r, n)' <=> HelloAt(r, n)) /\ (OtherAt(r, n)' <=> OtherAt(r, n))
    BY DEF LoopAt, HelloAt, OtherAt, Others
  <2> QED BY <2>1, <2>2 DEF Where
<1> QED BY <1>1, <1>2, <1>3, <1>4

\* Before the guest runs nothing is printed.
LEMMA NothingYet ==
    ASSUME KvmTypes, out = <<>>, ~Handed
    PROVE  Bytes = <<>> /\ Begins(Bytes) /\ Len(Bytes) = 0
<1>1. Bytes = <<>>
  BY DEF Bytes
<1>2. Meant \in Seq(0 .. 255)
  BY MeantFacts
<1>3. Len(Meant) \in Nat /\ Len(<<>>) = 0
  BY <1>2
<1> QED BY <1>1, <1>3 DEF Begins

\* A call of the set-up, by what it leaves behind.
LEMMA SetupStep ==
    ASSUME KvmInv, kpc = "setup", Advance, UNCHANGED <<prog, guest, run, out>>, regs' \in Regs,
           mem' = IF Head(calls) = "memcpy" THEN Loaded ELSE mem,
           base' = IF Head(calls) = "region" THEN Start ELSE base,
           regs'.cs = IF Head(calls) = "set_sregs" THEN 0 ELSE regs.cs,
           IF Head(calls) = "set_regs" THEN regs'.ip = Start /\ regs'.al = 2 /\ regs'.bl = 2
           ELSE regs'.ip = regs.ip /\ regs'.al = regs.al /\ regs'.bl = regs.bl
    PROVE  KvmInv'
<1>1. KvmTypes /\ calls # <<>> /\ out = <<>> /\ run.reason = "none"
  BY DEF KvmInv, CallsInv
<1>2. /\ calls' \in Seq(Calls)
      /\ (kpc' = "run" /\ calls' = <<>>) \/ (kpc' = "setup" /\ calls' # <<>>)
      /\ \A x : ~Pending(x)' => ~Pending(x) \/ x = Head(calls)
  BY <1>1, AdvanceFacts DEF KvmTypes
<1>3. KvmTypes'
  BY <1>1, <1>2 DEF KvmTypes, Guests
<1>4. /\ ~Pending("memcpy")' => mem' = Loaded
      /\ ~Pending("region")' => base' = Start
      /\ ~Pending("set_sregs")' => regs'.cs = 0
      /\ ~Pending("set_regs")' => regs'.ip = Start /\ regs'.al = 2 /\ regs'.bl = 2
  <2>1. ~Pending("memcpy")' => mem' = Loaded
    BY <1>2 DEF KvmInv, CallsInv
  <2>2. ~Pending("region")' => base' = Start
    BY <1>2 DEF KvmInv, CallsInv
  <2>3. ~Pending("set_sregs")' => regs'.cs = 0
    BY <1>2 DEF KvmInv, CallsInv
  <2>4. ~Pending("set_regs")' => regs'.ip = Start /\ regs'.al = 2 /\ regs'.bl = 2
    BY <1>2 DEF KvmInv, CallsInv
  <2> QED BY <2>1, <2>2, <2>3, <2>4
<1>5. Loaded' = Loaded /\ Start' = Start /\ \A r, n : Where(r, n)' <=> Where(r, n)
  BY SameGuest
<1>6. CallsInv'
  BY <1>1, <1>2, <1>4, <1>5 DEF CallsInv
<1>7. ~Handed' /\ out' = <<>> /\ run'.reason = "none"
  BY <1>1, <1>2 DEF Handed
<1>8. Bytes' = <<>> /\ Begins(Bytes)' /\ Len(Bytes)' = 0
  <2>1. (KvmTypes /\ out = <<>> /\ ~Handed => Bytes = <<>> /\ Begins(Bytes) /\ Len(Bytes) = 0)'
    BY NothingYet, PTL
  <2> QED BY <1>3, <1>7, <2>1
<1>9. kpc' = "run" => Where(regs', 0)
  <2> SUFFICES ASSUME kpc' = "run"
               PROVE  Where(regs', 0)
    OBVIOUS
  <2>1. regs'.ip = Start /\ regs'.al = 2 /\ regs'.bl = 2
    <3>1. calls' = <<>>
      BY <1>2
    <3>2. Len(calls') = 0
      BY <3>1
    <3>3. ~Pending("set_regs")'
      BY <3>2 DEF Pending
    <3> QED BY <1>4, <3>3
  <2>2. guest \in {"loop", "hello"} \cup Others => Start = 0
    BY <1>1 DEF KvmTypes, Start, Others
  <2>3. AddAt(regs', 0)
    BY <2>1 DEF AddAt
  <2>4. guest \in {"loop", "hello"} \cup Others => regs'.ip = 0
    BY <2>1, <2>2
  <2> QED BY <2>3, <2>4 DEF Where, LoopAt, HelloAt, OtherAt
<1>10. GuestInv'
  <2>1. kpc' # "guest" /\ kpc' # "exit" /\ kpc' # "ended"
    BY <1>2
  <2> QED BY <1>5, <1>7, <1>8, <1>9, <2>1 DEF GuestInv
<1> QED BY <1>3, <1>6, <1>10 DEF KvmInv

\* The program ends.
LEMMA EndStep ==
    ASSUME KvmInv, kpc' = "ended", UNCHANGED <<prog, guest, calls, regs, run, out>>,
           run.reason = "hlt" => kpc = "exit"
    PROVE  KvmInv'
<1>1. KvmTypes'
  BY DEF KvmInv, KvmTypes, Guests
<1>2. CallsInv'
  BY DEF CallsInv
<1>3. Begins(out)
  <2>1. Meant \in Seq(0 .. 255) /\ out \in Seq(0 .. 255) /\ Begins(Bytes)
    BY MeantFacts DEF KvmInv, KvmTypes, GuestInv
  <2>2. CASE Handed
    <3>1. run.data \in 0 .. 255 /\ Bytes = Append(out, run.data)
      BY <2>2 DEF Handed, Console, KvmInv, KvmTypes, Bytes
    <3>2. Len(Bytes) = Len(out) + 1 /\ Len(out) \in Nat /\ \A k \in 1 .. Len(out) : Bytes[k] = out[k]
      BY <2>1, <3>1
    <3>3. Len(Meant) \in Nat
      BY <2>1
    <3> QED BY <2>1, <3>2, <3>3 DEF Begins
  <2>3. CASE ~Handed
    BY <2>1, <2>3 DEF Bytes
  <2> QED BY <2>2, <2>3
<1>4. Begins(Bytes)'
  <2>1. Bytes' = out
    BY DEF Bytes, Handed
  <2>2. Meant' = Meant
    BY SameGuest
  <2> QED BY <1>3, <2>1, <2>2 DEF Begins
<1>5. run'.reason = "hlt" => Len(out') = Len(Meant')
  BY SameGuest DEF KvmInv, GuestInv
<1>6. ~Handed' /\ kpc' \notin {"run", "guest"}
  BY DEF Handed
<1> QED BY <1>1, <1>2, <1>4, <1>5, <1>6 DEF KvmInv, GuestInv

\* The guest is left for a reason that prints nothing and is no halt, or it halts.
LEMMA LeftStep ==
    ASSUME KvmInv, kpc = "guest", kpc' = "exit",
           UNCHANGED <<prog, guest, calls, mem, base, out>>, regs' \in Regs, regs'.cs = regs.cs,
           ~Console', run'.reason = "io" => run'.data \in 0 .. 255,
           run'.reason = "hlt" => Len(out) = Len(Meant)
    PROVE  KvmInv'
<1>1. KvmTypes'
  BY DEF KvmInv, KvmTypes, Guests
<1>2. Loaded' = Loaded /\ Start' = Start /\ Meant' = Meant
  BY SameGuest
<1>3. CallsInv'
  <2>1. calls = <<>> /\ (\A x : Pending(x)' <=> Pending(x))
    BY DEF KvmInv, CallsInv, Pending
  <2> QED BY <1>2, <2>1 DEF KvmInv, CallsInv
<1>4. ~Handed' /\ Bytes' = out
  BY DEF Handed, Bytes
<1>5. Begins(Bytes)'
  <2>1. Begins(out)
    BY GuestStep
  <2> QED BY <1>2, <1>4, <2>1 DEF Begins
<1>6. kpc' \in {"exit", "ended"} /\ run'.reason = "hlt" => Len(out') = Len(Meant')
  BY <1>2
<1> QED BY <1>1, <1>3, <1>4, <1>5, <1>6 DEF KvmInv, GuestInv

\* Where the guest goes on after an exit.
LEMMA NextIp ==
    ASSUME NEW r \in Regs
    PROVE  [r EXCEPT !.ip = @ + 1] \in Regs /\ [r EXCEPT !.ip = @ + 1].cs = r.cs
  BY DEF Regs

\* The invariant holds before the first call of the set-up.
LEMMA KvmInitInv ==
    ASSUME KvmInit
    PROVE  KvmInv
<1>1. calls1 \in Seq(Calls) /\ calls2 \in Seq(Calls) /\ calls1 # <<>> /\ calls2 # <<>>
  <2>1. calls1 \in Seq(Calls)
    <3> DEFINE last == <<"mmap_size", "mmap_run", "get_sregs", "set_sregs", "set_regs">>
               first == <<"open", "version", "extension", "create_vm", "mmap_mem", "memcpy", "region", "create_vcpu">>
    <3>1. first \in Seq(Calls)
      BY Eight DEF Calls
    <3>2. last \in Seq(Calls)
      BY DEF Calls
    <3>3. calls1 = first \o last
      BY DEF calls1
    <3> HIDE DEF first, last
    <3> QED BY <3>1, <3>2, <3>3, Parts
  <2>2. Len(calls1) = 13
    BY DEF calls1
  <2>3. <<"argc", "fopen", "malloc">> \in Seq(Calls) /\ Len(<<"argc", "fopen", "malloc">>) = 3
    BY DEF Calls
  <2>4. calls2 \in Seq(Calls) /\ Len(calls2) = 16
    <3> DEFINE first == <<"argc", "fopen", "malloc">>
    <3>1. first \in Seq(Calls) /\ Len(first) = 3 /\ calls2 = first \o calls1
      BY <2>3 DEF calls2
    <3> HIDE DEF first
    <3>2. first \o calls1 \in Seq(Calls) /\ Len(first \o calls1) = Len(first) + Len(calls1)
      <4>1. first \in Seq(Calls) /\ calls1 \in Seq(Calls)
        BY <2>1, <3>1
      <4> QED BY <4>1, Parts
    <3>3. Len(first \o calls1) = 3 + 13
      BY <2>2, <3>1, <3>2, Zenon
    <3> QED BY <3>1, <3>2, <3>3
  <2>5. \A s \in Seq(Calls) : s = <<>> <=> Len(s) = 0
    BY EmptySeq
  <2>6. 13 # 0 /\ 16 # 0
    OBVIOUS
  <2> QED BY <2>1, <2>2, <2>4, <2>5, <2>6, Zenon
<1>2. KvmTypes
  <2>1. regs \in Regs
    BY DEF KvmInit, Reset, Regs
  <2>2. calls \in Seq(Calls)
    BY <1>1 DEF KvmInit
  <2>3. out \in Seq(0 .. 255)
    BY DEF KvmInit
  <2>4. prog \in {"test1", "test2"} /\ guest \in Guests /\ (prog = "test1" => guest = "add")
    BY DEF KvmInit, Guests
  <2> QED BY <2>1, <2>2, <2>3, <2>4 DEF KvmInit, KvmTypes
<1>3. Pending("memcpy") /\ Pending("region") /\ Pending("set_sregs") /\ Pending("set_regs")
  <2>1. CASE prog = "test1"
    <3>1. calls = calls1 /\ Len(calls1) = 13 /\ calls1[6] = "memcpy" /\ calls1[7] = "region"
          /\ calls1[12] = "set_sregs" /\ calls1[13] = "set_regs"
      BY <2>1 DEF KvmInit, calls1
    <3>2. Len(calls) = 13 /\ calls[6] = "memcpy" /\ calls[7] = "region" /\ calls[12] = "set_sregs" /\ calls[13] = "set_regs"
      BY <3>1, Zenon
    <3> QED BY <3>2 DEF Pending
  <2>2. CASE prog = "test2"
    <3>1. calls = calls2 /\ Len(calls2) = 16 /\ calls2[9] = "memcpy" /\ calls2[10] = "region"
          /\ calls2[15] = "set_sregs" /\ calls2[16] = "set_regs"
      BY <2>2 DEF KvmInit, calls1, calls2
    <3>2. Len(calls) = 16 /\ calls[9] = "memcpy" /\ calls[10] = "region" /\ calls[15] = "set_sregs" /\ calls[16] = "set_regs"
      BY <3>1, Zenon
    <3> QED BY <3>2 DEF Pending
  <2> QED BY <2>1, <2>2 DEF KvmInit
<1>4. CallsInv
  BY <1>1, <1>3 DEF KvmInit, CallsInv
<1>5. GuestInv
  <2>1. kpc = "setup" /\ out = <<>> /\ ~Handed
    BY DEF KvmInit, Handed
  <2>2. Begins(Bytes)
    BY <1>2, <2>1, NothingYet
  <2> QED BY <2>1, <2>2 DEF GuestInv
<1> QED BY <1>2, <1>4, <1>5 DEF KvmInv

\* Every step of the runner and of its guest preserves the invariant.
LEMMA KvmStepInv ==
    ASSUME KvmInv, [KvmNext]_kvmvars
    PROVE  KvmInv'
<1> DEFINE h == Head(calls)
<1>0. KvmTypes /\ regs \in Regs /\ (kpc = "setup" => run.reason = "none")
  BY DEF KvmInv, KvmTypes, CallsInv
<1>1. CASE CallFails
  <2>1. CASE h \in {"mmap_mem", "mmap_run"}
    <3>1. Advance /\ kpc = "setup" /\ UNCHANGED <<prog, guest, mem, base, regs, run, out>>
      BY <1>1, <2>1 DEF CallFails
    <3> QED BY <1>0, <2>1, <3>1, SetupStep
  <2>2. CASE h \notin {"mmap_mem", "mmap_run"}
    <3>1. kpc' = "ended" /\ kpc = "setup" /\ UNCHANGED <<prog, guest, calls, regs, run, out>>
      BY <1>1, <2>2 DEF CallFails, End
    <3> QED BY <1>0, <3>1, EndStep
  <2> QED BY <2>1, <2>2
<1>2. CASE memcpy
  <2>1. CASE Advance /\ mem' = [a \in 0 .. MemSize - 1 |-> IF a < Len(Code) THEN Code[a + 1] ELSE Zero]
    <3>1. kpc = "setup" /\ h = "memcpy" /\ UNCHANGED <<prog, guest, base, regs, run, out>> /\ mem' = Loaded
      BY <1>2, <2>1 DEF memcpy, Loaded
    <3> QED BY <1>0, <2>1, <3>1, SetupStep
  <2>2. CASE End("killed") /\ UNCHANGED <<calls, mem>>
    <3>1. kpc' = "ended" /\ kpc = "setup" /\ UNCHANGED <<prog, guest, calls, regs, run, out>>
      BY <1>2, <2>2 DEF memcpy, End
    <3> QED BY <1>0, <3>1, EndStep
  <2> QED BY <1>2, <2>1, <2>2 DEF memcpy
<1>3. CASE region
  <2>1. /\ kpc = "setup" /\ h = "region" /\ base' = Start /\ Advance
        /\ UNCHANGED <<prog, guest, mem, regs, run, out>>
    BY <1>3 DEF region
  <2> QED BY <1>0, <2>1, SetupStep
<1>4. CASE set_sregs
  <2>1. /\ kpc = "setup" /\ h = "set_sregs" /\ regs' = [regs EXCEPT !.cs = 0] /\ Advance
        /\ UNCHANGED <<prog, guest, mem, base, run, out>>
    BY <1>4 DEF set_sregs
  <2>2. /\ regs' \in Regs /\ regs'.cs = 0 /\ regs'.ip = regs.ip /\ regs'.al = regs.al /\ regs'.bl = regs.bl
    BY <1>0, <2>1 DEF Regs
  <2> QED BY <2>1, <2>2, SetupStep
<1>5. CASE set_regs
  <2>1. /\ kpc = "setup" /\ h = "set_regs" /\ regs' = [regs EXCEPT !.ip = Start, !.al = 2, !.bl = 2] /\ Advance
        /\ UNCHANGED <<prog, guest, mem, base, run, out>>
    BY <1>5 DEF set_regs
  <2>2. Start \in Nat
    BY KvmAssumption DEF Start
  <2>3. /\ regs' \in Regs /\ regs'.cs = regs.cs /\ regs'.ip = Start /\ regs'.al = 2 /\ regs'.bl = 2
    <3>1. PICK x \in 0 .. 255 : x = 2
      OBVIOUS
    <3>2. PICK a \in Nat : a = Start
      BY <2>2
    <3> DEFINE e == [regs EXCEPT !.ip = a, !.al = x, !.bl = x]
    <3>3. e \in Regs /\ e.cs = regs.cs /\ e.ip = a /\ e.al = x /\ e.bl = x
      <4>1. regs \in Regs
        BY <1>0
      <4> QED BY <4>1 DEF Regs
    <3>4. regs' = e
      BY <2>1, <3>1, <3>2, Zenon
    <3> HIDE DEF e
    <3> QED BY <3>1, <3>2, <3>3, <3>4, Zenon
  <2> QED BY <2>1, <2>3, SetupStep
<1>6. CASE Call
  <2>1. /\ kpc = "setup" /\ h \notin {"memcpy", "region", "set_sregs", "set_regs"} /\ Advance
        /\ UNCHANGED <<prog, guest, mem, base, regs, run, out>>
    BY <1>6 DEF Call
  <2> QED BY <1>0, <2>1, SetupStep
<1>7. CASE KvmRun
  <2>1. kpc = "run" /\ UNCHANGED <<prog, guest, calls, mem, base, regs, run, out>> /\ run.reason # "hlt"
    BY <1>0, <1>7 DEF KvmRun, KvmTypes
  <2>2. CASE kpc' = "guest"
    <3>1. KvmTypes'
      BY <1>0, <2>1, <2>2 DEF KvmTypes, Guests
    <3>2. /\ Loaded' = Loaded /\ Start' = Start /\ Meant' = Meant
          /\ \A r, n : Where(r, n)' <=> Where(r, n)
      BY <2>1, SameGuest
    <3>3. CallsInv'
      <4>1. calls = <<>> /\ (\A x : Pending(x)' <=> Pending(x))
        BY <2>1 DEF KvmInv, CallsInv, Pending
      <4> QED BY <2>1, <2>2, <3>2, <4>1 DEF KvmInv, CallsInv
    <3>4. ~Handed /\ ~Handed' /\ Bytes' = Bytes
      BY <2>1, <2>2 DEF Handed, Bytes
    <3>5. GuestInv'
      BY <2>1, <2>2, <3>2, <3>4 DEF KvmInv, GuestInv, Begins
    <3> QED BY <3>1, <3>3, <3>5 DEF KvmInv
  <2>3. CASE kpc' = "ended"
    BY <2>1, <2>3, EndStep
  <2> QED BY <1>7, <2>2, <2>3 DEF KvmRun, End
<1>8. CASE Execute
  <2>1. kpc = "guest" /\ InPage(regs.ip) /\ UNCHANGED <<prog, guest, kpc, calls, unmapped, mem, base, run, out, result>>
    BY <1>8 DEF Execute
  <2>2. regs' \in Regs /\ Where(regs', Len(out)) /\ Begins(out)
    BY <1>8, <2>1, GuestStep
  <2>3. KvmTypes'
    BY <1>0, <2>1, <2>2 DEF KvmTypes, Guests
  <2>4. /\ Loaded' = Loaded /\ Start' = Start /\ Meant' = Meant
        /\ \A r, n : Where(r, n)' <=> Where(r, n)
    BY <2>1, SameGuest
  <2>5. regs.cs = 0 /\ regs'.cs = 0
    <3>1. regs.cs = 0
      BY <2>1 DEF InPage
    <3> QED BY <1>0, <1>8, <3>1, OnExecute DEF SetRegs, Execute
  <2>6. CallsInv'
    <3>1. calls = <<>> /\ (\A x : Pending(x)' <=> Pending(x))
      BY <2>1 DEF KvmInv, CallsInv, Pending
    <3> QED BY <2>1, <2>4, <2>5, <3>1 DEF KvmInv, CallsInv
  <2>7. ~Handed' /\ Bytes' = out
    BY <2>1 DEF Handed, Bytes
  <2>8. GuestInv'
    BY <2>1, <2>2, <2>4, <2>7 DEF GuestInv, Begins
  <2> QED BY <2>3, <2>6, <2>8 DEF KvmInv
<1>9. CASE Out
  <2>1. /\ kpc = "guest" /\ kpc' = "exit" /\ regs' = [regs EXCEPT !.ip = @ + 1]
        /\ run' = [reason |-> "io", port |-> regs.dx, data |-> regs.al, access |-> Access[Insn[1]]]
        /\ Insn[1] \in {"out", "out_ax", "in", "rep_outsb"}
        /\ UNCHANGED <<prog, guest, calls, mem, base, out>>
    BY <1>9 DEF Out, LeaveFor, Access
  <2>2. /\ regs' \in Regs /\ regs'.cs = regs.cs /\ regs.al \in 0 .. 255
        /\ run'.reason = "io" /\ run'.port = regs.dx /\ run'.data = regs.al
    <3>1. regs' \in Regs /\ regs'.cs = regs.cs
      BY <1>0, <2>1, NextIp
    <3>2. regs.al \in 0 .. 255
      BY <1>0 DEF Regs
    <3> QED BY <2>1, <3>1, <3>2
  <2>0. Console' <=> Insn[1] = "out" /\ regs.dx = Port
    <3>1. (Access[Insn[1]] = <<"out", 1, 1>>) <=> Insn[1] = "out"
      BY <2>1 DEF Access
    <3>2. run'.access = Access[Insn[1]] /\ run'.port = regs.dx /\ run'.reason = "io"
      BY <2>1
    <3> QED BY <3>1, <3>2 DEF Console, Port
  <2>3. CASE ~(Insn[1] = "out" /\ regs.dx = Port)
    BY <2>0, <2>1, <2>2, <2>3, LeftStep
  <2>4. CASE Insn[1] = "out" /\ regs.dx = Port
    <3>1. /\ Len(out) < Len(Meant) /\ regs.al = Meant[Len(out) + 1] /\ Len(out) \in Nat /\ Begins(out)
          /\ Where(regs', Len(out) + 1)
      BY <2>1, <2>4, GuestStep
    <3>2. KvmTypes'
      BY <1>0, <2>1, <2>2 DEF KvmTypes, Guests
    <3>3. /\ Loaded' = Loaded /\ Start' = Start /\ Meant' = Meant
          /\ \A r, n : Where(r, n)' <=> Where(r, n)
      BY <2>1, SameGuest
    <3>4. CallsInv'
      <4>1. calls = <<>> /\ (\A x : Pending(x)' <=> Pending(x))
        BY <2>1 DEF KvmInv, CallsInv, Pending
      <4> QED BY <2>1, <2>2, <3>3, <4>1 DEF KvmInv, CallsInv
    <3>5. Handed' /\ Bytes' = Append(out, regs.al)
      BY <2>0, <2>1, <2>2, <2>4 DEF Handed, Bytes
    <3>6. /\ Len(Append(out, regs.al)) = Len(out) + 1 /\ Append(out, regs.al)[Len(out) + 1] = regs.al
          /\ \A k \in 1 .. Len(out) : Append(out, regs.al)[k] = out[k]
      BY <1>0, <2>2 DEF KvmTypes
    <3>7. Begins(Append(out, regs.al))
      <4> DEFINE b == Append(out, regs.al)
      <4>1. Meant \in Seq(0 .. 255)
        BY <1>0, MeantFacts
      <4>2. Len(Meant) \in Nat
        BY <4>1
      <4>3. Len(b) = Len(out) + 1 /\ b[Len(out) + 1] = regs.al /\ \A k \in 1 .. Len(out) : b[k] = out[k]
        BY <3>6
      <4> HIDE DEF b
      <4>4. Len(b) =< Len(Meant)
        BY <3>1, <4>2, <4>3
      <4>5. ASSUME NEW k \in 1 .. Len(b) PROVE b[k] = Meant[k]
        <5>1. k \in 1 .. Len(out) \/ k = Len(out) + 1
          BY <3>1, <4>3
        <5> QED BY <3>1, <4>3, <5>1 DEF Begins
      <4> QED BY <4>4, <4>5 DEF Begins, b
    <3>8. GuestInv'
      <4>1. Begins(Bytes)'
        BY <3>3, <3>5, <3>7 DEF Begins
      <4>2. Where(regs', Len(Bytes'))
        BY <3>1, <3>5, <3>6, Zenon
      <4> QED BY <2>1, <2>2, <3>3, <4>1, <4>2 DEF GuestInv
    <3> QED BY <3>2, <3>4, <3>8 DEF KvmInv
  <2> QED BY <2>3, <2>4
<1>10. CASE Halt
  <2>1. /\ kpc = "guest" /\ Insn[1] = "hlt" /\ kpc' = "exit" /\ regs' = [regs EXCEPT !.ip = @ + 1]
        /\ run'.reason = "hlt" /\ ~Console' /\ UNCHANGED <<prog, guest, calls, mem, base, out>>
    BY <1>10 DEF Halt, LeaveFor, Console
  <2>2. regs' \in Regs /\ regs'.cs = regs.cs
    BY <1>0, <2>1, NextIp
  <2>3. Len(out) = Len(Meant)
    BY <2>1, GuestStep
  <2> QED BY <2>1, <2>2, <2>3, LeftStep
<1>11. CASE Leave
  <2>1. /\ kpc = "guest" /\ kpc' = "exit" /\ regs' = regs
        /\ run'.reason \notin {"io", "hlt"} /\ ~Console' /\ UNCHANGED <<prog, guest, calls, mem, base, out>>
    BY <1>11 DEF Leave, LeaveFor, Console
  <2> QED BY <1>0, <2>1, LeftStep
<1>12. CASE Switch
  <2>1. kpc = "exit" /\ UNCHANGED <<prog, guest, calls, unmapped, mem, base, regs, run>>
    BY <1>12 DEF Switch
  <2>2. CASE Handed
    <3>1. out' = Append(out, run.data) /\ kpc' = "run" /\ run.data \in 0 .. 255
      BY <1>0, <1>12, <2>2 DEF Switch, Handed, Console, KvmTypes
    <3>2. KvmTypes'
      <4>1. out' \in Seq(0 .. 255) /\ run'.reason = "io"
        BY <1>0, <2>1, <2>2, <3>1 DEF KvmTypes, Handed, Console
      <4> QED BY <1>0, <2>1, <3>1, <4>1 DEF KvmTypes, Guests
    <3>3. /\ Loaded' = Loaded /\ Start' = Start /\ Meant' = Meant
          /\ \A r, n : Where(r, n)' <=> Where(r, n)
      BY <2>1, SameGuest
    <3>4. CallsInv'
      <4>1. calls = <<>> /\ (\A x : Pending(x)' <=> Pending(x))
        BY <2>1 DEF KvmInv, CallsInv, Pending
      <4> QED BY <2>1, <3>1, <3>3, <4>1 DEF KvmInv, CallsInv
    <3>5. ~Handed' /\ Bytes' = Bytes
      BY <2>2, <3>1 DEF Handed, Bytes
    <3>6. GuestInv'
      BY <2>1, <2>2, <3>1, <3>3, <3>5 DEF KvmInv, GuestInv, Begins
    <3> QED BY <3>2, <3>4, <3>6 DEF KvmInv
  <2>3. CASE ~Handed
    <3>1. kpc' = "ended" /\ out' = out
      BY <1>12, <2>1, <2>3 DEF Switch, End, Handed
    <3> QED BY <2>1, <3>1, EndStep
  <2> QED BY <2>2, <2>3
<1>13. CASE SwitchUnmapped
  <2>1. kpc = "exit" /\ kpc' = "ended" /\ UNCHANGED <<prog, guest, calls, regs, run, out>>
    BY <1>13 DEF SwitchUnmapped, End
  <2> QED BY <2>1, EndStep
<1>14. CASE UNCHANGED kvmvars
  <2>1. UNCHANGED <<prog, guest, kpc, calls, unmapped, mem, base, regs, run, out, result>>
    BY <1>14 DEF kvmvars
  <2>2. KvmTypes'
    BY <1>0, <2>1 DEF KvmTypes, Guests
  <2>3. /\ Loaded' = Loaded /\ Start' = Start /\ Meant' = Meant
        /\ \A r, n : Where(r, n)' <=> Where(r, n)
    BY <2>1, SameGuest
  <2>4. CallsInv'
    <3>1. \A x : Pending(x)' <=> Pending(x)
      BY <2>1 DEF Pending
    <3> QED BY <2>1, <2>3, <3>1 DEF KvmInv, CallsInv
  <2>5. (Handed' <=> Handed) /\ Bytes' = Bytes
    BY <2>1 DEF Handed, Console, Bytes, Port
  <2>6. GuestInv'
    BY <2>1, <2>3, <2>5 DEF KvmInv, GuestInv, Begins
  <2> QED BY <2>2, <2>4, <2>6 DEF KvmInv
<1> QED BY <1>1, <1>2, <1>3, <1>4, <1>5, <1>6, <1>7, <1>8, <1>9, <1>10, <1>11, <1>12, <1>13, <1>14
        DEF KvmNext, RunnerStep, KvmTerminated

\* A sequence that begins with the elements of another is its beginning, and
\* all of it when they are equally long.
LEMMA BeginsFact ==
    ASSUME NEW S, NEW s \in Seq(S), NEW t \in Seq(S), Len(s) =< Len(t), \A k \in 1 .. Len(s) : s[k] = t[k]
    PROVE  s = SubSeq(t, 1, Len(s)) /\ (Len(s) = Len(t) => s = t)
  OBVIOUS

\* Whatever failed, a KVM runner has printed a beginning of what its guest is
\* meant to print, and all of it when the guest has halted: for every page
\* size, number of rounds and string (the loop of kvm_run_test1.c and
\* kvm_run_test2.c over KVM_RUN).
THEOREM OutputFaithfulHolds ==
    KvmSpec => []OutputFaithful
<1>1. KvmInit => KvmInv
  BY KvmInitInv
<1>2. KvmInv /\ [KvmNext]_kvmvars => KvmInv'
  BY KvmStepInv
<1>3. KvmInv => OutputFaithful
  <2> SUFFICES ASSUME KvmInv
               PROVE  OutputFaithful
    OBVIOUS
  <2>1. Meant \in Seq(0 .. 255) /\ out \in Seq(0 .. 255) /\ Begins(Bytes)
    BY MeantFacts DEF KvmInv, KvmTypes, GuestInv
  <2>2. Begins(out)
    <3>1. CASE Handed
      <4>1. run.data \in 0 .. 255 /\ Bytes = Append(out, run.data)
        BY <3>1 DEF Handed, Console, KvmInv, KvmTypes, Bytes
      <4>2. Len(Bytes) = Len(out) + 1 /\ Len(out) \in Nat /\ \A k \in 1 .. Len(out) : Bytes[k] = out[k]
        BY <2>1, <4>1
      <4>3. Len(Meant) \in Nat
        BY <2>1
      <4> QED BY <2>1, <4>2, <4>3 DEF Begins
    <3>2. CASE ~Handed
      BY <2>1, <3>2 DEF Bytes
    <3> QED BY <3>1, <3>2
  <2>3. out = SubSeq(Meant, 1, Len(out)) /\ (Len(out) = Len(Meant) => out = Meant)
    BY <2>1, <2>2, BeginsFact DEF Begins
  <2>4. kpc \in {"exit", "ended"} /\ run.reason = "hlt" => Len(out) = Len(Meant)
    BY DEF KvmInv, GuestInv
  <2> QED BY <2>2, <2>3, <2>4 DEF OutputFaithful, Begins
<1> QED BY <1>1, <1>2, <1>3, PTL DEF KvmSpec

-----------------------------------------------------------------------------
(***************************************************************************)
(* ZPage, for every set of users and tasks: ZPageInv says what an undis-   *)
(* turbed user's request has put in the shared page so far.                *)
(***************************************************************************)

ZPageTypes ==
    /\ DOMAIN mmap_data = Cells
    /\ upc \in [Users -> {"cmd", "copy", "word", "print", "shown", "quit", "failure", "oops"}]
    /\ DOMAIN req = Users /\ DOMAIN ret = Users /\ DOMAIN shown = Users
    /\ i \in [Users -> Nat] /\ disturbed \subseteq Users

\* A user at work has a request about a task that is there.
Asked(u) ==
    /\ upc[u] \in {"copy", "word", "print", "shown"} => req[u] \in Requests /\ req[u].pid \in Tasks
    /\ upc[u] \in {"copy", "print"} => req[u].op # "word"
    /\ upc[u] = "word" => req[u].op = "word"

\* The cells of the answer to r, and whether the walk of one page and the
\* driver's own page hold them all.
Size(r) == To(r) - From(r) + 1
Whole(r) == Reached(r.pid, From(r), To(r))

\* The first cells of the page hold the answer as far as the copy got.
Copied(u) == \A k \in Cells : k < i[u] => mmap_data[k] = Answer(req[u], k)

Exact(u) ==
    LET r == req[u] IN
    /\ r.op \in {"mm", "vma"} => shown[u] = <<<<r.op, r.pid>>>>
    /\ r.op \in {"data", "region"} /\ Whole(r) =>
          shown[u] = [k \in 1 .. Size(r) |-> Now(r.pid, From(r) + k - 1)]
    /\ r.op = "args" /\ Whole(r) /\ 0 < Size(r) /\ Size(r) < MMAP_LEN =>
          shown[u] = [k \in 1 .. Size(r) |-> Hex(Now(r.pid, From(r) + k - 1))]

UserInv(u) ==
    /\ upc[u] = "copy" => Copied(u) /\ (i[u] = 0 \/ i[u] =< Size(req[u]))
    /\ upc[u] = "print" =>
        /\ Copied(u) /\ (i[u] = Size(req[u]) \/ (i[u] = 0 /\ Size(req[u]) =< 0))
        /\ req[u].op \in Texts /\ i[u] \in Cells => mmap_data[i[u]] = Nul
        /\ req[u].op = "region" => ret[u] = Size(req[u]) - 1
        /\ req[u].op # "region" => ret[u] = i[u]
    /\ upc[u] = "shown" => Exact(u)

ZPageInv ==
    /\ ZPageTypes /\ \A u \in Users : Asked(u)
    /\ \A u \in Users \ disturbed : UserInv(u)

-------------------------------------------------------------------------------
\* The ends of what a request is about.
LEMMA Ends ==
    ASSUME NEW r \in Requests, r.pid \in Tasks
    PROVE  /\ From(r) \in Nat /\ To(r) \in Int /\ Size(r) \in Int
           /\ r.op \in {"mm", "vma"} => Size(r) = 1
           /\ r.op = "region" => r.to - r.from = Size(r) - 1
           /\ r.op \in {"mm", "vma", "args", "data", "word", "region"}
<1>1. /\ Data[r.pid].from \in Nat /\ Data[r.pid].to \in Nat /\ Args[r.pid].from \in Nat /\ Args[r.pid].to \in Nat
  <2>1. Data \in [Tasks -> [from : Nat, to : Nat]] /\ Args \in [Tasks -> [from : Nat, to : Nat]]
    BY ZPageAssumption
  <2> QED BY <2>1
<1>2. 0 \in Nat /\ \A a \in Addresses : a \in Nat
  BY ZPageAssumption
<1>3. r.from \in Nat /\ r.to \in Nat /\ r.op \in {"mm", "vma", "args", "data", "word", "region"}
  BY <1>2 DEF Requests
<1>4. From(r) \in Nat /\ To(r) \in Int
  <2>1. From(r) \in Nat
    BY <1>1, <1>3 DEF From
  <2>2. To(r) \in Int
    BY <1>1, <1>3 DEF To
  <2> QED BY <2>1, <2>2
<1>5. r.op \in {"mm", "vma"} => From(r) = 0 /\ To(r) = 0
  BY DEF From, To
<1>6. r.op = "region" => From(r) = r.from /\ To(r) = r.to
  BY DEF From, To
<1> QED BY <1>3, <1>4, <1>5, <1>6 DEF Size

\* A range with both its ends in one page is not longer than the page, and has
\* every address of it in that page.
LEMMA Page ==
    ASSUME NEW P \in Nat \ {0}, NEW a \in Nat, NEW b \in Int, a \div P = b \div P
    PROVE  b - a < P /\ \A k \in Nat : a + k =< b => a \div P = (a + k) \div P
<1>1. PICK q \in Int : q = a \div P
  OBVIOUS
<1>2. P * q =< a /\ a < P * q + P
  BY <1>1
<1>3. P * q =< b /\ b < P * q + P
  BY <1>1
<1> DEFINE m == P * q
<1>4. m \in Int /\ m =< a /\ a < m + P /\ m =< b /\ b < m + P
  BY <1>2, <1>3
<1>5. ASSUME NEW c \in Int, m =< c, c < m + P PROVE c \div P = q
  BY <1>5
<1> HIDE DEF m
<1>6. b - a < P
  BY <1>4
<1>7. ASSUME NEW k \in Nat, a + k =< b PROVE (a + k) \div P = q
  <2>1. a + k \in Int /\ m =< a + k /\ a + k < m + P
    BY <1>4, <1>7
  <2> QED BY <1>5, <2>1
<1> QED BY <1>1, <1>6, <1>7

\* printf() prints the cells up to the first terminator.
LEMMA ShowsText ==
    ASSUME NEW n \in Cells, mmap_data[n] = Nul, \A j \in Cells : j < n => mmap_data[j] # Nul
    PROVE  Text = [k \in 1 .. n |-> mmap_data[k - 1]]
<1>1. MMAP_LEN \in Nat /\ \A k \in Cells : k \in Nat /\ \A j \in 0 .. k - 1 : j \in Cells /\ j < k
  BY ZPageAssumption DEF Cells
<1> DEFINE Stop(k) == mmap_data[k] = Nul /\ \A j \in 0 .. k - 1 : mmap_data[j] # Nul
<1>2. Stop(n)
  BY <1>1
<1>3. ASSUME NEW k \in Cells, Stop(k) PROVE k = n
  <2>1. ~(k < n)
    BY <1>3
  <2>2. ~(n \in 0 .. k - 1)
    BY <1>3
  <2>3. k \in Nat /\ n \in Nat
    BY <1>1
  <2> HIDE DEF Stop
  <2> QED BY <2>1, <2>2, <2>3
<1>4. (CHOOSE k \in Cells : Stop(k)) = n
  BY <1>2, <1>3
<1> QED BY <1>4 DEF Text

\* An undisturbed copy of a range that one walk reaches is that range.
LEMMA ReachesBytes ==
    ASSUME NEW r \in Requests, r.pid \in Tasks, Whole(r), NEW k \in 1 .. Size(r)
    PROVE  k - 1 \in Cells /\ k - 1 < Size(r) /\ Byte(r.pid, From(r), k - 1) = Now(r.pid, From(r) + k - 1)
<1>1. PAGE_SIZE \in Nat \ {0} /\ MMAP_LEN \in Nat /\ PAGE_SIZE =< MMAP_LEN
  BY ZPageAssumption
<1>2. From(r) \in Nat /\ To(r) \in Int /\ Size(r) \in Int
  BY Ends
<1>3. /\ To(r) - From(r) < PAGE_SIZE
      /\ \A m \in Nat : From(r) + m =< To(r) => From(r) \div PAGE_SIZE = (From(r) + m) \div PAGE_SIZE
  BY <1>1, <1>2, Page DEF Whole, Reached
<1>4. k - 1 \in Cells /\ k - 1 < Size(r) /\ k - 1 \in Nat /\ From(r) + (k - 1) =< To(r)
  BY <1>1, <1>2, <1>3 DEF Size, Cells
<1>5. From(r) \div PAGE_SIZE = (From(r) + (k - 1)) \div PAGE_SIZE
  BY <1>3, <1>4
<1>6. Byte(r.pid, From(r), k - 1) = Now(r.pid, From(r) + (k - 1))
  BY <1>5 DEF Byte, Whole, Reached
<1>7. From(r) + (k - 1) = From(r) + k - 1
  BY <1>2
<1> QED BY <1>4, <1>6, <1>7

\* What a user prints after it is what it asked for.
LEMMA ShowsData ==
    ASSUME NEW r \in Requests, r.pid \in Tasks, r.op \in {"data", "region"}, Whole(r),
           \A k \in Cells : k < Size(r) => mmap_data[k] = Answer(r, k)
    PROVE  [k \in 1 .. Size(r) |-> mmap_data[k - 1]] = [k \in 1 .. Size(r) |-> Now(r.pid, From(r) + k - 1)]
<1> SUFFICES ASSUME NEW k \in 1 .. Size(r)
             PROVE  mmap_data[k - 1] = Now(r.pid, From(r) + k - 1)
  OBVIOUS
<1>1. mmap_data[k - 1] = Answer(r, k - 1)
  BY ReachesBytes
<1>2. Answer(r, k - 1) = Byte(r.pid, From(r), k - 1)
  BY DEF Answer
<1> QED BY <1>1, <1>2, ReachesBytes

\* The same of the formatted arguments.
LEMMA ShowsArgs ==
    ASSUME NEW r \in Requests, r.pid \in Tasks, r.op = "args", Whole(r),
           \A k \in Cells : k < Size(r) => mmap_data[k] = Answer(r, k)
    PROVE  [k \in 1 .. Size(r) |-> mmap_data[k - 1]] = [k \in 1 .. Size(r) |-> Hex(Now(r.pid, From(r) + k - 1))]
<1> SUFFICES ASSUME NEW k \in 1 .. Size(r)
             PROVE  mmap_data[k - 1] = Hex(Now(r.pid, From(r) + k - 1))
  OBVIOUS
<1>1. mmap_data[k - 1] = Answer(r, k - 1)
  BY ReachesBytes
<1>2. Answer(r, k - 1) = Hex(Byte(r.pid, From(r), k - 1))
  BY DEF Answer
<1> QED BY <1>1, <1>2, ReachesBytes

\* No cell of a text is a terminator.
LEMMA TextCells ==
    ASSUME NEW r, NEW k, r.op \in Texts
    PROVE  Answer(r, k) # Nul
<1>1. PICK x : Answer(r, k) = <<r.op, r.pid>> \/ Answer(r, k) = <<"hex", x>>
  BY DEF Answer, Texts, Hex
<1>2. <<r.op, r.pid>> # Nul
  <2>1. <<r.op, r.pid>>[1] = r.op /\ Nul[1] = "nul"
    BY DEF Nul
  <2> QED BY <2>1 DEF Texts
<1>3. <<"hex", x>> # Nul
  <2>1. <<"hex", x>>[1] = "hex" /\ Nul[1] = "nul"
    BY DEF Nul
  <2> QED BY <2>1
<1> QED BY <1>1, <1>2, <1>3

\* A user that is not touched keeps what it has.
LEMMA Untouched ==
    ASSUME NEW u \in Users, UNCHANGED <<upc[u], req[u], i[u], ret[u], shown[u]>>, Asked(u), UserInv(u),
           \/ UNCHANGED <<mmap_data, marked>>
           \/ marked' = marked /\ upc[u] \notin {"copy", "print"}
           \/ upc[u] \notin {"copy", "print", "shown"}
    PROVE  UserInv(u)'
<1>1. CASE UNCHANGED <<mmap_data, marked>>
  <2>1. \A k : Answer(req[u], k)' = Answer(req[u], k)
    BY <1>1 DEF Answer, Byte, Now, From
  <2>2. Size(req[u])' = Size(req[u])
    BY DEF Size, From, To
  <2>3. Copied(u)' <=> Copied(u)
    BY <1>1, <2>1 DEF Copied
  <2>4. Exact(u)' <=> Exact(u)
    BY <1>1, <2>2 DEF Exact, Now, Whole, Reached, From, To
  <2> QED BY <1>1, <2>2, <2>3, <2>4 DEF UserInv
<1>2. CASE marked' = marked /\ upc[u] \notin {"copy", "print"}
  <2>1. Size(req[u])' = Size(req[u])
    BY DEF Size, From, To
  <2>2. Exact(u)' <=> Exact(u)
    BY <1>2, <2>1 DEF Exact, Now, Whole, Reached, From, To
  <2> QED BY <1>2, <2>2 DEF UserInv
<1>3. CASE upc[u] \notin {"copy", "print", "shown"}
  BY <1>3 DEF UserInv
<1> QED BY <1>1, <1>2, <1>3

\* The invariant holds when no user has opened the device.
LEMMA ZPageInitInv ==
    ASSUME ZPageInit
    PROVE  ZPageInv
<1>1. ZPageTypes
  BY DEF ZPageInit, ZPageTypes
<1>2. \A u \in Users : upc[u] = "cmd"
  BY DEF ZPageInit
<1> QED BY <1>1, <1>2 DEF ZPageInv, Asked, UserInv

\* The step of a user v, by what it does to the others.
LEMMA OtherUsers ==
    ASSUME ZPageInv, ZPageTypes', NEW v \in Users, Asked(v)', v \notin disturbed' => UserInv(v)',
           \A u \in Users \ {v} : UNCHANGED <<upc[u], req[u], i[u], ret[u], shown[u]>>,
           \A u \in Users \ {v} : u \notin disturbed' => u \notin disturbed,
           \/ UNCHANGED <<mmap_data, marked>>
           \/ marked' = marked /\ Asking \ {v} \subseteq disturbed'
           \/ {u \in Users \ {v} : upc[u] \in {"copy", "print", "shown"}} \subseteq disturbed'
    PROVE  ZPageInv'
<1>1. ASSUME NEW u \in Users \ {v} PROVE Asked(u)'
  BY <1>1 DEF ZPageInv, Asked, Requests
<1>2. ASSUME NEW u \in Users \ {v}, u \notin disturbed' PROVE UserInv(u)'
  <2>1. Asked(u) /\ UserInv(u)
    BY <1>2 DEF ZPageInv
  <2>2. \/ UNCHANGED <<mmap_data, marked>>
        \/ marked' = marked /\ upc[u] \notin {"copy", "print"}
        \/ upc[u] \notin {"copy", "print", "shown"}
    BY <1>2 DEF Asking
  <2> QED BY <1>2, <2>1, <2>2, Untouched
<1> QED BY <1>1, <1>2 DEF ZPageInv

\* A cell of the page is written.
LEMMA Written ==
    ASSUME DOMAIN mmap_data = Cells, NEW a, NEW v,
           mmap_data' = [mmap_data EXCEPT ![a] = v]
    PROVE  /\ DOMAIN mmap_data' = Cells
           /\ \A k \in Cells : mmap_data'[k] = IF k = a THEN v ELSE mmap_data[k]
  OBVIOUS

\* Every step of a user or of the driver preserves the invariant.
LEMMA ZPageStepInv ==
    ASSUME ZPageInv, [ZPageNext]_zpvars
    PROVE  ZPageInv'
<1>0. ZPageTypes
  BY DEF ZPageInv
<1>1. ASSUME NEW v \in Users, NEW r \in Requests, Ioctl(v, r) PROVE ZPageInv'
  <2>1. /\ req' = [req EXCEPT ![v] = r] /\ i' = [i EXCEPT ![v] = 0] /\ disturbed' = disturbed \ {v}
        /\ UNCHANGED <<mmap_data, marked, ret, shown>>
    BY <1>1 DEF Ioctl
  <2>2. PICK to \in {"failure", "oops", "word", "copy"} : upc' = [upc EXCEPT ![v] = to]
    BY <1>1 DEF Ioctl, Goto
  <2>3. upc'[v] = to /\ req'[v] = r /\ i'[v] = 0
    BY <1>0, <2>1, <2>2 DEF ZPageTypes
  <2>4. to \in {"word", "copy"} => r.pid # Gone /\ (to = "word" <=> r.op = "word")
    <3>1. upc'[v] \in {"word", "copy"} => r.pid # Gone /\ (upc'[v] = "word" <=> r.op = "word")
      BY <1>0, <1>1 DEF Ioctl, Goto, ZPageTypes
    <3> QED BY <2>3, <3>1
  <2>5. r.pid # Gone => r.pid \in Tasks
    BY DEF Requests
  <2>6. ZPageTypes'
    BY <1>0, <2>1, <2>2 DEF ZPageTypes, Cells
  <2>7. Asked(v)'
    BY <2>3, <2>4, <2>5 DEF Asked, Requests
  <2>8. UserInv(v)'
    <3>1. \A k \in Cells : ~(k < 0)
      BY ZPageAssumption DEF Cells
    <3>2. Copied(v)'
      BY <2>3, <3>1 DEF Copied, Cells
    <3> QED BY <2>3, <3>2 DEF UserInv
  <2>9. \A u \in Users \ {v} : UNCHANGED <<upc[u], req[u], i[u], ret[u], shown[u]>>
    BY <1>0, <2>1, <2>2 DEF ZPageTypes
  <2> QED BY <2>1, <2>6, <2>7, <2>8, <2>9, OtherUsers
<1>2. ASSUME NEW v \in Users, Copy(v) PROVE ZPageInv'
  <2> DEFINE r == req[v]
  <2>1. /\ upc[v] = "copy" /\ i[v] =< To(r) - From(r)
        /\ mmap_data' = IF r.op \in Texts
                        THEN [mmap_data EXCEPT ![i[v]] = Answer(r, i[v]), ![i[v] + 1] = Nul]
                        ELSE [mmap_data EXCEPT ![i[v]] = Answer(r, i[v])]
        /\ i' = [i EXCEPT ![v] = @ + 1] /\ disturbed' = disturbed \cup (Asking \ {v})
        /\ UNCHANGED <<marked, upc, req, ret, shown>>
    BY <1>2 DEF Copy
  <2>2. /\ DOMAIN mmap_data' = Cells
        /\ \A k \in Cells : k # i[v] + 1 =>
              mmap_data'[k] = IF k = i[v] THEN Answer(r, i[v]) ELSE mmap_data[k]
    <3>1. PICK x : x = Answer(r, i[v])
      OBVIOUS
    <3>2. PICK n : n = i[v] + 1
      OBVIOUS
    <3>3. mmap_data' = IF r.op \in Texts THEN [[mmap_data EXCEPT ![i[v]] = x] EXCEPT ![n] = Nul]
                      ELSE [mmap_data EXCEPT ![i[v]] = x]
      BY <2>1, <3>1, <3>2
    <3> QED BY <1>0, <3>1, <3>2, <3>3 DEF ZPageTypes
  <2>3. Asked(v) /\ r \in Requests /\ r.pid \in Tasks
    BY <2>1 DEF ZPageInv, Asked
  <2>4. From(r) \in Nat /\ To(r) \in Int /\ Size(r) \in Int
    BY <2>3, Ends
  <2>5. i[v] \in Nat /\ i'[v] = i[v] + 1
    BY <1>0, <2>1 DEF ZPageTypes
  <2>6. ZPageTypes'
    <3>1. Asking \subseteq Users
      BY DEF Asking
    <3>2. i' \in [Users -> Nat]
      BY <1>0, <2>1 DEF ZPageTypes
    <3>3. Cells' = Cells
      BY DEF Cells
    <3> QED BY <1>0, <2>1, <2>2, <3>1, <3>2, <3>3 DEF ZPageTypes
  <2>7. Asked(v)'
    BY <2>1, <2>3 DEF Asked, Requests
  <2>8. ASSUME v \notin disturbed' PROVE UserInv(v)'
    <3>1. UserInv(v)
      BY <2>1, <2>8 DEF ZPageInv
    <3>2. \A k : Answer(r, k)' = Answer(r, k)
      BY <2>1 DEF Answer, Byte, Now, From
    <3>3. Copied(v)'
      <4> SUFFICES ASSUME NEW k \in Cells, k < i[v] + 1
                   PROVE  mmap_data'[k] = Answer(r, k)
        BY <2>1, <2>5, <3>2 DEF Copied, Cells
      <4>1. k \in Int
        BY DEF Cells
      <4>2. k = i[v] \/ k < i[v]
        <5>1. PICK n \in Nat : n = i[v]
          BY <2>5
        <5>2. k < n + 1
          BY <5>1
        <5>3. k = n \/ k < n
          BY <4>1, <5>2
        <5> QED BY <5>1, <5>3
      <4>3. k < i[v] => mmap_data[k] = Answer(r, k)
        BY <2>1, <3>1 DEF UserInv, Copied
      <4>4. k # i[v] + 1
        BY <2>5, <4>1
      <4> QED BY <2>2, <4>2, <4>3, <4>4
    <3>4. Size(r)' = Size(r)
      BY <2>1 DEF Size, From, To
    <3>5. i[v] + 1 =< Size(r)
      <4> HIDE DEF r
      <4> QED BY <2>1, <2>4, <2>5 DEF Size
    <3> QED BY <2>1, <2>5, <3>3, <3>4, <3>5 DEF UserInv
  <2>9. \A u \in Users \ {v} : UNCHANGED <<upc[u], req[u], i[u], ret[u], shown[u]>>
    BY <1>0, <2>1 DEF ZPageTypes
  <2> QED BY <2>1, <2>6, <2>7, <2>8, <2>9, OtherUsers
<1>3. ASSUME NEW v \in Users, Word(v) PROVE ZPageInv'
  <2>0. PICK word : shown' = [shown EXCEPT ![v] = word]
    BY <1>3 DEF Word
  <2>1. /\ upc[v] = "word"
        /\ disturbed' = disturbed \cup {x \in Users \ {v} : upc[x] \in {"copy", "print", "shown"}}
        /\ UNCHANGED <<mmap_data, req, i, ret>>
    BY <1>3 DEF Word
  <2>2. PICK to \in {"failure", "shown"} : upc' = [upc EXCEPT ![v] = to]
    BY <1>3 DEF Word, Goto
  <2>3. upc'[v] = to /\ Asked(v)
    BY <1>0, <2>2 DEF ZPageTypes, ZPageInv
  <2>4. ZPageTypes'
    <3>1. DOMAIN shown' = Users
      BY <1>0, <2>0 DEF ZPageTypes
    <3>2. upc' \in [Users -> {"cmd", "copy", "word", "print", "shown", "quit", "failure", "oops"}]
      BY <1>0, <2>2 DEF ZPageTypes
    <3>3. disturbed' \subseteq Users
      BY <1>0, <2>1 DEF ZPageTypes
    <3> QED BY <1>0, <2>1, <3>1, <3>2, <3>3 DEF ZPageTypes, Cells
  <2>5. Asked(v)'
    BY <2>1, <2>3 DEF Asked, Requests
  <2>6. UserInv(v)'
    <3>1. req'[v].op = "word"
      BY <2>1, <2>3 DEF Asked
    <3>2. Exact(v)'
      BY <3>1 DEF Exact
    <3> QED BY <2>3, <3>2 DEF UserInv
  <2>7. \A u \in Users \ {v} : UNCHANGED <<upc[u], req[u], i[u], ret[u], shown[u]>>
    BY <1>0, <2>0, <2>1, <2>2 DEF ZPageTypes
  <2> QED BY <2>1, <2>4, <2>5, <2>6, <2>7, OtherUsers
<1>4. ASSUME NEW v \in Users, IoctlReturn(v) PROVE ZPageInv'
  <2> DEFINE r == req[v]
             text == r.op \in Texts
  <2>1. /\ upc[v] = "copy" /\ i[v] > To(r) - From(r)
        /\ mmap_data' = IF text THEN [mmap_data EXCEPT ![i[v]] = Nul] ELSE mmap_data
        /\ disturbed' = IF text THEN disturbed \cup (Asking \ {v}) ELSE disturbed
        /\ ret' = [ret EXCEPT ![v] = IF r.op = "region" THEN r.to - r.from ELSE i[v]]
        /\ UNCHANGED <<marked, req, i, shown>>
    BY <1>4 DEF IoctlReturn
  <2>2. upc' = [upc EXCEPT ![v] = IF ret'[v] \in -MAX_ERRNO .. -1 THEN "failure" ELSE "print"]
    BY <1>4 DEF IoctlReturn, Goto
  <2>3. Asked(v) /\ r \in Requests /\ r.pid \in Tasks
    BY <2>1 DEF ZPageInv, Asked
  <2>4. /\ From(r) \in Nat /\ To(r) \in Int /\ Size(r) \in Int
        /\ r.op \in {"mm", "vma"} => Size(r) = 1
        /\ r.op = "region" => r.to - r.from = Size(r) - 1
    BY <2>3, Ends
  <2>5. i[v] \in Nat /\ i'[v] = i[v] /\ ret'[v] = IF r.op = "region" THEN r.to - r.from ELSE i[v]
    BY <1>0, <2>1 DEF ZPageTypes
  <2>6. upc'[v] = IF ret'[v] \in -MAX_ERRNO .. -1 THEN "failure" ELSE "print"
    BY <1>0, <2>2 DEF ZPageTypes
  <2>7. /\ DOMAIN mmap_data' = Cells
        /\ \A k \in Cells : mmap_data'[k] = IF text /\ k = i[v] THEN Nul ELSE mmap_data[k]
    BY <1>0, <2>1, Written DEF ZPageTypes
  <2>8. ZPageTypes'
    <3>1. Asking \subseteq Users /\ Cells' = Cells
      BY DEF Asking, Cells
    <3>2. upc' \in [Users -> {"cmd", "copy", "word", "print", "shown", "quit", "failure", "oops"}]
      BY <1>0, <2>2 DEF ZPageTypes
    <3>3. DOMAIN ret' = Users
      BY <1>0, <2>1 DEF ZPageTypes
    <3> QED BY <1>0, <2>1, <2>7, <3>1, <3>2, <3>3 DEF ZPageTypes
  <2>9. Asked(v)'
    BY <2>1, <2>3, <2>6 DEF Asked, Requests
  <2>10. ASSUME v \notin disturbed' PROVE UserInv(v)'
    <3>1. UserInv(v)
      BY <2>1, <2>10 DEF ZPageInv
    <3>2. \A k : Answer(r, k)' = Answer(r, k)
      BY <2>1 DEF Answer, Byte, Now, From
    <3>3. Copied(v)'
      <4> SUFFICES ASSUME NEW k \in Cells, k < i[v]
                   PROVE  mmap_data'[k] = Answer(r, k)
        BY <2>1, <3>2 DEF Copied, Cells
      <4>1. k \in Int
        BY DEF Cells
      <4>2. k # i[v]
        BY <2>5, <4>1
      <4>3. mmap_data[k] = Answer(r, k)
        BY <2>1, <3>1 DEF UserInv, Copied
      <4> QED BY <2>7, <4>2, <4>3
    <3>4. Size(r)' = Size(r)
      BY <2>1 DEF Size, From, To
    <3>5. i[v] = Size(r) \/ (i[v] = 0 /\ Size(r) =< 0)
      <4>1. i[v] = 0 \/ i[v] =< Size(r)
        BY <2>1, <3>1 DEF UserInv
      <4> HIDE DEF r
      <4> QED BY <2>1, <2>4, <2>5, <4>1 DEF Size
    <3>6. r.op \in Texts /\ i[v] \in Cells => mmap_data'[i[v]] = Nul
      BY <2>7
    <3>7. /\ r.op = "region" => ret'[v] = Size(r) - 1
          /\ r.op # "region" => ret'[v] = i[v]
      BY <2>4, <2>5
    <3>8. upc'[v] \in {"print", "failure"}
      BY <2>6
    <3> QED BY <2>1, <2>5, <3>3, <3>4, <3>5, <3>6, <3>7, <3>8 DEF UserInv, Nul, Cells, Texts
  <2>11. \A u \in Users \ {v} : UNCHANGED <<upc[u], req[u], i[u], ret[u], shown[u]>>
    BY <1>0, <2>1, <2>2 DEF ZPageTypes
  <2> QED BY <2>1, <2>8, <2>9, <2>10, <2>11, OtherUsers
<1>5. ASSUME NEW v \in Users, Show(v) PROVE ZPageInv'
  <2> DEFINE r == req[v]
  <2>1. /\ upc[v] = "print" /\ upc' = [upc EXCEPT ![v] = "shown"]
        /\ UNCHANGED <<mmap_data, marked, req, i, ret, disturbed>>
    BY <1>5 DEF Show, Goto
  <2>2. shown' = [shown EXCEPT ![v] =
            CASE r.op \in Texts -> Text
              [] r.op = "data" -> [k \in 1 .. ret[v] |-> mmap_data[k - 1]]
              [] OTHER -> [k \in 1 .. ret[v] + 1 |-> mmap_data[k - 1]]]
    BY <1>5 DEF Show
  <2>3. Asked(v) /\ r \in Requests /\ r.pid \in Tasks
    BY <2>1 DEF ZPageInv, Asked
  <2>4. /\ From(r) \in Nat /\ To(r) \in Int /\ Size(r) \in Int
        /\ r.op \in {"mm", "vma"} => Size(r) = 1
    BY <2>3, Ends
  <2>5. ZPageTypes'
    <3>1. DOMAIN shown' = Users
      BY <1>0, <2>2 DEF ZPageTypes
    <3>2. upc' \in [Users -> {"cmd", "copy", "word", "print", "shown", "quit", "failure", "oops"}]
      BY <1>0, <2>1 DEF ZPageTypes
    <3> QED BY <1>0, <2>1, <3>1, <3>2 DEF ZPageTypes, Cells
  <2>6. upc'[v] = "shown" /\ req'[v] = r /\ v \in DOMAIN shown
    BY <1>0, <2>1 DEF ZPageTypes
  <2>7. Asked(v)'
    BY <2>3, <2>6 DEF Asked, Requests
  <2>8. ASSUME v \notin disturbed' PROVE UserInv(v)'
    <3>1. UserInv(v)
      BY <2>1, <2>8 DEF ZPageInv
    <3>2. Copied(v) /\ (i[v] = Size(r) \/ (i[v] = 0 /\ Size(r) =< 0))
      BY <2>1, <3>1 DEF UserInv
    <3>0. ASSUME r.op \in Texts, 0 < Size(r), Size(r) < MMAP_LEN
          PROVE  /\ shown'[v] = [k \in 1 .. Size(r) |-> mmap_data[k - 1]]
                 /\ \A k \in Cells : k < Size(r) => mmap_data[k] = Answer(r, k)
      <4>1. i[v] = Size(r)
        <5> HIDE DEF r
        <5> QED BY <2>4, <3>0, <3>2
      <4>2. Size(r) \in Cells
        <5> HIDE DEF r
        <5> QED BY <2>4, <3>0, ZPageAssumption DEF Cells
      <4>3. mmap_data[Size(r)] = Nul
        BY <2>1, <3>0, <3>1, <4>1, <4>2 DEF UserInv
      <4>4. \A k \in Cells : k < Size(r) => mmap_data[k] = Answer(r, k)
        BY <3>2, <4>1 DEF Copied
      <4>5. \A k \in Cells : k < Size(r) => mmap_data[k] # Nul
        BY <3>0, <4>4, TextCells
      <4>6. PICK n \in Cells : n = Size(r)
        BY <4>2
      <4>7. Text = [k \in 1 .. n |-> mmap_data[k - 1]]
        <5>1. mmap_data[n] = Nul /\ \A j \in Cells : j < n => mmap_data[j] # Nul
          BY <4>3, <4>5, <4>6
        <5> QED BY <5>1, ShowsText
      <4>8. shown'[v] = Text
        BY <2>2, <2>6, <3>0 DEF Texts
      <4> QED BY <4>4, <4>6, <4>7, <4>8
    <3>3. ASSUME r.op \in {"mm", "vma"} PROVE shown'[v] = <<<<r.op, r.pid>>>>
      <4>1. r.op \in Texts /\ Size(r) = 1 /\ MMAP_LEN \in Nat \ {0, 1}
        BY <2>4, <3>3, ZPageAssumption DEF Texts
      <4>2. 0 < Size(r) /\ Size(r) < MMAP_LEN
        BY <4>1
      <4>3. shown'[v] = [k \in 1 .. 1 |-> mmap_data[k - 1]] /\ mmap_data[0] = Answer(r, 0)
        <5>1. 0 \in Cells
          BY <4>1 DEF Cells
        <5> QED BY <3>0, <4>1, <4>2, <5>1
      <4>4. Answer(r, 0) = <<r.op, r.pid>>
        BY <3>3 DEF Answer
      <4>5. \A k \in 1 .. 1 : mmap_data[k - 1] = <<r.op, r.pid>>
        BY <4>3, <4>4, 1 - 1 = 0
      <4>6. PICK x : x = <<r.op, r.pid>>
        OBVIOUS
      <4>7. [k \in 1 .. 1 |-> mmap_data[k - 1]] = <<x>>
        BY <4>5, <4>6
      <4> QED BY <4>3, <4>6, <4>7
    <3>31. ASSUME r.op = "args", Whole(r), 0 < Size(r), Size(r) < MMAP_LEN
           PROVE  shown'[v] = [k \in 1 .. Size(r) |-> Hex(Now(r.pid, From(r) + k - 1))]
      <4>1. r.op \in Texts
        BY <3>31 DEF Texts
      <4> QED BY <2>3, <3>0, <3>31, <4>1, ShowsArgs
    <3>4. ASSUME r.op \in {"data", "region"}, Whole(r)
          PROVE  shown'[v] = [k \in 1 .. Size(r) |-> Now(r.pid, From(r) + k - 1)]
      <4>1. CASE i[v] = Size(r)
        <5>1. \A k \in Cells : k < Size(r) => mmap_data[k] = Answer(r, k)
          BY <3>2, <4>1 DEF Copied
        <5>2. [k \in 1 .. Size(r) |-> mmap_data[k - 1]]
                = [k \in 1 .. Size(r) |-> Now(r.pid, From(r) + k - 1)]
          BY <2>3, <3>4, <5>1, ShowsData
        <5>3. (r.op = "data" => ret[v] = Size(r)) /\ (r.op = "region" => ret[v] = Size(r) - 1)
          BY <2>1, <3>1, <4>1 DEF UserInv
        <5>4. r.op = "region" => ret[v] + 1 = Size(r)
          <6>1. PICK s \in Int : s = Size(r)
            BY <2>4
          <6>2. r.op = "region" => ret[v] = s - 1
            BY <5>3, <6>1
          <6>3. (s - 1) + 1 = s
            OBVIOUS
          <6> QED BY <6>1, <6>2, <6>3, Zenon
        <5>5. shown'[v] = [k \in 1 .. Size(r) |-> mmap_data[k - 1]]
          BY <2>2, <2>6, <3>4, <5>3, <5>4 DEF Texts
        <5> QED BY <5>2, <5>5
      <4>2. CASE i[v] = 0 /\ Size(r) =< 0
        <5>1. PICK n \in Int : n =< 0 /\ shown'[v] = [k \in 1 .. n |-> mmap_data[k - 1]]
          <6>1. (r.op # "region" => ret[v] = i[v]) /\ (r.op = "region" => ret[v] = Size(r) - 1)
            BY <2>1, <3>1 DEF UserInv
          <6>2. CASE r.op = "data"
            BY <2>2, <2>6, <4>2, <6>1, <6>2 DEF Texts
          <6>3. CASE r.op = "region"
            <7>1. shown'[v] = [k \in 1 .. ret[v] + 1 |-> mmap_data[k - 1]]
              BY <2>2, <2>6, <6>3 DEF Texts
            <7>2. PICK s \in Int : s = Size(r)
              BY <2>4
            <7>3. ret[v] = s - 1 /\ s =< 0
              BY <4>2, <6>1, <6>3, <7>2
            <7>4. ret[v] + 1 = s
              BY <7>2, <7>3
            <7> QED BY <7>1, <7>3, <7>4
          <6> QED BY <3>4, <6>2, <6>3
        <5>2. 1 .. Size(r) = {} /\ 1 .. n = {}
          <6> HIDE DEF r
          <6> QED BY <2>4, <4>2, <5>1
        <5>3. shown'[v] = [k \in {} |-> mmap_data[k - 1]]
          BY <5>1, <5>2
        <5> QED BY <5>2, <5>3
      <4> QED BY <3>2, <4>1, <4>2
    <3>5. Size(r)' = Size(r) /\ (Whole(r)' <=> Whole(r))
      BY <2>1 DEF Size, Whole, Reached, From, To
    <3>6. From(r)' = From(r) /\ \A p, x : Now(p, x)' = Now(p, x)
      BY <2>1 DEF From, Now
    <3>7. Exact(v)'
      BY <2>1, <2>6, <3>3, <3>31, <3>4, <3>5, <3>6 DEF Exact, Hex
    <3> QED BY <2>6, <3>7 DEF UserInv
  <2>9. \A u \in Users \ {v} : UNCHANGED <<upc[u], req[u], i[u], ret[u], shown[u]>>
    BY <1>0, <2>1, <2>2 DEF ZPageTypes
  <2> QED BY <2>1, <2>5, <2>7, <2>8, <2>9, OtherUsers
<1>6. ASSUME NEW v \in Users, Prompt(v) PROVE ZPageInv'
  <2>1. /\ upc' = [upc EXCEPT ![v] = "cmd"] /\ req' = [req EXCEPT ![v] = [op |-> "none"]]
        /\ shown' = [shown EXCEPT ![v] = <<>>] /\ i' = [i EXCEPT ![v] = 0] /\ ret' = [ret EXCEPT ![v] = 0]
        /\ disturbed' = disturbed \ {v} /\ UNCHANGED <<mmap_data, marked>>
    BY <1>6 DEF Prompt, Goto
  <2>2. ZPageTypes'
    BY <1>0, <2>1 DEF ZPageTypes, Cells
  <2>3. upc'[v] = "cmd"
    BY <1>0, <2>1 DEF ZPageTypes
  <2>4. Asked(v)' /\ UserInv(v)'
    BY <2>3 DEF Asked, UserInv
  <2>5. \A u \in Users \ {v} : UNCHANGED <<upc[u], req[u], i[u], ret[u], shown[u]>>
    BY <1>0, <2>1 DEF ZPageTypes
  <2> QED BY <2>1, <2>2, <2>4, <2>5, OtherUsers
<1>7. ASSUME NEW v \in Users, QuitUser(v) PROVE ZPageInv'
  <2>1. upc' = [upc EXCEPT ![v] = "quit"] /\ UNCHANGED <<mmap_data, marked, req, i, ret, shown, disturbed>>
    BY <1>7 DEF QuitUser, Goto
  <2>2. ZPageTypes'
    BY <1>0, <2>1 DEF ZPageTypes, Cells
  <2>3. upc'[v] = "quit"
    BY <1>0, <2>1 DEF ZPageTypes
  <2>4. Asked(v)' /\ UserInv(v)'
    BY <2>3 DEF Asked, UserInv
  <2>5. \A u \in Users \ {v} : UNCHANGED <<upc[u], req[u], i[u], ret[u], shown[u]>>
    BY <1>0, <2>1 DEF ZPageTypes
  <2> QED BY <2>1, <2>2, <2>4, <2>5, OtherUsers
<1>8. CASE UNCHANGED zpvars
  <2>1. UNCHANGED <<mmap_data, marked, upc, req, i, ret, shown, disturbed>>
    BY <1>8 DEF zpvars
  <2>2. ZPageTypes'
    BY <1>0, <2>1 DEF ZPageTypes, Cells
  <2>3. \A u \in Users : Asked(u)'
    BY <2>1 DEF ZPageInv, Asked, Requests
  <2>4. ASSUME NEW u \in Users \ disturbed' PROVE UserInv(u)'
    <3>1. Asked(u) /\ UserInv(u)
      BY <2>1, <2>4 DEF ZPageInv
    <3> QED BY <2>1, <3>1, Untouched
  <2> QED BY <2>2, <2>3, <2>4 DEF ZPageInv
<1> QED BY <1>1, <1>2, <1>3, <1>4, <1>5, <1>6, <1>7, <1>8 DEF ZPageNext, ZPageTerminated

\* What user.c prints of the page it shares with the others (zpage.c's
\* my_ioctl writes it) is the answer to its request, the arguments included,
\* unless another user's ioctl came between or the walk of one page does not
\* reach all of it: for any number of users and tasks, any memory, any pages
\* absent from it and any page size.
THEOREM AnswerExactHolds ==
    ZPageSpec => []AnswerExact
<1>1. ZPageInit => ZPageInv
  BY ZPageInitInv
<1>2. ZPageInv /\ [ZPageNext]_zpvars => ZPageInv'
  BY ZPageStepInv
<1>3. ZPageInv => AnswerExact
  <2> SUFFICES ASSUME ZPageInv, NEW u \in Users \ disturbed, upc[u] = "shown"
               PROVE  LET r == req[u]
                          t == r.pid
                      IN
                      /\ r.op \in {"mm", "vma"} => shown[u] = <<<<r.op, t>>>>
                      /\ r.op = "args" /\ Reached(t, Args[t].from, Args[t].to)
                            /\ 0 =< Args[t].to - Args[t].from /\ Args[t].to - Args[t].from + 1 < MMAP_LEN =>
                            shown[u] = [k \in 1 .. Args[t].to - Args[t].from + 1 |->
                                          Hex(Now(t, Args[t].from + k - 1))]
                      /\ r.op = "data" /\ Reached(t, Data[t].from, Data[t].to - 1) =>
                            shown[u] = BytesOf(t, Data[t].from, Data[t].to - 1)
                      /\ r.op = "region" /\ Reached(t, r.from, r.to) => shown[u] = BytesOf(t, r.from, r.to)
    BY DEF AnswerExact
  <2> DEFINE r == req[u]
             t == r.pid
  <2>1. Exact(u) /\ r \in Requests /\ t \in Tasks
    BY DEF ZPageInv, UserInv, Asked
  <2>2. r.op \in {"mm", "vma"} => shown[u] = <<<<r.op, t>>>>
    BY <2>1 DEF Exact
  <2>3. ASSUME r.op = "args", Reached(t, Args[t].from, Args[t].to),
               0 =< Args[t].to - Args[t].from, Args[t].to - Args[t].from + 1 < MMAP_LEN
        PROVE  shown[u] = [k \in 1 .. Args[t].to - Args[t].from + 1 |->
                              Hex(Now(t, Args[t].from + k - 1))]
    <3>1. From(r) = Args[t].from /\ To(r) = Args[t].to /\ Size(r) = Args[t].to - Args[t].from + 1
      BY <2>3 DEF From, To, Size
    <3>2. Whole(r)
      BY <2>3, <3>1 DEF Whole
    <3>3. 0 < Size(r) /\ Size(r) < MMAP_LEN
      <4>1. From(r) \in Nat /\ To(r) \in Int
        BY <2>1, Ends
      <4>2. PICK a \in Int, b \in Int : a = Args[t].from /\ b = Args[t].to
        BY <3>1, <4>1
      <4>3. 0 =< b - a /\ b - a + 1 < MMAP_LEN /\ Size(r) = b - a + 1
        BY <2>3, <3>1, <4>2
      <4> HIDE DEF r, t
      <4> QED BY <4>2, <4>3
    <3>4. shown[u] = [k \in 1 .. Size(r) |-> Hex(Now(r.pid, From(r) + k - 1))]
      BY <2>1, <2>3, <3>2, <3>3 DEF Exact
    <3> HIDE DEF r
    <3> QED BY <3>1, <3>4
  <2>4. ASSUME r.op = "data", Reached(t, Data[t].from, Data[t].to - 1)
        PROVE  shown[u] = BytesOf(t, Data[t].from, Data[t].to - 1)
    <3>1. From(r) = Data[t].from /\ To(r) = Data[t].to - 1
      BY <2>4 DEF From, To
    <3>2. Whole(r)
      BY <2>4, <3>1 DEF Whole
    <3> QED BY <2>1, <2>4, <3>1, <3>2 DEF Exact, Size, BytesOf
  <2>5. ASSUME r.op = "region", Reached(t, r.from, r.to)
        PROVE  shown[u] = BytesOf(t, r.from, r.to)
    <3>1. From(r) = r.from /\ To(r) = r.to
      BY <2>5 DEF From, To
    <3>2. Whole(r)
      BY <2>5, <3>1 DEF Whole
    <3> QED BY <2>1, <2>5, <3>1, <3>2 DEF Exact, Size, BytesOf
  <2> QED BY <2>2, <2>3, <2>4, <2>5
<1> QED BY <1>1, <1>2, <1>3, PTL DEF ZPageSpec

-----------------------------------------------------------------------------
(***************************************************************************)
(* CgroupLimit, for every set of processes, threads, limits and subcom-    *)
(* mands.  CgroupInv has, besides the types, the places an invocation can  *)
(* be at with what its commands so far have done (PlaceInv), and the marks *)
(* of the net_cls groups that exist, with the one in hand excepted         *)
(* (MarksInv), in the behaviours where the marks can be relied on (Tame).  *)
(***************************************************************************)

Ops == {"cpu", "mem", "blkio", "net", "cpu-C", "mem-C", "blkio-C", "net-C", "clear", "clearall"}

CgroupTypes ==
    /\ groups \in [Controllers -> SUBSET Pids]
    /\ DOMAIN conf = Controllers
    /\ \A c \in Controllers : DOMAIN conf[c] = Pids /\ \A p \in Pids : DOMAIN conf[c][p] = Keys
    /\ member \in [Controllers -> [Threads -> Pids \cup {Root}]]
    /\ Pids \subseteq Live /\ Live \subseteq Threads /\ listed \subseteq Live
    /\ status \in {"idle", "running", "ok", "abort"}
    /\ cmd.op \in Ops \cup {"none"} /\ (cmd.op = "none" <=> status = "idle")
    /\ cmd.op \notin {"none", "clearall"} => cmd.p \in Pids
    /\ cmd.op = "mem" => cmd.v \in Nat
    /\ cmd.op = "cpu" => cmd.spid \in BOOLEAN
    /\ failed \subseteq faults

\* The behaviours in which no failure is harmful and the device has no qdisc of
\* another kind.
Tame == faults \cap Harmful = {} /\ qdisc # "other"

\* Where an invocation is, by the commands it has left, and what those behind
\* have done.
CpuLast == IF cmd.spid THEN Classify("cpu", cmd.p) ELSE Step("list")
Moves   == {Classify("cpu", t) : t \in Threads}

CpuAt ==
    \/ todo = <<Create("cpu"), Set("cpu", "quota", cmd.v), CpuLast>>
    \/ todo = <<Set("cpu", "quota", cmd.v), CpuLast>>
    \/ todo = <<CpuLast>> /\ cmd.p \in groups["cpu"]
    \/ /\ todo \in Seq(Moves) /\ cmd.p \in groups["cpu"]
       /\ ~cmd.spid /\ "classify" \notin failed =>
            \A t \in listed : \/ member["cpu"][t] = cmd.p
                              \/ \E k \in 1 .. Len(todo) : todo[k] = Classify("cpu", t)

MemAt ==
    LET f == conf["memory"][cmd.p] IN
    \/ todo = <<Create("memory"), Set("memory", "limit", cmd.v), Set("memory", "memsw", cmd.v),
                Classify("memory", cmd.p)>>
    \/ /\ todo = <<Set("memory", "limit", cmd.v), Set("memory", "memsw", cmd.v), Classify("memory", cmd.p)>>
       /\ failed = {} => f["memsw"] = Unset
    \/ /\ todo = <<Set("memory", "memsw", cmd.v), Classify("memory", cmd.p)>>
       /\ failed = {} => f["limit"] = <<cmd.v>>
    \/ /\ todo = <<Classify("memory", cmd.p)>> /\ cmd.p \in groups["memory"]
       /\ failed = {} => f["limit"] = <<cmd.v>> /\ f["memsw"] = <<cmd.v>>
    \/ /\ todo = <<>>
       /\ failed = {} => /\ member["memory"][cmd.p] = cmd.p
                         /\ f["limit"] = <<cmd.v>> /\ f["memsw"] = <<cmd.v>>

BlkioAt ==
    \/ todo = <<Create("blkio"), Set("blkio", "throttle", cmd.v), Classify("blkio", cmd.p)>>
    \/ todo = <<Set("blkio", "throttle", cmd.v), Classify("blkio", cmd.p)>>
    \/ todo = <<Classify("blkio", cmd.p)>>
    \/ todo = <<>>

Classed  == Tame => Htb /\ cmd.p \in classes
Filtered == Tame => Htb /\ cmd.p \in classes /\ filter

NetAt ==
    \/ todo = <<Step("qdisc"), Step("class"), Step("filter"), Create("net_cls"), Step("setclassid"),
                Classify("net_cls", cmd.p)>>
    \/ /\ todo = <<Step("class"), Step("filter"), Create("net_cls"), Step("setclassid"),
                   Classify("net_cls", cmd.p)>>
       /\ Tame => Htb
    \/ /\ todo = <<Step("filter"), Create("net_cls"), Step("setclassid"), Classify("net_cls", cmd.p)>>
       /\ Classed
    \/ todo = <<Create("net_cls"), Step("setclassid"), Classify("net_cls", cmd.p)>> /\ Filtered
    \/ todo = <<Step("setclassid"), Classify("net_cls", cmd.p)>> /\ Filtered
    \/ todo = <<Classify("net_cls", cmd.p)>>
    \/ todo = <<>>

NetClearAt ==
    \/ todo = <<Step("classdel"), Delete("net_cls", cmd.p)>>
    \/ todo = <<Delete("net_cls", cmd.p)>>
    \/ todo = <<>>

OwnClearAt(c) == todo = <<Delete(c, cmd.p)>> \/ todo = <<>>

Deletes == {Delete(m[1], m[2]) : m \in Controllers \X Pids}

ClearAt ==
    \/ todo = <<Step("lscgroup")>>
    \/ todo = <<>>
    \/ \E s \in Seq(Deletes) : todo = s \o <<Step("qdiscdel")>>

\* clear -A: no group is forgotten.
ClearAllAt ==
    \/ todo = <<Step("lscgroup")>>
    \/ /\ "delete" \notin failed =>
            \A c \in Controllers : \A p \in groups[c] : \E k \in 1 .. Len(todo) : todo[k] = Delete(c, p)
       /\ todo = <<>> /\ "qdiscdel" \notin failed => qdisc # OurMajor

PlaceInv ==
    /\ status # "running" => todo = <<>>
    /\ status \in {"running", "ok"} =>
        /\ cmd.op = "cpu" => CpuAt
        /\ cmd.op = "mem" => MemAt
        /\ cmd.op = "blkio" => BlkioAt
        /\ cmd.op = "net" => NetAt
        /\ cmd.op = "cpu-C" => OwnClearAt("cpu")
        /\ cmd.op = "mem-C" => OwnClearAt("memory")
        /\ cmd.op = "blkio-C" => OwnClearAt("blkio")
        /\ cmd.op = "net-C" => NetClearAt
        /\ cmd.op \in {"clear", "clearall"} => ClearAt
        /\ cmd.op = "clearall" => ClearAllAt

\* A group of net_cls has its mark and its class, but for the one that the
\* invocation is about to mark or to delete.
Marked(p) == conf["net_cls"][p]["classid"] = <<qdisc, p>> /\ p \in classes /\ filter /\ Htb
InHand(p) ==
    /\ status = "running" /\ p = cmd.p
    /\ \/ cmd.op = "net"   /\ todo = <<Step("setclassid"), Classify("net_cls", cmd.p)>>
       \/ cmd.op = "net-C" /\ todo = <<Delete("net_cls", cmd.p)>>

MarksInv == Tame => \A p \in groups["net_cls"] : Marked(p) \/ InHand(p)

CgroupInv == CgroupTypes /\ PlaceInv /\ MarksInv

-------------------------------------------------------------------------------
\* A sequence without repetitions that is as long as a finite set is large
\* has every element of the set.
LEMMA Onto ==
    ASSUME NEW S, IsFiniteSet(S), NEW f \in SetToSeqs(S)
    PROVE  f \in Seq(S) /\ \A x \in S : \E k \in 1 .. Len(f) : f[k] = x
<1> DEFINE n == Cardinality(S)
<1>1. n \in Nat
  BY FS_CardinalityType
<1>2. f \in [1 .. n -> S] /\ \A j, k \in 1 .. n : j # k => f[j] # f[k]
  BY DEF SetToSeqs
<1>3. f \in Seq(S) /\ Len(f) = n
  <2> HIDE DEF n
  <2> QED BY <1>1, <1>2
<1>4. ASSUME NEW x \in S, \A k \in 1 .. n : f[k] # x PROVE FALSE
  <2> DEFINE T == S \ {x}
  <2>1. IsFiniteSet(T) /\ Cardinality(T) = n - 1
    BY <1>4, FS_RemoveElement
  <2>2. f \in [1 .. n -> T]
    BY <1>2, <1>4
  <2>3. IsFiniteSet(1 .. n) /\ Cardinality(1 .. n) = n
    <3> HIDE DEF n
    <3> QED BY <1>1, FS_Interval
  <2> HIDE DEF n, T
  <2>4. Cardinality(T) < Cardinality(1 .. n)
    BY <1>1, <2>1, <2>3
  <2>5. \E j, k \in 1 .. n : j # k /\ f[j] = f[k]
    BY <2>1, <2>2, <2>3, <2>4, FS_PigeonHole
  <2> QED BY <1>2, <2>5
<1> QED BY <1>3, <1>4

\* The same when the elements are mapped, as the two places that list things do.
LEMMA ThreadsFinite ==
    IsFiniteSet(Threads) /\ IsFiniteSet(Controllers \X Pids)
<1>1. IsFiniteSet(Threads)
  BY FS_Union, CgroupAssumption DEF Threads
<1>2. IsFiniteSet(Controllers)
  <2>1. IsFiniteSet({})
    BY FS_EmptySet
  <2>2. IsFiniteSet({} \cup {"cpu"})
    BY <2>1, FS_AddElement
  <2>3. IsFiniteSet(({} \cup {"cpu"}) \cup {"memory"})
    BY <2>2, FS_AddElement
  <2>4. IsFiniteSet((({} \cup {"cpu"}) \cup {"memory"}) \cup {"blkio"})
    BY <2>3, FS_AddElement
  <2>5. IsFiniteSet(((({} \cup {"cpu"}) \cup {"memory"}) \cup {"blkio"}) \cup {"net_cls"})
    BY <2>4, FS_AddElement
  <2>6. Controllers = ((({} \cup {"cpu"}) \cup {"memory"}) \cup {"blkio"}) \cup {"net_cls"}
    BY DEF Controllers
  <2> QED BY <2>5, <2>6
<1>3. IsFiniteSet(Pids)
  BY CgroupAssumption
<1> QED BY <1>1, <1>2, <1>3, FS_Product

\* The commands left after one of them has run.
LEMMA Drops ==
    ASSUME NEW a, NEW b, NEW c, NEW d, NEW e, NEW f
    PROVE  /\ Head(<<a>>) = a /\ <<>> \o Tail(<<a>>) = <<>>
           /\ Head(<<a, b>>) = a /\ <<>> \o Tail(<<a, b>>) = <<b>>
           /\ Head(<<a, b, c>>) = a /\ <<>> \o Tail(<<a, b, c>>) = <<b, c>>
           /\ Head(<<a, b, c, d>>) = a /\ <<>> \o Tail(<<a, b, c, d>>) = <<b, c, d>>
           /\ Head(<<a, b, c, d, e>>) = a /\ <<>> \o Tail(<<a, b, c, d, e>>) = <<b, c, d, e>>
           /\ Head(<<a, b, c, d, e, f>>) = a /\ <<>> \o Tail(<<a, b, c, d, e, f>>) = <<b, c, d, e, f>>
<1>1. Head(<<a>>) = a /\ <<>> \o Tail(<<a>>) = <<>>
  OBVIOUS
<1>2. Head(<<a, b>>) = a /\ <<>> \o Tail(<<a, b>>) = <<b>>
  OBVIOUS
<1>3. Head(<<a, b, c>>) = a /\ <<>> \o Tail(<<a, b, c>>) = <<b, c>>
  OBVIOUS
<1>4. Head(<<a, b, c, d>>) = a /\ <<>> \o Tail(<<a, b, c, d>>) = <<b, c, d>>
  OBVIOUS
<1>5. Head(<<a, b, c, d, e>>) = a /\ <<>> \o Tail(<<a, b, c, d, e>>) = <<b, c, d, e>>
  OBVIOUS
<1>6. Head(<<a, b, c, d, e, f>>) = a /\ <<>> \o Tail(<<a, b, c, d, e, f>>) = <<b, c, d, e, f>>
  OBVIOUS
<1> QED BY <1>1, <1>2, <1>3, <1>4, <1>5, <1>6

\* What follows the first of some commands.
LEMMA DropMoves ==
    ASSUME NEW S, NEW s \in Seq(S), s # <<>>
    PROVE  /\ Head(s) \in S /\ <<>> \o Tail(s) \in Seq(S) /\ <<>> \o Tail(s) = Tail(s)
           /\ \A k \in 1 .. Len(s) : s[k] = Head(s) \/ \E j \in 1 .. Len(Tail(s)) : Tail(s)[j] = s[k]
<1>1. Head(s) \in S /\ Tail(s) \in Seq(S) /\ Len(s) \in Nat \ {0}
  OBVIOUS
<1>2. Head(s) = s[1] /\ Len(Tail(s)) = Len(s) - 1 /\ \A k \in 1 .. Len(s) - 1 : Tail(s)[k] = s[k + 1]
  OBVIOUS
<1>3. <<>> \o Tail(s) = Tail(s)
  BY <1>1
<1>4. ASSUME NEW k \in 1 .. Len(s), k # 1 PROVE \E j \in 1 .. Len(Tail(s)) : Tail(s)[j] = s[k]
  <2>1. k - 1 \in 1 .. Len(s) - 1 /\ (k - 1) + 1 = k
    BY <1>1, <1>4
  <2>2. Tail(s)[k - 1] = s[k]
    BY <1>2, <2>1
  <2> QED BY <1>2, <2>1, <2>2
<1> QED BY <1>1, <1>2, <1>3, <1>4

\* What follows the deletions of a clear.
LEMMA DropDeletes ==
    ASSUME NEW S, NEW s \in Seq(S), NEW q
    PROVE  /\ s \o <<q>> # <<>>
           /\ s = <<>> => Head(s \o <<q>>) = q /\ <<>> \o Tail(s \o <<q>>) = <<>>
           /\ s # <<>> => /\ Head(s \o <<q>>) = Head(s) /\ Head(s) \in S
                          /\ <<>> \o Tail(s \o <<q>>) = Tail(s) \o <<q>> /\ Tail(s) \in Seq(S)
<1> DEFINE T == S \cup {q}
<1>1. s \in Seq(T) /\ <<q>> \in Seq(T)
  OBVIOUS
<1> QED BY <1>1

-------------------------------------------------------------------------------
\* The command at the head of the list and the ones left after it.
Left == <<>> \o Tail(todo)

\* The places of `cpu'.
LEMMA CpuHead ==
    ASSUME CpuAt, todo # <<>>
    PROVE  \/ Head(todo) = Create("cpu") /\ Left = <<Set("cpu", "quota", cmd.v), CpuLast>>
           \/ Head(todo) = Set("cpu", "quota", cmd.v) /\ Left = <<CpuLast>>
           \/ Head(todo) = CpuLast /\ Left = <<>> /\ Tail(todo) = <<>> /\ cmd.p \in groups["cpu"]
           \/ /\ Head(todo) \in Moves /\ Left \in Seq(Moves) /\ cmd.p \in groups["cpu"]
              /\ ~cmd.spid /\ "classify" \notin failed =>
                   \A t \in listed : \/ member["cpu"][t] = cmd.p
                                     \/ Head(todo) = Classify("cpu", t)
                                     \/ \E k \in 1 .. Len(Left) : Left[k] = Classify("cpu", t)
<1>1. CASE todo = <<Create("cpu"), Set("cpu", "quota", cmd.v), CpuLast>>
  BY <1>1 DEF Left
<1>2. CASE todo = <<Set("cpu", "quota", cmd.v), CpuLast>>
  BY <1>2 DEF Left
<1>3. CASE todo = <<CpuLast>> /\ cmd.p \in groups["cpu"]
  BY <1>3 DEF Left
<1>4. CASE /\ todo \in Seq(Moves) /\ cmd.p \in groups["cpu"]
           /\ ~cmd.spid /\ "classify" \notin failed =>
                \A t \in listed : \/ member["cpu"][t] = cmd.p
                                  \/ \E k \in 1 .. Len(todo) : todo[k] = Classify("cpu", t)
  <2> DEFINE S == Moves
  <2> HIDE DEF S
  <2>1. todo \in Seq(S)
    BY <1>4 DEF S
  <2>2. /\ Head(todo) \in S /\ Left \in Seq(S) /\ Left = Tail(todo)
        /\ \A k \in 1 .. Len(todo) : todo[k] = Head(todo) \/ \E j \in 1 .. Len(Tail(todo)) : Tail(todo)[j] = todo[k]
    BY <2>1, DropMoves DEF Left
  <2> QED BY <1>4, <2>2 DEF S
<1> QED BY <1>1, <1>2, <1>3, <1>4 DEF CpuAt

\* The places of `mem'.
LEMMA MemHead ==
    ASSUME MemAt, todo # <<>>
    PROVE  \/ /\ Head(todo) = Create("memory")
              /\ Left = <<Set("memory", "limit", cmd.v), Set("memory", "memsw", cmd.v),
                          Classify("memory", cmd.p)>>
           \/ /\ Head(todo) = Set("memory", "limit", cmd.v)
              /\ Left = <<Set("memory", "memsw", cmd.v), Classify("memory", cmd.p)>>
              /\ failed = {} => conf["memory"][cmd.p]["memsw"] = Unset
           \/ /\ Head(todo) = Set("memory", "memsw", cmd.v) /\ Left = <<Classify("memory", cmd.p)>>
              /\ failed = {} => conf["memory"][cmd.p]["limit"] = <<cmd.v>>
           \/ /\ Head(todo) = Classify("memory", cmd.p) /\ Left = <<>> /\ cmd.p \in groups["memory"]
              /\ failed = {} => conf["memory"][cmd.p]["limit"] = <<cmd.v>> /\ conf["memory"][cmd.p]["memsw"] = <<cmd.v>>
<1>1. CASE todo = <<Create("memory"), Set("memory", "limit", cmd.v), Set("memory", "memsw", cmd.v),
                    Classify("memory", cmd.p)>>
  BY <1>1 DEF Left
<1>2. CASE /\ todo = <<Set("memory", "limit", cmd.v), Set("memory", "memsw", cmd.v),
                       Classify("memory", cmd.p)>>
           /\ failed = {} => conf["memory"][cmd.p]["memsw"] = Unset
  BY <1>2 DEF Left
<1>3. CASE /\ todo = <<Set("memory", "memsw", cmd.v), Classify("memory", cmd.p)>>
           /\ failed = {} => conf["memory"][cmd.p]["limit"] = <<cmd.v>>
  BY <1>3 DEF Left
<1>4. CASE /\ todo = <<Classify("memory", cmd.p)>> /\ cmd.p \in groups["memory"]
           /\ failed = {} => conf["memory"][cmd.p]["limit"] = <<cmd.v>> /\ conf["memory"][cmd.p]["memsw"] = <<cmd.v>>
  BY <1>4 DEF Left
<1> QED BY <1>1, <1>2, <1>3, <1>4 DEF MemAt

\* The places of `blkio'.
LEMMA BlkioHead ==
    ASSUME BlkioAt, todo # <<>>
    PROVE  \/ /\ Head(todo) = Create("blkio")
              /\ Left = <<Set("blkio", "throttle", cmd.v), Classify("blkio", cmd.p)>>
           \/ Head(todo) = Set("blkio", "throttle", cmd.v) /\ Left = <<Classify("blkio", cmd.p)>>
           \/ Head(todo) = Classify("blkio", cmd.p) /\ Left = <<>>
<1>1. CASE todo = <<Create("blkio"), Set("blkio", "throttle", cmd.v), Classify("blkio", cmd.p)>>
  BY <1>1 DEF Left
<1>2. CASE todo = <<Set("blkio", "throttle", cmd.v), Classify("blkio", cmd.p)>>
  BY <1>2 DEF Left
<1>3. CASE todo = <<Classify("blkio", cmd.p)>>
  BY <1>3 DEF Left
<1> QED BY <1>1, <1>2, <1>3 DEF BlkioAt

\* The places of `net'.
LEMMA NetHead ==
    ASSUME NetAt, todo # <<>>
    PROVE  \/ /\ Head(todo) = Step("qdisc")
              /\ Left = <<Step("class"), Step("filter"), Create("net_cls"), Step("setclassid"),
                          Classify("net_cls", cmd.p)>>
           \/ /\ Head(todo) = Step("class") /\ (Tame => Htb)
              /\ Left = <<Step("filter"), Create("net_cls"), Step("setclassid"),
                          Classify("net_cls", cmd.p)>>
           \/ /\ Head(todo) = Step("filter") /\ Classed
              /\ Left = <<Create("net_cls"), Step("setclassid"), Classify("net_cls", cmd.p)>>
           \/ /\ Head(todo) = Create("net_cls") /\ Filtered
              /\ Left = <<Step("setclassid"), Classify("net_cls", cmd.p)>>
           \/ /\ Head(todo) = Step("setclassid") /\ Filtered /\ Left = <<Classify("net_cls", cmd.p)>>
           \/ Head(todo) = Classify("net_cls", cmd.p) /\ Left = <<>>
<1>1. CASE todo = <<Step("qdisc"), Step("class"), Step("filter"), Create("net_cls"),
                    Step("setclassid"), Classify("net_cls", cmd.p)>>
  BY <1>1 DEF Left
<1>2. CASE /\ todo = <<Step("class"), Step("filter"), Create("net_cls"), Step("setclassid"),
                       Classify("net_cls", cmd.p)>>
           /\ Tame => Htb
  BY <1>2 DEF Left
<1>3. CASE /\ todo = <<Step("filter"), Create("net_cls"), Step("setclassid"), Classify("net_cls", cmd.p)>>
           /\ Classed
  BY <1>3 DEF Left
<1>4. CASE todo = <<Create("net_cls"), Step("setclassid"), Classify("net_cls", cmd.p)>> /\ Filtered
  BY <1>4 DEF Left
<1>5. CASE todo = <<Step("setclassid"), Classify("net_cls", cmd.p)>> /\ Filtered
  BY <1>5 DEF Left
<1>6. CASE todo = <<Classify("net_cls", cmd.p)>>
  BY <1>6 DEF Left
<1> QED BY <1>1, <1>2, <1>3, <1>4, <1>5, <1>6 DEF NetAt

\* The place of a -C that deletes one group.
LEMMA OwnClearHead ==
    ASSUME NEW c, OwnClearAt(c), todo # <<>>
    PROVE  Head(todo) = Delete(c, cmd.p) /\ Left = <<>>
<1>1. todo = <<Delete(c, cmd.p)>>
  BY DEF OwnClearAt
<1> QED BY <1>1 DEF Left

\* The places of `net -C'.
LEMMA NetClearHead ==
    ASSUME NetClearAt, todo # <<>>
    PROVE  \/ Head(todo) = Step("classdel") /\ Left = <<Delete("net_cls", cmd.p)>>
           \/ Head(todo) = Delete("net_cls", cmd.p) /\ Left = <<>>
<1>1. CASE todo = <<Step("classdel"), Delete("net_cls", cmd.p)>>
  BY <1>1 DEF Left
<1>2. CASE todo = <<Delete("net_cls", cmd.p)>>
  BY <1>2 DEF Left
<1> QED BY <1>1, <1>2 DEF NetClearAt

\* The places of `clear'.
LEMMA ClearHead ==
    ASSUME ClearAt, todo # <<>>
    PROVE  \/ Head(todo) = Step("lscgroup") /\ Tail(todo) = <<>>
           \/ Head(todo) = Step("qdiscdel") /\ Left = <<>> /\ todo = <<Step("qdiscdel")>>
           \/ /\ Head(todo) \in Deletes /\ Left # <<>>
              /\ \A k \in 1 .. Len(todo) : todo[k] = Head(todo) \/ \E j \in 1 .. Len(Left) : Left[j] = todo[k]
              /\ \E s \in Seq(Deletes) : Left = s \o <<Step("qdiscdel")>>
<1>1. CASE todo = <<Step("lscgroup")>>
  BY <1>1 DEF Left
<1>2. CASE \E s \in Seq(Deletes) : todo = s \o <<Step("qdiscdel")>>
  <2> DEFINE S == Deletes
  <2> HIDE DEF S
  <2>1. PICK s \in Seq(S) : todo = s \o <<Step("qdiscdel")>>
    BY <1>2 DEF S
  <2>2. CASE s = <<>>
    <3>1. todo = <<Step("qdiscdel")>>
      BY <2>1, <2>2
    <3> QED BY <3>1 DEF Left
  <2>3. CASE s # <<>>
    <3>1. /\ Head(todo) = Head(s) /\ Head(s) \in S
          /\ Left = Tail(s) \o <<Step("qdiscdel")>> /\ Tail(s) \in Seq(S)
      BY <2>1, <2>3, DropDeletes DEF Left
    <3>2. Left # <<>>
      BY <3>1, DropDeletes
    <3> DEFINE T == S \cup {Step("qdiscdel")}
    <3>3. todo \in Seq(T)
      BY <2>1
    <3> HIDE DEF T
    <3>4. /\ Left = Tail(todo)
          /\ \A k \in 1 .. Len(todo) : todo[k] = Head(todo) \/ \E j \in 1 .. Len(Tail(todo)) : Tail(todo)[j] = todo[k]
      BY <3>3, DropMoves DEF Left
    <3> QED BY <3>1, <3>2, <3>4 DEF S
  <2> QED BY <2>2, <2>3
<1> QED BY <1>1, <1>2 DEF ClearAt

\* What a command at the head of the list is about.
Shape ==
    /\ Head(todo).do = "create" => Head(todo).c \in Controllers /\ cmd.p \in Pids
    /\ Head(todo).do = "set" => /\ Head(todo).c \in Controllers /\ Head(todo).k \in Keys \ {"classid"}
                                /\ Head(todo).c # "net_cls" /\ cmd.p \in Pids
    /\ Head(todo).do = "classify" => /\ Head(todo).c \in Controllers /\ Head(todo).t \in Threads
                                     /\ cmd.p \in Pids
    /\ Head(todo).do = "delete" => /\ Head(todo).c \in Controllers /\ Head(todo).p \in Pids
                                   /\ cmd.op \notin {"clear", "clearall"} => Head(todo).p = cmd.p
    /\ Head(todo).do \in {"list", "setclassid", "class", "classdel"} => cmd.p \in Pids

\* The fields of the commands.
LEMMA Names ==
    /\ \A c : Create(c).do = "create" /\ Create(c).c = c
    /\ \A c, k, v : /\ Set(c, k, v).do = "set" /\ Set(c, k, v).c = c
                    /\ Set(c, k, v).k = k /\ Set(c, k, v).v = v
    /\ \A c, t : Classify(c, t).do = "classify" /\ Classify(c, t).c = c /\ Classify(c, t).t = t
    /\ \A c, p : Delete(c, p).do = "delete" /\ Delete(c, p).c = c /\ Delete(c, p).p = p
    /\ \A n : Step(n).do = n
BY DEF Create, Set, Classify, Delete, Step

\* The command at the head of the list has that shape at every place.
LEMMA Shapes ==
    ASSUME CgroupInv, status = "running", todo # <<>>
    PROVE  Shape
<1> USE Names DEF Controllers, Keys
<1>0. /\ cmd.op \in Ops /\ (cmd.op # "clearall" => cmd.p \in Pids) /\ Pids \subseteq Threads
      /\ PlaceInv
  BY DEF CgroupInv, CgroupTypes, Threads, Ops
<1>1. CASE cmd.op = "cpu"
  <2>1. CpuAt
    BY <1>0, <1>1 DEF PlaceInv
  <2>2. ASSUME NEW m \in Moves PROVE m.do = "classify" /\ m.c = "cpu" /\ m.t \in Threads
    BY DEF Moves
  <2>3. CpuLast.do = "list" \/ (CpuLast.do = "classify" /\ CpuLast.c = "cpu" /\ CpuLast.t = cmd.p)
    BY DEF CpuLast
  <2> QED BY <1>0, <1>1, <2>1, <2>2, <2>3, CpuHead DEF Shape
<1>2. CASE cmd.op = "mem"
  <2>1. MemAt
    BY <1>0, <1>2 DEF PlaceInv
  <2> QED BY <1>0, <1>2, <2>1, MemHead DEF Shape
<1>3. CASE cmd.op = "blkio"
  <2>1. BlkioAt
    BY <1>0, <1>3 DEF PlaceInv
  <2> QED BY <1>0, <1>3, <2>1, BlkioHead DEF Shape
<1>4. CASE cmd.op = "net"
  <2>1. NetAt
    BY <1>0, <1>4 DEF PlaceInv
  <2> QED BY <1>0, <1>4, <2>1, NetHead DEF Shape
<1>5. CASE cmd.op \in {"cpu-C", "mem-C", "blkio-C"}
  <2>1. \E c \in Controllers : OwnClearAt(c)
    BY <1>0, <1>5 DEF PlaceInv
  <2>2. \E c \in Controllers : Head(todo) = Delete(c, cmd.p)
    BY <2>1, OwnClearHead
  <2> QED BY <1>0, <1>5, <2>2 DEF Shape
<1>6. CASE cmd.op = "net-C"
  <2>1. NetClearAt
    BY <1>0, <1>6 DEF PlaceInv
  <2> QED BY <1>0, <1>6, <2>1, NetClearHead DEF Shape
<1>7. CASE cmd.op \in {"clear", "clearall"}
  <2>1. ClearAt
    BY <1>0, <1>7 DEF PlaceInv
  <2>2. ASSUME NEW m \in Deletes PROVE m.do = "delete" /\ m.c \in Controllers /\ m.p \in Pids
    BY DEF Deletes
  <2> QED BY <1>0, <1>7, <2>1, <2>2, ClearHead DEF Shape
<1> QED BY <1>0, <1>1, <1>2, <1>3, <1>4, <1>5, <1>6, <1>7 DEF Ops

-------------------------------------------------------------------------------
\* What each external command leaves behind.

\* Nothing but the group of p under c, its files and its tasks changes.
Touches(c, p) ==
    /\ \A d \in Controllers \ {c} : groups'[d] = groups[d] /\ conf'[d] = conf[d] /\ member'[d] = member[d]
    /\ \A q \in Pids \ {p} : (q \in groups'[c] <=> q \in groups[c]) /\ conf'[c][q] = conf[c][q]

\* The tool goes on; failures are only added to.
Running ==
    /\ cmd' = cmd /\ status' = status /\ todo' = Left /\ failed \subseteq failed'
    /\ failed \subseteq faults => failed' \subseteq faults
Aborted == status' = "abort" /\ todo' = <<>> /\ cmd' = cmd /\ failed' = failed

\* A deleted or new group has no settings and no tasks; nothing else changes.
LEMMA Emptied ==
    ASSUME CgroupTypes, NEW c \in Controllers, NEW p \in Pids,
           conf' = [conf EXCEPT ![c][p] = NoConf],
           member' = Deleted(c, p, member)
    PROVE  /\ DOMAIN conf' = Controllers
           /\ \A d \in Controllers : DOMAIN conf'[d] = Pids /\ \A q \in Pids : DOMAIN conf'[d][q] = Keys
           /\ member' \in [Controllers -> [Threads -> Pids \cup {Root}]]
           /\ \A d \in Controllers \ {c} : conf'[d] = conf[d] /\ member'[d] = member[d]
           /\ \A q \in Pids \ {p} : conf'[c][q] = conf[c][q]
           /\ conf'[c][p] = NoConf
<1>1. /\ DOMAIN conf = Controllers
      /\ \A d \in Controllers : DOMAIN conf[d] = Pids /\ \A q \in Pids : DOMAIN conf[d][q] = Keys
      /\ member \in [Controllers -> [Threads -> Pids \cup {Root}]]
  BY DEF CgroupTypes
<1>2. conf' = [conf EXCEPT ![c] = [conf[c] EXCEPT ![p] = NoConf]]
  OBVIOUS
<1>3. DOMAIN conf' = Controllers /\ conf'[c] = [conf[c] EXCEPT ![p] = NoConf]
      /\ \A d \in Controllers \ {c} : conf'[d] = conf[d]
  BY <1>1, <1>2
<1>4. DOMAIN conf'[c] = Pids /\ conf'[c][p] = NoConf /\ \A q \in Pids \ {p} : conf'[c][q] = conf[c][q]
  BY <1>1, <1>3
<1>5. DOMAIN NoConf = Keys
  BY DEF NoConf
<1>6. \A d \in Controllers : DOMAIN conf'[d] = Pids /\ \A q \in Pids : DOMAIN conf'[d][q] = Keys
  BY <1>1, <1>3, <1>4, <1>5
<1>7. member' = [member EXCEPT ![c] = [t \in Threads |-> IF member[c][t] = p THEN Root ELSE member[c][t]]]
  BY DEF Deleted
<1>8. [t \in Threads |-> IF member[c][t] = p THEN Root ELSE member[c][t]] \in [Threads -> Pids \cup {Root}]
  BY <1>1
<1>9. member' \in [Controllers -> [Threads -> Pids \cup {Root}]]
      /\ \A d \in Controllers \ {c} : member'[d] = member[d]
  BY <1>1, <1>7, <1>8
<1> QED BY <1>3, <1>4, <1>6, <1>9

\* cgcreate touches the group of the process and leaves it without settings,
\* unless an old one could not be deleted.
LEMMA DidCreate ==
    ASSUME CgroupInv, cgcreate, faults' = faults
    PROVE  /\ CgroupTypes' /\ Running /\ Touches(Head(todo).c, cmd.p)
           /\ "delete" \notin failed' => conf'[Head(todo).c][cmd.p] = NoConf
           /\ UNCHANGED <<qdisc, classes, filter, listed, faults>>
<1> DEFINE c == Head(todo).c
<1> DEFINE emptied == /\ conf' = [conf EXCEPT ![c][cmd.p] = NoConf]
                      /\ member' = Deleted(c, cmd.p, member)
<1>1. /\ status = "running" /\ todo # <<>> /\ Head(todo).do = "create"
      /\ UNCHANGED <<qdisc, classes, filter, owner, listed>>
      /\ \/ groups' = [groups EXCEPT ![c] = groups[c] \cup {cmd.p}] /\ emptied /\ NextStep(<<>>)
         \/ groups' = [groups EXCEPT ![c] = groups[c] \ {cmd.p}] /\ emptied /\ Unseen("create")
         \/ UNCHANGED <<groups, conf, member>> /\ Unseen("delete")
  BY DEF cgcreate, Doing, cgvars, tcvars
<1>2. c \in Controllers /\ cmd.p \in Pids /\ CgroupTypes
  BY <1>1, Shapes DEF Shape, CgroupInv
<1>3. Running
  BY <1>1 DEF NextStep, Unseen, Running, Left
<1>4. CASE UNCHANGED <<groups, conf, member>> /\ Unseen("delete")
  <2>1. CgroupTypes'
    BY <1>1, <1>2, <1>3, <1>4 DEF CgroupTypes, Running, Live
  <2>2. Touches(c, cmd.p) /\ "delete" \in failed'
    BY <1>4 DEF Touches, Unseen
  <2> QED BY <1>1, <1>3, <2>1, <2>2
<1>5. CASE /\ \/ groups' = [groups EXCEPT ![c] = groups[c] \cup {cmd.p}]
              \/ groups' = [groups EXCEPT ![c] = groups[c] \ {cmd.p}]
           /\ emptied
  <2> HIDE DEF c
  <2>1. /\ DOMAIN conf' = Controllers
        /\ \A d \in Controllers : DOMAIN conf'[d] = Pids /\ \A q \in Pids : DOMAIN conf'[d][q] = Keys
        /\ member' \in [Controllers -> [Threads -> Pids \cup {Root}]]
        /\ \A d \in Controllers \ {c} : conf'[d] = conf[d] /\ member'[d] = member[d]
        /\ \A q \in Pids \ {cmd.p} : conf'[c][q] = conf[c][q]
        /\ conf'[c][cmd.p] = NoConf
    BY <1>2, <1>5, Emptied
  <2>2. groups \in [Controllers -> SUBSET Pids]
    BY <1>2 DEF CgroupTypes
  <2>3. groups' \in [Controllers -> SUBSET Pids] /\ \A d \in Controllers \ {c} : groups'[d] = groups[d]
    BY <1>2, <1>5, <2>2
  <2>4. \A q \in Pids \ {cmd.p} : q \in groups'[c] <=> q \in groups[c]
    BY <1>2, <1>5, <2>2
  <2>5. Touches(c, cmd.p)
    BY <2>1, <2>3, <2>4 DEF Touches
  <2>6. CgroupTypes'
    BY <1>1, <1>2, <1>3, <2>1, <2>3 DEF CgroupTypes, Running, Live
  <2> QED BY <1>1, <1>3, <2>1, <2>5, <2>6 DEF c
<1> QED BY <1>1, <1>4, <1>5

\* cgdelete touches the group it is given, which is gone unless it failed.
LEMMA DidDelete ==
    ASSUME CgroupInv, cgdelete, faults' = faults
    PROVE  /\ CgroupTypes' /\ Running /\ Touches(Head(todo).c, Head(todo).p)
           /\ "delete" \notin failed' => Head(todo).p \notin groups'[Head(todo).c]
           /\ Head(todo).p \in groups'[Head(todo).c] => UNCHANGED <<groups, conf>>
           /\ UNCHANGED <<qdisc, classes, filter, listed, faults>>
<1> DEFINE c == Head(todo).c
<1> DEFINE p == Head(todo).p
<1>1. /\ status = "running" /\ todo # <<>> /\ Head(todo).do = "delete"
      /\ UNCHANGED <<qdisc, classes, filter, owner, listed>>
      /\ \/ /\ conf' = [conf EXCEPT ![c][p] = NoConf] /\ member' = Deleted(c, p, member)
            /\ groups' = [groups EXCEPT ![c] = groups[c] \ {p}] /\ NextStep(<<>>)
         \/ UNCHANGED <<groups, conf, member>> /\ Unseen("delete")
  BY DEF cgdelete, Doing, cgvars, tcvars
<1>2. c \in Controllers /\ p \in Pids /\ CgroupTypes
  BY <1>1, Shapes DEF Shape, CgroupInv
<1>3. Running
  BY <1>1 DEF NextStep, Unseen, Running, Left
<1>4. CASE UNCHANGED <<groups, conf, member>> /\ Unseen("delete")
  <2>1. CgroupTypes'
    BY <1>1, <1>2, <1>3, <1>4 DEF CgroupTypes, Running, Live
  <2>2. Touches(c, p) /\ "delete" \in failed'
    BY <1>4 DEF Touches, Unseen
  <2> QED BY <1>1, <1>3, <1>4, <2>1, <2>2
<1>5. CASE /\ conf' = [conf EXCEPT ![c][p] = NoConf] /\ member' = Deleted(c, p, member)
           /\ groups' = [groups EXCEPT ![c] = groups[c] \ {p}]
  <2> HIDE DEF c, p
  <2>1. /\ DOMAIN conf' = Controllers
        /\ \A d \in Controllers : DOMAIN conf'[d] = Pids /\ \A q \in Pids : DOMAIN conf'[d][q] = Keys
        /\ member' \in [Controllers -> [Threads -> Pids \cup {Root}]]
        /\ \A d \in Controllers \ {c} : conf'[d] = conf[d] /\ member'[d] = member[d]
        /\ \A q \in Pids \ {p} : conf'[c][q] = conf[c][q]
    BY <1>2, <1>5, Emptied
  <2>2. groups \in [Controllers -> SUBSET Pids]
    BY <1>2 DEF CgroupTypes
  <2>3. groups' \in [Controllers -> SUBSET Pids] /\ \A d \in Controllers \ {c} : groups'[d] = groups[d]
    BY <1>2, <1>5, <2>2
  <2>4. /\ \A q \in Pids \ {p} : q \in groups'[c] <=> q \in groups[c]
        /\ p \notin groups'[c]
    BY <1>2, <1>5, <2>2
  <2>5. Touches(c, p)
    BY <2>1, <2>3, <2>4 DEF Touches
  <2>6. CgroupTypes'
    BY <1>1, <1>2, <1>3, <2>1, <2>3 DEF CgroupTypes, Running, Live
  <2> QED BY <1>1, <1>3, <2>4, <2>5, <2>6 DEF c, p
<1> QED BY <1>1, <1>4, <1>5

\* A refused setting ends the invocation, or leaves the files as they were.
LEMMA DidSetKey ==
    ASSUME CgroupInv, status = "running", NEW c \in Controllers, NEW k \in Keys, cmd.p \in Pids,
           NEW w, NEW accepted \in BOOLEAN, SetKey(c, k, w, accepted), faults' = faults
    PROVE  /\ CgroupTypes' /\ Touches(c, cmd.p)
           /\ UNCHANGED <<groups, member, qdisc, classes, filter, listed, cmd, faults>>
           /\ \/ Aborted /\ conf' = conf /\ cmd.p \notin groups[c]
              \/ /\ Running /\ cmd.p \in groups[c]
                 /\ accepted /\ "set" \notin failed' => conf'[c][cmd.p][k] = w
                 /\ \A q \in Keys \ {k} : conf'[c][cmd.p][q] = conf[c][cmd.p][q]
<1> DEFINE p == cmd.p
<1>1. /\ groups' = groups /\ member' = member /\ qdisc' = qdisc /\ classes' = classes
      /\ filter' = filter /\ owner' = owner /\ listed' = listed /\ cmd' = cmd
      /\ \/ p \notin groups[c] /\ Aborted /\ conf' = conf
         \/ /\ p \in groups[c] /\ Running
            /\ conf' = conf \/ conf' = [conf EXCEPT ![c][p][k] = w]
            /\ accepted /\ "set" \notin failed' => conf' = [conf EXCEPT ![c][p][k] = w]
  <2>1. /\ groups' = groups /\ member' = member /\ qdisc' = qdisc /\ classes' = classes
        /\ filter' = filter /\ owner' = owner /\ listed' = listed
        /\ \/ p \notin groups[c] /\ conf' = conf /\ Abort
           \/ /\ p \in groups[c] /\ NextStep(<<>>)
              /\ conf' = IF accepted THEN [conf EXCEPT ![c][p][k] = w] ELSE conf
           \/ p \in groups[c] /\ conf' = conf /\ Unseen("set")
    BY DEF SetKey, tcvars
  <2>2. Abort => Aborted
    BY DEF Abort, Aborted
  <2>3. NextStep(<<>>) \/ Unseen("set") => Running
    BY DEF NextStep, Unseen, Running, Left
  <2>4. Unseen("set") => "set" \in failed'
    BY DEF Unseen
  <2>5. cmd' = cmd
    BY <2>1 DEF Abort, NextStep, Unseen
  <2> QED BY <2>1, <2>2, <2>3, <2>4, <2>5
<1>2. /\ DOMAIN conf = Controllers
      /\ \A d \in Controllers : DOMAIN conf[d] = Pids /\ \A q \in Pids : DOMAIN conf[d][q] = Keys
      /\ CgroupTypes
  BY DEF CgroupInv, CgroupTypes
<1>3. p \in Pids
  OBVIOUS
<1> HIDE DEF p
<1>4. CASE conf' = conf
  <2>1. CgroupTypes'
    BY <1>1, <1>2, <1>4 DEF CgroupTypes, Live, Running, Aborted
  <2>2. Touches(c, p)
    BY <1>1, <1>4 DEF Touches
  <2>3. CASE accepted /\ p \in groups[c] /\ "set" \notin failed'
    <3>1. conf' = [conf EXCEPT ![c][p][k] = w] /\ Running
      BY <1>1, <2>3
    <3>2. conf' = [conf EXCEPT ![c] = [conf[c] EXCEPT ![p] = [conf[c][p] EXCEPT ![k] = w]]]
      BY <3>1
    <3>3. conf'[c] = [conf[c] EXCEPT ![p] = [conf[c][p] EXCEPT ![k] = w]]
      BY <1>2, <3>2
    <3>4. conf'[c][p] = [conf[c][p] EXCEPT ![k] = w]
      BY <1>2, <1>3, <3>3
    <3>5. conf'[c][p][k] = w
      BY <1>2, <1>3, <3>4
    <3> QED BY <1>1, <1>4, <2>1, <2>2, <2>3, <3>1, <3>5 DEF p
  <2> QED BY <1>1, <1>4, <2>1, <2>2, <2>3 DEF p
<1>5. CASE conf' # conf
  <2>1. conf' = [conf EXCEPT ![c][p][k] = w] /\ Running /\ p \in groups[c]
    BY <1>1, <1>5
  <2>2. conf' = [conf EXCEPT ![c] = [conf[c] EXCEPT ![p] = [conf[c][p] EXCEPT ![k] = w]]]
    BY <2>1
  <2>3. DOMAIN conf' = Controllers /\ conf'[c] = [conf[c] EXCEPT ![p] = [conf[c][p] EXCEPT ![k] = w]]
        /\ \A d \in Controllers \ {c} : conf'[d] = conf[d]
    BY <1>2, <2>2
  <2>4. DOMAIN conf'[c] = Pids /\ conf'[c][p] = [conf[c][p] EXCEPT ![k] = w]
        /\ \A q \in Pids \ {p} : conf'[c][q] = conf[c][q]
    BY <1>2, <1>3, <2>3
  <2>5. DOMAIN conf'[c][p] = Keys /\ conf'[c][p][k] = w
        /\ \A q \in Keys \ {k} : conf'[c][p][q] = conf[c][p][q]
    BY <1>2, <1>3, <2>4
  <2>6. \A d \in Controllers : DOMAIN conf'[d] = Pids /\ \A q \in Pids : DOMAIN conf'[d][q] = Keys
    <3>1. ASSUME NEW q \in Pids PROVE DOMAIN conf'[c][q] = Keys
      BY <1>2, <2>4, <2>5
    <3>2. ASSUME NEW d \in Controllers \ {c}
          PROVE  DOMAIN conf'[d] = Pids /\ \A q \in Pids : DOMAIN conf'[d][q] = Keys
      BY <1>2, <2>3
    <3> QED BY <2>4, <3>1, <3>2
  <2>7. CgroupTypes'
    BY <1>1, <1>2, <2>1, <2>3, <2>6 DEF CgroupTypes, Live, Running
  <2>8. Touches(c, p)
    BY <1>1, <2>3, <2>4 DEF Touches
  <2> QED BY <1>1, <2>1, <2>5, <2>7, <2>8 DEF p
<1> QED BY <1>4, <1>5

\* cgset writes one file of the group, if the kernel accepts the value.
LEMMA DidSet ==
    ASSUME CgroupInv, cgset, faults' = faults
    PROVE  LET s == Head(todo) IN
           /\ CgroupTypes' /\ Touches(s.c, cmd.p) /\ s.c # "net_cls"
           /\ UNCHANGED <<groups, member, qdisc, classes, filter, listed, cmd, faults>>
           /\ \/ Aborted /\ conf' = conf /\ cmd.p \notin groups[s.c]
              \/ /\ Running /\ cmd.p \in groups[s.c]
                 /\ Accepts(conf[s.c][cmd.p], s.k, s.v) /\ "set" \notin failed' =>
                        conf'[s.c][cmd.p][s.k] = <<s.v>>
                 /\ \A q \in Keys \ {s.k} : conf'[s.c][cmd.p][q] = conf[s.c][cmd.p][q]
<1> DEFINE s == Head(todo)
<1>1. /\ status = "running" /\ todo # <<>> /\ s.do = "set"
      /\ SetKey(s.c, s.k, <<s.v>>, Accepts(conf[s.c][cmd.p], s.k, s.v))
  BY DEF cgset, Doing
<1>2. s.c \in Controllers /\ s.k \in Keys /\ s.c # "net_cls" /\ cmd.p \in Pids
  BY <1>1, Shapes DEF Shape
<1>3. Accepts(conf[s.c][cmd.p], s.k, s.v) \in BOOLEAN
  BY DEF Accepts
<1> HIDE DEF s
<1>4. /\ CgroupTypes' /\ Touches(s.c, cmd.p)
      /\ UNCHANGED <<groups, member, qdisc, classes, filter, listed, cmd, faults>>
      /\ \/ Aborted /\ conf' = conf /\ cmd.p \notin groups[s.c]
         \/ /\ Running /\ cmd.p \in groups[s.c]
            /\ Accepts(conf[s.c][cmd.p], s.k, s.v) /\ "set" \notin failed' =>
                   conf'[s.c][cmd.p][s.k] = <<s.v>>
            /\ \A q \in Keys \ {s.k} : conf'[s.c][cmd.p][q] = conf[s.c][cmd.p][q]
  BY <1>1, <1>2, <1>3, DidSetKey
<1> QED BY <1>2, <1>4 DEF s

\* set_classid marks the group of the process.
LEMMA DidMark ==
    ASSUME CgroupInv, set_classid, faults' = faults
    PROVE  /\ CgroupTypes' /\ Touches("net_cls", cmd.p)
           /\ UNCHANGED <<groups, member, qdisc, classes, filter, listed, cmd, faults>>
           /\ \/ Aborted /\ conf' = conf /\ cmd.p \notin groups["net_cls"]
              \/ Running /\ ("set" \notin failed' => conf'["net_cls"][cmd.p]["classid"] = <<tc_major, cmd.p>>)
<1>1. /\ status = "running" /\ todo # <<>> /\ Head(todo).do = "setclassid"
      /\ SetKey("net_cls", "classid", <<tc_major, cmd.p>>, TRUE)
  BY DEF set_classid, Doing
<1>2. "net_cls" \in Controllers /\ "classid" \in Keys
  BY DEF Controllers, Keys
<1>3. cmd.p \in Pids
  BY <1>1, Shapes DEF Shape
<1> DEFINE yes == TRUE
<1>4. yes \in BOOLEAN /\ SetKey("net_cls", "classid", <<tc_major, cmd.p>>, yes)
  BY <1>1
<1> HIDE DEF yes
<1>5. /\ CgroupTypes' /\ Touches("net_cls", cmd.p)
      /\ UNCHANGED <<groups, member, qdisc, classes, filter, listed, cmd, faults>>
      /\ \/ Aborted /\ conf' = conf /\ cmd.p \notin groups["net_cls"]
         \/ /\ Running /\ cmd.p \in groups["net_cls"]
            /\ yes /\ "set" \notin failed' => conf'["net_cls"][cmd.p]["classid"] = <<tc_major, cmd.p>>
            /\ \A q \in Keys \ {"classid"} : conf'["net_cls"][cmd.p][q] = conf["net_cls"][cmd.p][q]
  BY <1>1, <1>2, <1>3, <1>4, DidSetKey
<1> QED BY <1>5 DEF yes

\* cgclassify moves a live thread into a group that exists, and takes none out.
LEMMA DidClassify ==
    ASSUME CgroupInv, cgclassify, faults' = faults
    PROVE  LET s == Head(todo) IN
           /\ CgroupTypes' /\ Running
           /\ UNCHANGED <<groups, conf, owner, qdisc, classes, filter, listed, faults>>
           /\ s.t \in Live /\ cmd.p \in groups[s.c] /\ "classify" \notin failed' => member'[s.c][s.t] = cmd.p
           /\ \A t \in Threads : member[s.c][t] = cmd.p => member'[s.c][t] = cmd.p
<1> DEFINE s == Head(todo)
<1>1. /\ status = "running" /\ todo # <<>> /\ s.do = "classify" /\ Running
      /\ UNCHANGED <<groups, conf, owner, qdisc, classes, filter, listed>>
      /\ member' = [member EXCEPT ![s.c][s.t] = cmd.p] \/ member' = member
      /\ s.t \in Live /\ cmd.p \in groups[s.c] /\ "classify" \notin failed' =>
             member' = [member EXCEPT ![s.c][s.t] = cmd.p]
  <2>1. /\ status = "running" /\ todo # <<>> /\ s.do = "classify"
        /\ UNCHANGED <<groups, conf, owner, qdisc, classes, filter, listed>>
        /\ \/ /\ member' = IF s.t \in Live /\ cmd.p \in groups[s.c]
                            THEN [member EXCEPT ![s.c][s.t] = cmd.p] ELSE member
              /\ NextStep(<<>>)
           \/ member' = member /\ Unseen("classify")
    BY DEF cgclassify, Doing, tcvars
  <2>2. NextStep(<<>>) \/ Unseen("classify") => Running
    BY DEF NextStep, Unseen, Running, Left
  <2>3. Unseen("classify") => "classify" \in failed'
    BY DEF Unseen
  <2> QED BY <2>1, <2>2, <2>3
<1>2. s.c \in Controllers /\ s.t \in Threads /\ cmd.p \in Pids /\ CgroupTypes
  BY <1>1, Shapes DEF Shape, CgroupInv
<1> HIDE DEF s
<1>3. member \in [Controllers -> [Threads -> Pids \cup {Root}]]
  BY <1>2 DEF CgroupTypes
<1>4. PICK c \in Controllers, t \in Threads, p \in Pids : c = s.c /\ t = s.t /\ p = cmd.p
  BY <1>2
<1>5. CASE member' = [member EXCEPT ![c][t] = p]
  <2>1. member' = [member EXCEPT ![c] = [member[c] EXCEPT ![t] = p]]
    BY <1>5
  <2>2. member' \in [Controllers -> [Threads -> Pids \cup {Root}]]
    BY <1>3, <2>1
  <2>3. member'[c] = [member[c] EXCEPT ![t] = p]
    BY <1>3, <2>1
  <2>4. member'[c][t] = p /\ \A x \in Threads : member[c][x] = p => member'[c][x] = p
    BY <1>3, <2>3
  <2>5. CgroupTypes'
    BY <1>1, <1>2, <2>2 DEF CgroupTypes, Live, Running
  <2> QED BY <1>1, <1>4, <2>4, <2>5 DEF s
<1>6. CASE member' = member /\ ~(s.t \in Live /\ cmd.p \in groups[s.c] /\ "classify" \notin failed')
  <2>1. CgroupTypes'
    BY <1>1, <1>2, <1>6 DEF CgroupTypes, Live, Running
  <2> QED BY <1>1, <1>6, <2>1 DEF s
<1> QED BY <1>1, <1>4, <1>5, <1>6

\* The threads of a process, each of them in the list of commands.
LEMMA DidList ==
    ASSUME CgroupInv, get_spids_by_pid, faults' = faults, Tail(todo) = <<>>
    PROVE  /\ CgroupTypes' /\ UNCHANGED <<groups, conf, member, qdisc, classes, filter, cmd, status, faults>>
           /\ failed' = failed
           /\ todo' \in Seq(Moves)
           /\ \A t \in listed' : \E k \in 1 .. Len(todo') : todo'[k] = Classify("cpu", t)
<1> DEFINE spids == {t \in Live : owner[t] = cmd.p}
<1> DEFINE S == IF spids = {} THEN {cmd.p} ELSE spids
<1>1. /\ status = "running" /\ todo # <<>> /\ Head(todo).do = "list"
      /\ listed' = spids /\ UNCHANGED <<groups, conf, member, qdisc, classes, filter, owner, cmd, status, failed>>
  BY DEF get_spids_by_pid, Doing, NextStep, cgvars, tcvars
<1>2. PICK order \in SetToSeqs(S) : todo' = [k \in 1 .. Len(order) |-> Classify("cpu", order[k])] \o Tail(todo)
  BY DEF get_spids_by_pid, NextStep
<1>3. CgroupTypes /\ cmd.p \in Pids
  BY <1>1, Shapes DEF Shape, CgroupInv
<1>4. spids \subseteq Live /\ Live \subseteq Threads /\ S \subseteq Threads /\ spids \subseteq S
  BY <1>3 DEF CgroupTypes, Threads
<1> HIDE DEF spids, S
<1>5. IsFiniteSet(S)
  BY <1>4, ThreadsFinite, FS_Subset
<1>6. order \in Seq(S) /\ \A x \in S : \E k \in 1 .. Len(order) : order[k] = x
  BY <1>2, <1>5, Onto
<1>7. PICK n \in Nat : n = Len(order) /\ order \in [1 .. n -> S]
  BY <1>6
<1> DEFINE more == [k \in 1 .. n |-> Classify("cpu", order[k])]
<1>8. more \in [1 .. n -> Moves]
  BY <1>4, <1>7 DEF Moves
<1>9. more \in Seq(Moves) /\ Len(more) = n
  <2> HIDE DEF more
  <2> DEFINE M == Moves
  <2> HIDE DEF M
  <2>1. more \in [1 .. n -> M]
    BY <1>8 DEF M
  <2>2. more \in Seq(M) /\ Len(more) = n
    BY <1>7, <2>1
  <2> QED BY <2>2 DEF M
<1>10. todo' = more
  <2>1. todo' = more \o <<>>
    BY <1>2, <1>7
  <2> HIDE DEF more
  <2> DEFINE M == Moves
  <2> HIDE DEF M
  <2>2. more \in Seq(M)
    BY <1>9 DEF M
  <2> QED BY <2>1, <2>2
<1>11. \A t \in spids : \E k \in 1 .. n : more[k] = Classify("cpu", t)
  BY <1>4, <1>6, <1>7
<1>12. CgroupTypes'
  BY <1>1, <1>3, <1>4 DEF CgroupTypes, Live
<1> HIDE DEF more
<1> QED BY <1>1, <1>9, <1>10, <1>11, <1>12

\* The first elements of a list of commands stay in front of the last one.
LEMMA InFront ==
    ASSUME NEW S, NEW s \in Seq(S), NEW q, NEW k \in 1 .. Len(s)
    PROVE  k \in 1 .. Len(s \o <<q>>) /\ (s \o <<q>>)[k] = s[k]
<1> DEFINE T == S \cup {q}
<1>1. s \in Seq(T) /\ <<q>> \in Seq(T) /\ Len(<<q>>) = 1
  OBVIOUS
<1> QED BY <1>1

\* Every name begins with the empty one.
LEMMA EveryName ==
    ASSUME NEW p \in Pids
    PROVE  IsPrefix(<<>>, p)
<1>1. p \in Seq(0 .. 9)
  BY CgroupAssumption
<1>2. Len(<<>>) = 0 /\ Len(p) \in Nat
  BY <1>1
<1>3. SubSeq(<<>>, 1, 0) = <<>> /\ SubSeq(p, 1, 0) = <<>>
  BY <1>1
<1> QED BY <1>2, <1>3 DEF IsPrefix

\* The groups found, each of them in the list of commands.
LEMMA DidLook ==
    ASSUME CgroupInv, lscgroup_filter, faults' = faults, Tail(todo) = <<>>
    PROVE  /\ CgroupTypes' /\ UNCHANGED <<groups, conf, member, qdisc, classes, filter, cmd, status, listed>>
           /\ UNCHANGED <<faults, failed>>
           /\ todo' # <<>>
           /\ \E s \in Seq(Deletes) : todo' = s \o <<Step("qdiscdel")>>
           /\ cmd.op = "clearall" =>
                \A c \in Controllers : \A p \in groups[c] :
                    \E k \in 1 .. Len(todo') : todo'[k] = Delete(c, p)
<1> DEFINE name == IF cmd.op = "clear" THEN cmd.p ELSE <<>>
<1> DEFINE S == Matches(name)
<1> DEFINE Both == Controllers \X Pids
<1>1. UNCHANGED <<groups, conf, member, owner, qdisc, classes, filter, cmd, status, listed, failed>>
  BY DEF lscgroup_filter, NextStep, cgvars, tcvars
<1>2. PICK order \in SetToSeqs(S) :
        todo' = ([k \in 1 .. Len(order) |-> Delete(order[k][1], order[k][2])] \o <<Step("qdiscdel")>>)
                \o Tail(todo)
  BY DEF lscgroup_filter, NextStep
<1>3. S \subseteq Both
  BY DEF Matches
<1>4. IsFiniteSet(S)
  BY <1>3, ThreadsFinite, FS_Subset
<1>5. order \in Seq(S) /\ \A x \in S : \E k \in 1 .. Len(order) : order[k] = x
  <2> HIDE DEF S
  <2> QED BY <1>2, <1>4, Onto
<1>6. CgroupTypes /\ groups \in [Controllers -> SUBSET Pids]
  BY DEF CgroupInv, CgroupTypes
<1>7. cmd.op = "clearall" => \A c \in Controllers : \A p \in groups[c] : <<c, p>> \in S
  BY <1>6, EveryName DEF Matches
<1> HIDE DEF S
<1>8. PICK n \in Nat : n = Len(order) /\ order \in [1 .. n -> S]
  BY <1>5
<1> DEFINE more == [k \in 1 .. n |-> Delete(order[k][1], order[k][2])]
<1>9. more \in [1 .. n -> Deletes]
  BY <1>3, <1>8 DEF Deletes
<1>10. cmd.op = "clearall" =>
         \A c \in Controllers : \A p \in groups[c] : \E k \in 1 .. n : more[k] = Delete(c, p)
  <2>1. SUFFICES ASSUME cmd.op = "clearall", NEW c \in Controllers, NEW p \in groups[c]
                 PROVE  \E k \in 1 .. n : more[k] = Delete(c, p)
    OBVIOUS
  <2>2. PICK k \in 1 .. n : order[k] = <<c, p>>
    BY <1>5, <1>7, <1>8, <2>1
  <2> QED BY <2>2
<1> DEFINE D == Deletes
<1> HIDE DEF D
<1>11. more \in [1 .. n -> D]
  BY <1>9 DEF D
<1>12. todo' = (more \o <<Step("qdiscdel")>>) \o <<>>
  BY <1>2, <1>8
<1> HIDE DEF more
<1>13. more \in Seq(D) /\ Len(more) = n
  BY <1>8, <1>11
<1>14. todo' = more \o <<Step("qdiscdel")>>
  <2> DEFINE T == D \cup {Step("qdiscdel")}
  <2>1. more \in Seq(T) /\ <<Step("qdiscdel")>> \in Seq(T)
    BY <1>13
  <2> HIDE DEF T
  <2> QED BY <1>12, <2>1
<1>15. todo' # <<>>
  BY <1>13, <1>14, DropDeletes
<1>16. \A k \in 1 .. n : k \in 1 .. Len(todo') /\ todo'[k] = more[k]
  BY <1>13, <1>14, InFront
<1>17. CgroupTypes'
  BY <1>1, <1>6 DEF CgroupTypes, Live
<1>18. \E s \in Seq(Deletes) : todo' = s \o <<Step("qdiscdel")>>
  BY <1>13, <1>14 DEF D
<1> QED BY <1>1, <1>10, <1>15, <1>16, <1>17, <1>18

\* The traffic control commands touch no group.
LEMMA DidTc ==
    ASSUME CgroupInv, faults' = faults,
           tc_qdisc_do_del \/ tc_qdisc_add \/ tc_class_add \/ tc_filter_add \/ tc_class_del
    PROVE  /\ CgroupTypes' /\ UNCHANGED <<groups, conf, member, listed, cmd, faults>>
           /\ Running \/ (Aborted /\ UNCHANGED <<qdisc, classes, filter>>)
<1>1. /\ UNCHANGED <<groups, conf, member, owner, listed, cmd>> /\ status = "running"
      /\ Running \/ (Aborted /\ UNCHANGED <<qdisc, classes, filter>>)
  <2>1. CASE tc_qdisc_do_del
    BY <2>1 DEF tc_qdisc_do_del, Doing, NextStep, Unseen, Abort, cgvars, tcvars, Running, Aborted, Left
  <2>2. CASE tc_qdisc_add
    BY <2>2 DEF tc_qdisc_add, Doing, NextStep, Unseen, Abort, cgvars, Running, Aborted, Left
  <2>3. CASE tc_class_add
    BY <2>3 DEF tc_class_add, Doing, NextStep, Unseen, Abort, cgvars, Running, Aborted, Left
  <2>4. CASE tc_filter_add
    BY <2>4 DEF tc_filter_add, Doing, NextStep, Unseen, Abort, cgvars, Running, Aborted, Left
  <2>5. CASE tc_class_del
    BY <2>5 DEF tc_class_del, Doing, NextStep, Unseen, Abort, cgvars, Running, Aborted, Left
  <2> QED BY <2>1, <2>2, <2>3, <2>4, <2>5
<1>2. CgroupTypes'
  BY <1>1 DEF CgroupInv, CgroupTypes, Live, Running, Aborted
<1> QED BY <1>1, <1>2

-------------------------------------------------------------------------------
\* The steps of an invocation, each for the command at the head of the list.
Command ==
    /\ \/ cgcreate \/ cgset \/ set_classid \/ cgclassify \/ get_spids_by_pid \/ cgdelete
       \/ lscgroup_filter \/ tc_qdisc_do_del
       \/ tc_qdisc_add \/ tc_class_add \/ tc_filter_add \/ tc_class_del
    /\ faults' = faults

\* Only the command at the head of the list runs.
LEMMA Dispatch ==
    ASSUME Command
    PROVE  /\ status = "running" /\ todo # <<>> /\ faults' = faults
           /\ Head(todo).do = "create" => cgcreate
           /\ Head(todo).do = "set" => cgset
           /\ Head(todo).do = "setclassid" => set_classid
           /\ Head(todo).do = "classify" => cgclassify
           /\ Head(todo).do = "list" => get_spids_by_pid
           /\ Head(todo).do = "delete" => cgdelete
           /\ Head(todo).do = "lscgroup" => lscgroup_filter
           /\ Head(todo).do = "qdiscdel" => tc_qdisc_do_del
           /\ Head(todo).do = "qdisc" => tc_qdisc_add
           /\ Head(todo).do = "class" => tc_class_add
           /\ Head(todo).do = "filter" => tc_filter_add
           /\ Head(todo).do = "classdel" => tc_class_del
<1>1. /\ cgcreate => Doing("create")
      /\ cgset => Doing("set")
      /\ cgclassify => Doing("classify")
      /\ cgdelete => Doing("delete")
  BY DEF cgcreate, cgset, cgclassify, cgdelete
<1>2. /\ set_classid => Doing("setclassid")
      /\ get_spids_by_pid => Doing("list")
      /\ lscgroup_filter => Doing("lscgroup")
      /\ tc_qdisc_do_del => Doing("qdiscdel")
  BY DEF set_classid, get_spids_by_pid, lscgroup_filter, tc_qdisc_do_del
<1>3. /\ tc_qdisc_add => Doing("qdisc")
      /\ tc_class_add => Doing("class")
      /\ tc_filter_add => Doing("filter")
      /\ tc_class_del => Doing("classdel")
  BY DEF tc_qdisc_add, tc_class_add, tc_filter_add, tc_class_del
<1> QED BY <1>1, <1>2, <1>3 DEF Command, Doing

\* The marks are kept by a step that adds no group of net_cls and leaves the
\* marks and the classes of those there are.
LEMMA MarksKept ==
    ASSUME CgroupInv, cmd.op \notin {"net", "net-C"}, CgroupTypes',
           groups'["net_cls"] \subseteq groups["net_cls"],
           \A p \in groups'["net_cls"] : conf'["net_cls"][p] = conf["net_cls"][p],
           qdisc' = qdisc, classes' = classes, filter' = filter, faults' = faults
    PROVE  MarksInv'
<1>1. Tame => \A p \in groups["net_cls"] : Marked(p)
  BY DEF CgroupInv, MarksInv, InHand
<1>2. Tame => \A p \in groups'["net_cls"] : Marked(p)'
  BY <1>1 DEF Marked, Htb
<1>3. Tame' => Tame
  BY DEF Tame
<1> QED BY <1>2, <1>3 DEF MarksInv

-------------------------------------------------------------------------------
\* Each subcommand goes from one of its places to the next.

\* cpu: the threads that are listed and not moved yet are still in the list of commands.
LEMMA CpuStep ==
    ASSUME CgroupInv, cmd.op = "cpu", Command
    PROVE  CgroupInv'
<1> USE Names
<1>1. status = "running" /\ todo # <<>> /\ CpuAt /\ CgroupTypes
  BY Dispatch DEF CgroupInv, PlaceInv
<1>2. SUFFICES /\ CgroupTypes' /\ MarksInv' /\ cmd' = cmd /\ (status' # "running" => todo' = <<>>)
               /\ status' \in {"running", "ok"} => CpuAt'
  BY DEF CgroupInv, PlaceInv
<1>3. "cpu" \in Controllers /\ "net_cls" \in Controllers \ {"cpu"}
  BY DEF Controllers
<1>4. CASE Head(todo) = Create("cpu") /\ Left = <<Set("cpu", "quota", cmd.v), CpuLast>>
  <2>1. CgroupTypes' /\ Running /\ Touches("cpu", cmd.p) /\ UNCHANGED <<qdisc, classes, filter, faults, listed>>
    BY <1>4, Dispatch, DidCreate
  <2>2. MarksInv'
    BY <1>3, <2>1, MarksKept DEF Touches
  <2>3. CpuAt'
    BY <1>4, <2>1 DEF CpuAt, CpuLast, Running
  <2> QED BY <1>1, <2>1, <2>2, <2>3 DEF Running
<1>5. CASE Head(todo) = Set("cpu", "quota", cmd.v) /\ Left = <<CpuLast>>
  <2>1. /\ CgroupTypes' /\ Touches("cpu", cmd.p) /\ UNCHANGED <<groups, qdisc, classes, filter, faults, cmd>>
        /\ \/ status' = "abort" /\ todo' = <<>>
           \/ Running /\ cmd.p \in groups["cpu"]
    BY <1>5, Dispatch, DidSet DEF Aborted
  <2>2. MarksInv'
    BY <1>3, <2>1, MarksKept DEF Touches
  <2>3. Running => CpuAt'
    BY <1>5, <2>1 DEF CpuAt, CpuLast, Running
  <2> QED BY <1>1, <2>1, <2>2, <2>3 DEF Running
<1>6. CASE Head(todo) = CpuLast /\ ~cmd.spid /\ Tail(todo) = <<>> /\ cmd.p \in groups["cpu"]
  <2>0. Head(todo).do = "list"
    BY <1>6 DEF CpuLast
  <2>1. /\ CgroupTypes' /\ UNCHANGED <<groups, conf, member, qdisc, classes, filter, faults, cmd, status>>
        /\ todo' \in Seq(Moves)
        /\ \A t \in listed' : \E k \in 1 .. Len(todo') : todo'[k] = Classify("cpu", t)
    BY <1>6, <2>0, Dispatch, DidList
  <2>2. MarksInv'
    BY <2>1, MarksKept
  <2>3. CpuAt'
    BY <1>6, <2>1 DEF CpuAt, Moves
  <2> QED BY <1>1, <2>1, <2>2, <2>3
<1>7. CASE Head(todo) = CpuLast /\ cmd.spid /\ Left = <<>> /\ cmd.p \in groups["cpu"]
  <2>0. Head(todo).do = "classify"
    BY <1>7 DEF CpuLast
  <2>1. CgroupTypes' /\ Running /\ UNCHANGED <<groups, conf, qdisc, classes, filter, faults>>
    BY <2>0, Dispatch, DidClassify
  <2>2. MarksInv'
    BY <2>1, MarksKept
  <2>3. CpuAt'
    BY <1>7, <2>1, EmptySeq DEF CpuAt, Running
  <2> QED BY <1>1, <2>1, <2>2, <2>3 DEF Running
<1>8. CASE /\ Head(todo) \in Moves /\ Left \in Seq(Moves) /\ cmd.p \in groups["cpu"]
           /\ ~cmd.spid /\ "classify" \notin failed =>
                \A t \in listed : \/ member["cpu"][t] = cmd.p
                                  \/ Head(todo) = Classify("cpu", t)
                                  \/ \E k \in 1 .. Len(Left) : Left[k] = Classify("cpu", t)
  <2>0. Head(todo).do = "classify" /\ Head(todo).c = "cpu"
    BY <1>8 DEF Moves
  <2>1. /\ CgroupTypes' /\ Running /\ UNCHANGED <<groups, conf, owner, qdisc, classes, filter, faults, listed>>
        /\ Head(todo).t \in Live /\ "classify" \notin failed' => member'["cpu"][Head(todo).t] = cmd.p
        /\ \A t \in Threads : member["cpu"][t] = cmd.p => member'["cpu"][t] = cmd.p
    BY <1>8, <2>0, Dispatch, DidClassify
  <2>2. MarksInv'
    BY <2>1, MarksKept
  <2>3. ASSUME ~cmd.spid, "classify" \notin failed', NEW t \in listed
        PROVE  member'["cpu"][t] = cmd.p \/ \E k \in 1 .. Len(Left) : Left[k] = Classify("cpu", t)
    <3>1. t \in Live /\ t \in Threads /\ "classify" \notin failed
      BY <1>1, <2>1, <2>3 DEF CgroupTypes, Running
    <3>2. CASE Head(todo) = Classify("cpu", t)
      BY <2>1, <2>3, <3>1, <3>2
    <3> QED BY <1>8, <2>1, <2>3, <3>1, <3>2
  <2>4. todo' = Left /\ cmd' = cmd /\ groups' = groups /\ listed' = listed
    BY <2>1 DEF Running
  <2>5. CpuAt'
    <3>1. todo' \in Seq(Moves)
      BY <1>8, <2>4
    <3>2. ~cmd'.spid /\ "classify" \notin failed' =>
            \A t \in listed' : \/ member'["cpu"][t] = cmd'.p
                               \/ \E k \in 1 .. Len(todo') : todo'[k] = Classify("cpu", t)
      BY <2>3, <2>4
    <3> QED BY <1>8, <2>4, <3>1, <3>2 DEF CpuAt, Moves
  <2> QED BY <1>1, <2>1, <2>2, <2>5 DEF Running
<1> QED BY <1>1, <1>4, <1>5, <1>6, <1>7, <1>8, CpuHead

\* The two limits are written in the order that the kernel accepts: the group
\* is new, so that it has no swap limit yet, and then the memory limit is set.
LEMMA MemStep ==
    ASSUME CgroupInv, cmd.op = "mem", Command
    PROVE  CgroupInv'
<1> USE Names
<1>1. status = "running" /\ todo # <<>> /\ MemAt /\ CgroupTypes /\ cmd.p \in Pids /\ cmd.v \in Nat
  BY Dispatch DEF CgroupInv, PlaceInv, CgroupTypes
<1>2. SUFFICES /\ CgroupTypes' /\ MarksInv' /\ cmd' = cmd /\ (status' # "running" => todo' = <<>>)
               /\ status' \in {"running", "ok"} => MemAt'
  BY DEF CgroupInv, PlaceInv
<1>3. "memory" \in Controllers /\ "net_cls" \in Controllers \ {"memory"}
  BY DEF Controllers
<1>4. CASE /\ Head(todo) = Create("memory")
           /\ Left = <<Set("memory", "limit", cmd.v), Set("memory", "memsw", cmd.v),
                       Classify("memory", cmd.p)>>
  <2>1. /\ CgroupTypes' /\ Running /\ Touches("memory", cmd.p) /\ UNCHANGED <<qdisc, classes, filter, faults>>
        /\ "delete" \notin failed' => conf'["memory"][cmd.p] = NoConf
    BY <1>4, Dispatch, DidCreate
  <2>2. MarksInv'
    BY <1>3, <2>1, MarksKept DEF Touches
  <2>3. failed' = {} => conf'["memory"][cmd.p]["memsw"] = Unset
    BY <2>1 DEF NoConf, Keys
  <2>4. MemAt'
    BY <1>4, <2>1, <2>3 DEF MemAt, Running
  <2> QED BY <1>1, <2>1, <2>2, <2>4 DEF Running
<1>5. CASE /\ Head(todo) = Set("memory", "limit", cmd.v)
           /\ Left = <<Set("memory", "memsw", cmd.v), Classify("memory", cmd.p)>>
           /\ failed = {} => conf["memory"][cmd.p]["memsw"] = Unset
  <2>1. /\ CgroupTypes' /\ Touches("memory", cmd.p) /\ UNCHANGED <<groups, qdisc, classes, filter, faults, cmd>>
        /\ \/ status' = "abort" /\ todo' = <<>>
           \/ /\ Running
              /\ Accepts(conf["memory"][cmd.p], "limit", cmd.v) /\ "set" \notin failed' =>
                    conf'["memory"][cmd.p]["limit"] = <<cmd.v>>
    BY <1>5, Dispatch, DidSet DEF Aborted
  <2>2. MarksInv'
    BY <1>3, <2>1, MarksKept DEF Touches
  <2>3. Running /\ failed' = {} => failed = {} /\ "set" \notin failed' /\ Accepts(conf["memory"][cmd.p], "limit", cmd.v)
    BY <1>5 DEF Accepts, Running
  <2>4. Running => MemAt'
    BY <1>5, <2>1, <2>3 DEF MemAt, Running
  <2> QED BY <1>1, <2>1, <2>2, <2>4 DEF Running
<1>6. CASE /\ Head(todo) = Set("memory", "memsw", cmd.v) /\ Left = <<Classify("memory", cmd.p)>>
           /\ failed = {} => conf["memory"][cmd.p]["limit"] = <<cmd.v>>
  <2>0. "limit" \in Keys \ {"memsw"}
    BY DEF Keys
  <2>1. /\ CgroupTypes' /\ Touches("memory", cmd.p) /\ UNCHANGED <<groups, qdisc, classes, filter, faults, cmd>>
        /\ \/ status' = "abort" /\ todo' = <<>>
           \/ /\ Running /\ cmd.p \in groups["memory"]
              /\ Accepts(conf["memory"][cmd.p], "memsw", cmd.v) /\ "set" \notin failed' =>
                    conf'["memory"][cmd.p]["memsw"] = <<cmd.v>>
              /\ conf'["memory"][cmd.p]["limit"] = conf["memory"][cmd.p]["limit"]
    BY <1>6, <2>0, Dispatch, DidSet DEF Aborted
  <2>2. MarksInv'
    BY <1>3, <2>1, MarksKept DEF Touches
  <2>3. failed = {} => Accepts(conf["memory"][cmd.p], "memsw", cmd.v)
    <3>1. PICK v \in Nat : v = cmd.v
      BY <1>1
    <3>2. <<v>> # <<>> /\ <<v>>[1] = v /\ v =< v
      OBVIOUS
    <3> QED BY <1>6, <3>1, <3>2 DEF Accepts, Unset
  <2>4. Running /\ failed' = {} => failed = {} /\ "set" \notin failed'
    BY DEF Running
  <2>5. Running => MemAt'
    BY <1>6, <2>1, <2>3, <2>4 DEF MemAt, Running
  <2> QED BY <1>1, <2>1, <2>2, <2>5 DEF Running
<1>7. CASE /\ Head(todo) = Classify("memory", cmd.p) /\ Left = <<>> /\ cmd.p \in groups["memory"]
           /\ failed = {} => conf["memory"][cmd.p]["limit"] = <<cmd.v>> /\ conf["memory"][cmd.p]["memsw"] = <<cmd.v>>
  <2>0. cmd.p \in Live
    BY <1>1 DEF CgroupTypes
  <2>1. /\ CgroupTypes' /\ Running /\ UNCHANGED <<groups, conf, qdisc, classes, filter, faults>>
        /\ "classify" \notin failed' => member'["memory"][cmd.p] = cmd.p
    BY <1>7, <2>0, Dispatch, DidClassify
  <2>2. MarksInv'
    BY <2>1, MarksKept
  <2>3. MemAt'
    BY <1>7, <2>1 DEF MemAt, Running
  <2> QED BY <1>1, <2>1, <2>2, <2>3 DEF Running
<1> QED BY <1>1, <1>4, <1>5, <1>6, <1>7, MemHead

\* blkio: each command leads to the next place.
LEMMA BlkioStep ==
    ASSUME CgroupInv, cmd.op = "blkio", Command
    PROVE  CgroupInv'
<1> USE Names
<1>1. status = "running" /\ todo # <<>> /\ BlkioAt
  BY Dispatch DEF CgroupInv, PlaceInv
<1>2. SUFFICES /\ CgroupTypes' /\ MarksInv' /\ cmd' = cmd /\ (status' # "running" => todo' = <<>>)
               /\ status' \in {"running", "ok"} => BlkioAt'
  BY DEF CgroupInv, PlaceInv
<1>3. "blkio" \in Controllers /\ "net_cls" \in Controllers \ {"blkio"}
  BY DEF Controllers
<1>4. CASE /\ Head(todo) = Create("blkio")
           /\ Left = <<Set("blkio", "throttle", cmd.v), Classify("blkio", cmd.p)>>
  <2>1. CgroupTypes' /\ Running /\ Touches("blkio", cmd.p) /\ UNCHANGED <<qdisc, classes, filter, faults>>
    BY <1>4, Dispatch, DidCreate
  <2>2. MarksInv'
    BY <1>3, <2>1, MarksKept DEF Touches
  <2>3. BlkioAt'
    BY <1>4, <2>1 DEF BlkioAt, Running
  <2> QED BY <1>1, <2>1, <2>2, <2>3 DEF Running
<1>5. CASE Head(todo) = Set("blkio", "throttle", cmd.v) /\ Left = <<Classify("blkio", cmd.p)>>
  <2>1. /\ CgroupTypes' /\ Touches("blkio", cmd.p) /\ UNCHANGED <<groups, qdisc, classes, filter, faults, cmd>>
        /\ (status' = "abort" /\ todo' = <<>>) \/ Running
    BY <1>5, Dispatch, DidSet DEF Aborted
  <2>2. MarksInv'
    BY <1>3, <2>1, MarksKept DEF Touches
  <2>3. Running => BlkioAt'
    BY <1>5, <2>1 DEF BlkioAt, Running
  <2> QED BY <1>1, <2>1, <2>2, <2>3 DEF Running
<1>6. CASE Head(todo) = Classify("blkio", cmd.p) /\ Left = <<>>
  <2>1. CgroupTypes' /\ Running /\ UNCHANGED <<groups, conf, qdisc, classes, filter, faults>>
    BY <1>6, Dispatch, DidClassify
  <2>2. MarksInv'
    BY <2>1, MarksKept
  <2>3. BlkioAt'
    BY <1>6, <2>1 DEF BlkioAt, Running
  <2> QED BY <1>1, <2>1, <2>2, <2>3 DEF Running
<1> QED BY <1>1, <1>4, <1>5, <1>6, BlkioHead

\* The class is there before the group is marked, and the mark is the class's.
LEMMA NetStep ==
    ASSUME CgroupInv, cmd.op = "net", Command
    PROVE  CgroupInv'
<1> USE Names
<1>1. /\ status = "running" /\ todo # <<>> /\ NetAt /\ CgroupTypes /\ MarksInv /\ cmd.p \in Pids
      /\ groups \in [Controllers -> SUBSET Pids] /\ failed \subseteq faults /\ faults' = faults
  BY Dispatch DEF CgroupInv, PlaceInv, CgroupTypes
<1>2. SUFFICES /\ CgroupTypes' /\ MarksInv' /\ cmd' = cmd /\ (status' # "running" => todo' = <<>>)
               /\ status' \in {"running", "ok"} => NetAt'
  BY DEF CgroupInv, PlaceInv
<1>3. "net_cls" \in Controllers
  BY DEF Controllers
<1> DEFINE Last2 == <<Step("setclassid"), Classify("net_cls", cmd.p)>>
<1>4. ASSUME todo # Last2, Tame PROVE \A p \in groups["net_cls"] : Marked(p)
  BY <1>1, <1>4 DEF MarksInv, InHand
<1>5. CASE /\ Head(todo) = Step("qdisc")
           /\ Left = <<Step("class"), Step("filter"), Create("net_cls"), Step("setclassid"),
                       Classify("net_cls", cmd.p)>>
  <2>0. Head(todo).do = "qdisc" /\ todo # Last2
    BY <1>5
  <2>1. /\ CgroupTypes' /\ UNCHANGED <<groups, conf, cmd, status, classes, filter>> /\ todo' = Left
        /\ \/ qdisc' = IF qdisc = "none" THEN OurMajor ELSE qdisc
           \/ qdisc' = qdisc /\ "qdisc" \in faults
    BY <2>0, Dispatch, DidTc DEF tc_qdisc_add, NextStep, Unseen, Left
  <2>2. Tame' => Tame /\ qdisc' # "none" /\ (qdisc # "none" => qdisc' = qdisc)
    BY <1>1, <2>1 DEF Tame, Harmful, OurMajor
  <2>3. MarksInv'
    <3>1. SUFFICES ASSUME Tame', NEW p \in groups["net_cls"] PROVE Marked(p)'
      BY <2>1 DEF MarksInv
    <3>2. Marked(p)
      BY <1>4, <2>0, <2>2, <3>1
    <3> QED BY <2>1, <2>2, <3>1, <3>2 DEF Marked, Htb
  <2>4. NetAt'
    <3>1. (Tame => Htb)'
      BY <2>2 DEF Tame, Htb
    <3> QED BY <1>5, <2>1, <3>1 DEF NetAt
  <2> QED BY <1>1, <2>1, <2>3, <2>4
<1>6. CASE /\ Head(todo) = Step("class") /\ (Tame => Htb)
           /\ Left = <<Step("filter"), Create("net_cls"), Step("setclassid"),
                       Classify("net_cls", cmd.p)>>
  <2>0. Head(todo).do = "class" /\ todo # Last2
    BY <1>6
  <2>1. /\ CgroupTypes' /\ UNCHANGED <<groups, conf, cmd, qdisc, filter>>
        /\ \/ status' = "abort" /\ todo' = <<>> /\ classes' = classes
           \/ /\ status' = status /\ todo' = Left
              /\ classes' = IF Htb THEN classes \cup {cmd.p} ELSE classes
           \/ status' = status /\ todo' = Left /\ "class" \in faults
    BY <2>0, Dispatch, DidTc DEF tc_class_add, NextStep, Unseen, Abort, Left
  <2>2. Tame' => /\ Tame /\ Htb /\ classes \subseteq classes'
                 /\ status' # "abort" => cmd.p \in classes'
    BY <1>1, <1>6, <2>1 DEF Tame, Harmful
  <2>3. MarksInv'
    <3>1. SUFFICES ASSUME Tame', NEW p \in groups["net_cls"] PROVE Marked(p)'
      BY <2>1 DEF MarksInv
    <3>2. Marked(p)
      BY <1>4, <2>0, <2>2, <3>1
    <3> QED BY <2>1, <2>2, <3>1, <3>2 DEF Marked, Htb
  <2>4. status' # "abort" => Classed'
    BY <2>1, <2>2 DEF Classed, Htb
  <2>5. status' # "abort" => NetAt'
    BY <1>6, <2>1, <2>4 DEF NetAt
  <2> QED BY <1>1, <2>1, <2>3, <2>5
<1>7. CASE /\ Head(todo) = Step("filter") /\ Classed
           /\ Left = <<Create("net_cls"), Step("setclassid"), Classify("net_cls", cmd.p)>>
  <2>0. Head(todo).do = "filter" /\ todo # Last2
    BY <1>7
  <2>1. /\ CgroupTypes' /\ UNCHANGED <<groups, conf, cmd, status, qdisc, classes>> /\ todo' = Left
        /\ \/ filter' = (filter \/ Htb)
           \/ filter' = filter /\ "filter" \in faults
    BY <2>0, Dispatch, DidTc DEF tc_filter_add, NextStep, Unseen, Left
  <2>2. Tame' => Tame /\ Htb /\ cmd.p \in classes /\ filter'
    BY <1>1, <1>7, <2>1 DEF Tame, Harmful, Classed
  <2>3. MarksInv'
    <3>1. SUFFICES ASSUME Tame', NEW p \in groups["net_cls"] PROVE Marked(p)'
      BY <2>1 DEF MarksInv
    <3>2. Marked(p)
      BY <1>4, <2>0, <2>2, <3>1
    <3> QED BY <2>1, <2>2, <3>1, <3>2 DEF Marked, Htb
  <2>4. Filtered'
    BY <2>1, <2>2 DEF Filtered, Htb
  <2>5. NetAt'
    BY <1>7, <2>1, <2>4 DEF NetAt
  <2> QED BY <1>1, <2>1, <2>3, <2>5
<1>8. CASE Head(todo) = Create("net_cls") /\ Filtered /\ Left = Last2
  <2>0. Head(todo).do = "create" /\ todo # Last2
    BY <1>8
  <2>1. CgroupTypes' /\ Running /\ Touches("net_cls", cmd.p) /\ UNCHANGED <<qdisc, classes, filter>>
    BY <1>8, Dispatch, DidCreate
  <2>2. Tame' => Tame
    BY <1>1, <2>1 DEF Tame
  <2>3. ASSUME Tame', NEW p \in groups'["net_cls"] PROVE (Marked(p) \/ InHand(p))'
    <3>1. p \in Pids
      BY <1>3, <2>1 DEF CgroupTypes
    <3>2. CASE p # cmd.p
      <4>1. p \in groups["net_cls"] /\ conf'["net_cls"][p] = conf["net_cls"][p]
        BY <2>1, <3>1, <3>2 DEF Touches
      <4>2. Marked(p)
        BY <1>4, <2>0, <2>2, <2>3, <4>1
      <4> QED BY <2>1, <4>1, <4>2 DEF Marked, Htb
    <3>3. CASE p = cmd.p
      BY <1>1, <1>8, <2>1, <3>3 DEF InHand, Running
    <3> QED BY <3>2, <3>3
  <2>4. MarksInv'
    BY <2>3 DEF MarksInv
  <2>5. Filtered'
    BY <1>8, <2>1, <2>2 DEF Filtered, Running, Htb
  <2>6. NetAt'
    BY <1>8, <2>1, <2>5 DEF NetAt, Running
  <2> QED BY <1>1, <2>1, <2>4, <2>6 DEF Running
<1>9. CASE Head(todo) = Step("setclassid") /\ Filtered /\ Left = <<Classify("net_cls", cmd.p)>>
  <2>1. /\ CgroupTypes' /\ Touches("net_cls", cmd.p) /\ UNCHANGED <<groups, qdisc, classes, filter, cmd>>
        /\ \/ Aborted /\ conf' = conf /\ cmd.p \notin groups["net_cls"]
           \/ Running /\ ("set" \notin failed' => conf'["net_cls"][cmd.p]["classid"] = <<tc_major, cmd.p>>)
    BY <1>9, Dispatch, DidMark
  <2>2. Tame' => Tame /\ "set" \notin failed'
    <3>1. Tame' => Tame /\ "set" \notin faults
      BY <1>1, <2>1 DEF Tame, Harmful
    <3>2. failed' \subseteq faults
      BY <1>1, <2>1 DEF Aborted, Running
    <3> QED BY <3>1, <3>2
  <2>3. ASSUME Tame', NEW p \in groups'["net_cls"] PROVE Marked(p)'
    <3>1. p \in Pids /\ p \in groups["net_cls"]
      BY <1>1, <1>3, <2>1, <2>3
    <3>2. CASE p # cmd.p
      <4>1. conf'["net_cls"][p] = conf["net_cls"][p]
        BY <2>1, <3>1, <3>2 DEF Touches
      <4>2. Marked(p)
        BY <1>1, <2>2, <2>3, <3>1, <3>2 DEF MarksInv, InHand
      <4> QED BY <2>1, <4>1, <4>2 DEF Marked, Htb
    <3>3. CASE p = cmd.p
      <4>1. Htb /\ p \in classes /\ filter
        BY <1>9, <2>2, <2>3, <3>3 DEF Filtered
      <4>2. conf'["net_cls"][p]["classid"] = <<tc_major, p>>
        BY <2>1, <2>2, <2>3, <3>1, <3>3
      <4>3. tc_major = qdisc
        BY <4>1 DEF tc_major
      <4> QED BY <2>1, <4>1, <4>2, <4>3 DEF Marked, Htb
    <3> QED BY <3>2, <3>3
  <2>4. MarksInv'
    BY <2>3 DEF MarksInv
  <2>5. Running => NetAt'
    BY <1>9, <2>1 DEF NetAt, Running
  <2> QED BY <1>1, <2>1, <2>4, <2>5 DEF Running, Aborted
<1>10. CASE Head(todo) = Classify("net_cls", cmd.p) /\ Left = <<>>
  <2>0. Head(todo).do = "classify" /\ todo # Last2
    BY <1>10
  <2>1. CgroupTypes' /\ Running /\ UNCHANGED <<groups, conf, qdisc, classes, filter>>
    BY <1>10, Dispatch, DidClassify
  <2>2. Tame' => Tame
    BY <1>1, <2>1 DEF Tame
  <2>3. MarksInv'
    <3>1. SUFFICES ASSUME Tame', NEW p \in groups["net_cls"] PROVE Marked(p)'
      BY <2>1 DEF MarksInv
    <3>2. Marked(p)
      BY <1>4, <2>0, <2>2, <3>1
    <3> QED BY <2>1, <3>2 DEF Marked, Htb
  <2>4. NetAt'
    BY <1>10, <2>1 DEF NetAt, Running
  <2> QED BY <1>1, <2>1, <2>3, <2>4 DEF Running
<1> QED BY <1>1, <1>5, <1>6, <1>7, <1>8, <1>9, <1>10, NetHead

\* cpu -C, mem -C and blkio -C delete the one group.
LEMMA OwnClearStep ==
    ASSUME CgroupInv, cmd.op \in {"cpu-C", "mem-C", "blkio-C"}, Command
    PROVE  CgroupInv'
<1> USE Names
<1>1. status = "running" /\ todo # <<>> /\ \E c \in Controllers \ {"net_cls"} : OwnClearAt(c)
  BY Dispatch DEF CgroupInv, PlaceInv, Controllers
<1>2. PICK c \in Controllers \ {"net_cls"} : Head(todo) = Delete(c, cmd.p) /\ Left = <<>>
  BY <1>1, OwnClearHead
<1>3. CgroupTypes' /\ Running /\ Touches(c, cmd.p) /\ UNCHANGED <<qdisc, classes, filter, faults>>
  BY <1>2, Dispatch, DidDelete
<1>4. MarksInv'
  <2>1. "net_cls" \in Controllers \ {c}
    BY <1>2 DEF Controllers
  <2> QED BY <1>3, <2>1, MarksKept DEF Touches
<1>5. todo' = <<>> /\ cmd' = cmd
  BY <1>2, <1>3 DEF Running
<1> QED BY <1>3, <1>4, <1>5 DEF CgroupInv, PlaceInv, OwnClearAt

\* net -C: the group outlives its class by one command, in which it is in hand.
LEMMA NetClearStep ==
    ASSUME CgroupInv, cmd.op = "net-C", Command
    PROVE  CgroupInv'
<1> USE Names
<1>1. /\ status = "running" /\ todo # <<>> /\ NetClearAt /\ CgroupTypes /\ MarksInv
      /\ failed \subseteq faults /\ faults' = faults
  BY Dispatch DEF CgroupInv, PlaceInv, CgroupTypes
<1>2. SUFFICES /\ CgroupTypes' /\ MarksInv' /\ cmd' = cmd /\ (status' # "running" => todo' = <<>>)
               /\ status' \in {"running", "ok"} => NetClearAt'
  BY DEF CgroupInv, PlaceInv
<1>3. "net_cls" \in Controllers
  BY DEF Controllers
<1>4. CASE Head(todo) = Step("classdel") /\ Left = <<Delete("net_cls", cmd.p)>>
  <2>0. Head(todo).do = "classdel"
    BY <1>4
  <2>1. /\ CgroupTypes' /\ UNCHANGED <<groups, conf, cmd, qdisc, filter>>
        /\ \/ status' = "abort" /\ todo' = <<>> /\ classes' = classes
           \/ status' = status /\ todo' = Left /\ classes \ {cmd.p} \subseteq classes'
    BY <2>0, Dispatch, DidTc DEF tc_class_del, NextStep, Unseen, Abort, Left
  <2>2. todo # <<Delete("net_cls", cmd.p)>>
    BY <2>0
  <2>3. Tame' => Tame /\ \A p \in groups["net_cls"] : Marked(p)
    BY <1>1, <2>1, <2>2 DEF MarksInv, InHand, Tame
  <2>4. ASSUME Tame', NEW p \in groups'["net_cls"] PROVE (Marked(p) \/ InHand(p))'
    <3>1. Marked(p)
      BY <2>1, <2>3, <2>4
    <3>2. CASE p \in classes'
      BY <2>1, <3>1, <3>2 DEF Marked, Htb
    <3>3. CASE p \notin classes'
      <4>1. p = cmd.p /\ status' = status /\ todo' = Left
        BY <2>1, <3>1, <3>3 DEF Marked
      <4> QED BY <1>1, <1>4, <2>1, <4>1 DEF InHand
    <3> QED BY <3>2, <3>3
  <2>5. MarksInv'
    BY <2>4 DEF MarksInv
  <2>6. status' # "abort" => NetClearAt'
    BY <1>4, <2>1 DEF NetClearAt
  <2> QED BY <1>1, <2>1, <2>5, <2>6
<1>5. CASE Head(todo) = Delete("net_cls", cmd.p) /\ Left = <<>>
  <2>1. /\ CgroupTypes' /\ Running /\ Touches("net_cls", cmd.p) /\ UNCHANGED <<qdisc, classes, filter>>
        /\ "delete" \notin failed' => cmd.p \notin groups'["net_cls"]
    BY <1>5, Dispatch, DidDelete
  <2>2. Tame' => Tame /\ "delete" \notin failed'
    BY <1>1, <2>1 DEF Tame, Harmful, Running
  <2>3. ASSUME Tame', NEW p \in groups'["net_cls"] PROVE Marked(p)'
    <3>1. p \in Pids /\ p # cmd.p
      BY <1>3, <2>1, <2>2, <2>3 DEF CgroupTypes
    <3>2. p \in groups["net_cls"] /\ conf'["net_cls"][p] = conf["net_cls"][p]
      BY <2>1, <3>1 DEF Touches
    <3>3. Marked(p)
      BY <1>1, <2>2, <2>3, <3>1, <3>2 DEF MarksInv, InHand
    <3> QED BY <2>1, <3>2, <3>3 DEF Marked, Htb
  <2>4. MarksInv'
    BY <2>3 DEF MarksInv
  <2>5. NetClearAt'
    BY <1>5, <2>1 DEF NetClearAt, Running
  <2> QED BY <1>1, <2>1, <2>4, <2>5 DEF Running
<1> QED BY <1>1, <1>4, <1>5, NetClearHead

\* clear finds every group it is about and forgets none of them.
LEMMA ClearStep ==
    ASSUME CgroupInv, cmd.op \in {"clear", "clearall"}, Command
    PROVE  CgroupInv'
<1> USE Names
<1>1. /\ status = "running" /\ todo # <<>> /\ ClearAt /\ (cmd.op = "clearall" => ClearAllAt)
      /\ groups \in [Controllers -> SUBSET Pids] /\ failed \subseteq faults /\ faults' = faults
  BY Dispatch DEF CgroupInv, PlaceInv, CgroupTypes
<1>2. SUFFICES /\ CgroupTypes' /\ MarksInv' /\ cmd' = cmd /\ (status' # "running" => todo' = <<>>)
               /\ status' \in {"running", "ok"} => ClearAt' /\ (cmd.op = "clearall" => ClearAllAt')
  BY DEF CgroupInv, PlaceInv
<1>3. "net_cls" \in Controllers
  BY DEF Controllers
<1>4. CASE Head(todo) = Step("lscgroup") /\ Tail(todo) = <<>>
  <2>0. Head(todo).do = "lscgroup"
    BY <1>4
  <2>1. /\ CgroupTypes' /\ UNCHANGED <<groups, conf, qdisc, classes, filter, faults, cmd, status>> /\ todo' # <<>>
        /\ \E s \in Seq(Deletes) : todo' = s \o <<Step("qdiscdel")>>
        /\ cmd.op = "clearall" =>
             \A c \in Controllers : \A p \in groups[c] :
                 \E k \in 1 .. Len(todo') : todo'[k] = Delete(c, p)
    BY <1>4, <2>0, Dispatch, DidLook
  <2>2. MarksInv'
    BY <2>1, MarksKept
  <2>3. ClearAt'
    BY <2>1 DEF ClearAt
  <2>4. cmd.op = "clearall" => ClearAllAt'
    BY <2>1 DEF ClearAllAt
  <2> QED BY <1>1, <2>1, <2>2, <2>3, <2>4
<1>5. CASE Head(todo) = Step("qdiscdel") /\ Left = <<>> /\ todo = <<Step("qdiscdel")>>
  <2>0. Head(todo).do = "qdiscdel" /\ tc_qdisc_do_del
    BY <1>5, Dispatch
  <2>1. CgroupTypes' /\ UNCHANGED <<groups, conf, cmd>> /\ todo' = <<>> /\ failed \subseteq failed'
    BY <1>1, <1>5, <2>0, DidTc DEF Running, Aborted
  <2>2. ClearAt'
    BY <2>1 DEF ClearAt
  <2>3. CASE cmd.op = "clear"
    <3>1. UNCHANGED <<qdisc, classes, filter, faults>>
      BY <1>1, <2>0, <2>3 DEF tc_qdisc_do_del, tcvars
    <3>2. MarksInv'
      BY <2>1, <2>3, <3>1, MarksKept
    <3> QED BY <2>1, <2>2, <2>3, <3>2
  <2>4. CASE cmd.op = "clearall"
    <3>1. "qdiscdel" \notin failed' => qdisc' # OurMajor
      BY <2>0, <2>4 DEF tc_qdisc_do_del, tcvars, Unseen, OurMajor
    <3>2. "delete" \notin failed => \A c \in Controllers : groups[c] = {}
      <4>1. todo[1].do = "qdiscdel" /\ Len(todo) = 1
        BY <1>5
      <4>2. \A c, p : \A k \in 1 .. Len(todo) : todo[k] # Delete(c, p)
        BY <4>1
      <4>3. todo # <<Step("lscgroup")>>
        BY <2>0
      <4> QED BY <1>1, <2>4, <4>2, <4>3 DEF ClearAllAt
    <3>3. MarksInv'
      <4>1. Tame' => "delete" \notin failed
        BY <1>1 DEF Tame, Harmful
      <4> QED BY <1>3, <2>1, <3>2, <4>1 DEF MarksInv
    <3>4. ClearAllAt'
      BY <2>1, <3>1, <3>2 DEF ClearAllAt
    <3> QED BY <2>1, <2>2, <3>3, <3>4
  <2> QED BY <2>3, <2>4
<1>6. CASE /\ Head(todo) \in Deletes /\ Left # <<>>
           /\ \A k \in 1 .. Len(todo) : todo[k] = Head(todo) \/ \E j \in 1 .. Len(Left) : Left[j] = todo[k]
           /\ \E s \in Seq(Deletes) : Left = s \o <<Step("qdiscdel")>>
  <2>0. PICK c \in Controllers, p \in Pids : Head(todo) = Delete(c, p)
    BY <1>6 DEF Deletes
  <2>1. /\ CgroupTypes' /\ Running /\ Touches(c, p) /\ UNCHANGED <<qdisc, classes, filter, faults>>
        /\ "delete" \notin failed' => p \notin groups'[c]
        /\ p \in groups'[c] => UNCHANGED <<groups, conf>>
    BY <2>0, Dispatch, DidDelete
  <2>2. groups' \in [Controllers -> SUBSET Pids]
    BY <2>1 DEF CgroupTypes
  <2>3. ASSUME NEW d \in Controllers, NEW q \in groups'[d]
        PROVE  /\ q \in groups[d] /\ conf'[d][q] = conf[d][q]
               /\ "delete" \notin failed' => <<d, q>> # <<c, p>>
    BY <1>1, <2>1, <2>2, <2>3 DEF Touches
  <2>4. MarksInv'
    BY <1>3, <2>1, <2>3, MarksKept
  <2>5. ClearAt'
    BY <1>6, <2>1 DEF ClearAt, Running, Deletes
  <2>6. ASSUME cmd.op = "clearall", "delete" \notin failed', NEW d \in Controllers, NEW q \in groups'[d]
        PROVE  \E j \in 1 .. Len(Left) : Left[j] = Delete(d, q)
    <3>1. todo # <<Step("lscgroup")>> /\ "delete" \notin failed
      BY <2>0, <2>1, <2>6 DEF Running
    <3>2. PICK k \in 1 .. Len(todo) : todo[k] = Delete(d, q)
      BY <1>1, <2>3, <2>6, <3>1 DEF ClearAllAt
    <3>3. Delete(d, q) # Delete(c, p)
      BY <2>3, <2>6
    <3> QED BY <1>6, <2>0, <3>2, <3>3
  <2>7. cmd.op = "clearall" => ClearAllAt'
    BY <1>6, <2>1, <2>6 DEF ClearAllAt, Running
  <2> QED BY <1>1, <2>1, <2>4, <2>5, <2>7 DEF Running
<1> QED BY <1>1, <1>4, <1>5, <1>6, ClearHead

\* Every command of an invocation preserves the invariant.
LEMMA CommandStep ==
    ASSUME CgroupInv, Command
    PROVE  CgroupInv'
<1>1. cmd.op \in Ops
  BY Dispatch DEF CgroupInv, CgroupTypes
<1> QED BY <1>1, CpuStep, MemStep, BlkioStep, NetStep, OwnClearStep, NetClearStep, ClearStep DEF Ops

\* Between two commands: a new invocation, the end of one, the threads.
LEMMA InvokeStep ==
    ASSUME CgroupInv, NEW r \in Commands, Invoke(r), faults' = faults
    PROVE  CgroupInv'
<1>1. /\ status # "running" /\ cmd' = r /\ todo' = Script(r) /\ status' = "running" /\ listed' = {}
      /\ failed' = {} /\ UNCHANGED <<groups, conf, member, owner, qdisc, classes, filter>>
  BY DEF Invoke, cgvars, tcvars
<1>2. /\ r.op \in Ops /\ (r.op # "clearall" => r.p \in Pids)
      /\ (r.op = "mem" => r.v \in Nat) /\ (r.op = "cpu" => r.spid \in BOOLEAN)
  <2>1. Limits \subseteq Nat
    BY CgroupAssumption
  <2> QED BY <2>1 DEF Commands, Ops
<1>3. CgroupTypes'
  <2>1. CgroupTypes
    BY DEF CgroupInv
  <2> QED BY <1>1, <1>2, <2>1 DEF CgroupTypes, Ops, Live
<1>4. MarksInv'
  <2>1. Tame => \A p \in groups["net_cls"] : Marked(p)
    BY <1>1 DEF CgroupInv, MarksInv, InHand
  <2> QED BY <1>1, <2>1 DEF MarksInv, Marked, Tame, Htb
<1>5. r.op = "cpu" => CpuAt'
  BY <1>1 DEF Script, do_cgroup_cpu, CpuAt, CpuLast
<1>6. r.op = "mem" => MemAt'
  BY <1>1 DEF Script, do_cgroup_mem, MemAt
<1>7. r.op = "blkio" => BlkioAt'
  BY <1>1 DEF Script, do_cgroup_blkio, BlkioAt
<1>8. r.op = "net" => NetAt'
  BY <1>1 DEF Script, do_cgroup_net, NetAt
<1>9. /\ r.op = "cpu-C" => OwnClearAt("cpu")'
      /\ r.op = "mem-C" => OwnClearAt("memory")'
      /\ r.op = "blkio-C" => OwnClearAt("blkio")'
      /\ r.op = "net-C" => NetClearAt'
  BY <1>1 DEF Script, OwnClearAt, NetClearAt
<1>10. r.op \in {"clear", "clearall"} => ClearAt' /\ ClearAllAt'
  BY <1>1 DEF Script, ClearAt, ClearAllAt
<1>11. PlaceInv'
  BY <1>1, <1>5, <1>6, <1>7, <1>8, <1>9, <1>10 DEF PlaceInv
<1> QED BY <1>3, <1>4, <1>11 DEF CgroupInv

\* An invocation that has nothing left to do returns.
LEMMA ReturnStep ==
    ASSUME CgroupInv, Return, faults' = faults
    PROVE  CgroupInv'
<1>1. /\ status = "running" /\ todo = <<>> /\ status' = "ok"
      /\ UNCHANGED <<groups, conf, member, owner, qdisc, classes, filter, cmd, todo, listed, failed>>
  BY DEF Return, cgvars, tcvars
<1>2. CgroupTypes'
  <2>1. CgroupTypes
    BY DEF CgroupInv
  <2> QED BY <1>1, <2>1 DEF CgroupTypes, Live
<1>3. MarksInv'
  <2>1. Tame => \A p \in groups["net_cls"] : Marked(p)
    BY <1>1 DEF CgroupInv, MarksInv, InHand
  <2> QED BY <1>1, <2>1 DEF MarksInv, Marked, Tame, Htb
<1>4. PlaceInv
  BY DEF CgroupInv
<1>5. /\ (CpuAt <=> CpuAt') /\ (MemAt <=> MemAt') /\ (BlkioAt <=> BlkioAt') /\ (NetAt <=> NetAt')
      /\ (NetClearAt <=> NetClearAt') /\ (ClearAt <=> ClearAt') /\ (ClearAllAt <=> ClearAllAt')
      /\ \A c : OwnClearAt(c) <=> OwnClearAt(c)'
  BY <1>1 DEF CpuAt, CpuLast, Moves, MemAt, BlkioAt, NetAt, Classed, Filtered, Tame, Htb, NetClearAt,
              ClearAt, Deletes, ClearAllAt, OwnClearAt
<1>6. PlaceInv'
  BY <1>1, <1>4, <1>5 DEF PlaceInv
<1> QED BY <1>2, <1>3, <1>6 DEF CgroupInv

\* An exception leaves the marks as they were: the group in hand is only looked
\* at by a command that is harmful.
LEMMA CheckStep ==
    ASSUME CgroupInv, CheckFails, faults' = faults
    PROVE  CgroupInv'
<1> USE Names
<1>1. /\ status' = "abort" /\ todo' = <<>>
      /\ UNCHANGED <<groups, conf, member, owner, qdisc, classes, filter, cmd, listed, failed>>
  BY DEF CheckFails, Abort, cgvars, tcvars
<1>2. PICK name \in DOMAIN Looks : Doing(name) /\ Looks[name] \in faults
  BY DEF CheckFails
<1>3. CgroupTypes'
  <2>1. CgroupTypes /\ cmd.op # "none"
    BY <1>2 DEF CgroupInv, CgroupTypes, Doing
  <2> QED BY <1>1, <2>1 DEF CgroupTypes, Live
<1>4. ASSUME Tame, NEW p, InHand(p) PROVE FALSE
  <2>1. Head(todo).do = "setclassid" \/ Head(todo).do = "delete"
    BY <1>4 DEF InHand
  <2>2. name = "setclassid"
    BY <1>2, <2>1 DEF Doing, Looks
  <2>3. Looks[name] = "cgget"
    BY <2>2 DEF Looks
  <2> QED BY <1>2, <1>4, <2>3 DEF Tame, Harmful
<1>5. MarksInv'
  <2>1. Tame => \A p \in groups["net_cls"] : Marked(p)
    BY <1>4 DEF CgroupInv, MarksInv
  <2> QED BY <1>1, <2>1 DEF MarksInv, Marked, Tame, Htb
<1>6. PlaceInv'
  BY <1>1 DEF PlaceInv
<1> QED BY <1>3, <1>5, <1>6 DEF CgroupInv

\* Threads that start and end are not among those that a place speaks of.
LEMMA ThreadStep ==
    ASSUME CgroupInv, CgroupTypes',
           UNCHANGED <<groups, conf, qdisc, classes, filter, cmd, todo, status, faults, failed>>,
           listed' \subseteq listed,
           \A c \in Controllers : \A t \in listed' \cup Pids : member'[c][t] = member[c][t]
    PROVE  CgroupInv'
<1>1. "cpu" \in Controllers /\ "memory" \in Controllers
  BY DEF Controllers
<1>2. MarksInv'
  BY DEF CgroupInv, MarksInv, Marked, InHand, Tame, Htb
<1>3. CpuAt => CpuAt'
  <2>1. \A t \in listed' : member'["cpu"][t] = member["cpu"][t]
    BY <1>1
  <2> QED BY <2>1 DEF CpuAt, CpuLast, Moves
<1>4. cmd.p \in Pids /\ MemAt => MemAt'
  <2>1. cmd.p \in Pids => member'["memory"][cmd.p] = member["memory"][cmd.p]
    BY <1>1
  <2> QED BY <2>1 DEF MemAt
<1>5. /\ (BlkioAt <=> BlkioAt') /\ (NetAt <=> NetAt') /\ (NetClearAt <=> NetClearAt')
      /\ (ClearAt <=> ClearAt') /\ (ClearAllAt <=> ClearAllAt') /\ \A c : OwnClearAt(c) <=> OwnClearAt(c)'
  BY DEF BlkioAt, NetAt, Classed, Filtered, Tame, Htb, NetClearAt, ClearAt, Deletes, ClearAllAt, OwnClearAt
<1>6. PlaceInv /\ (cmd.op = "mem" => cmd.p \in Pids)
  BY DEF CgroupInv, CgroupTypes
<1>7. PlaceInv'
  BY <1>3, <1>4, <1>5, <1>6 DEF PlaceInv
<1> QED BY <1>2, <1>7 DEF CgroupInv

\* A new thread takes over the groups of its creator.
LEMMA SpawnStep ==
    ASSUME CgroupInv, NEW t \in Live, NEW child \in Extra, Spawn(t, child), faults' = faults
    PROVE  CgroupInv'
<1>1. /\ child \notin Live
      /\ owner' = [x \in Live \cup {child} |-> IF x = child THEN owner[t] ELSE owner[x]]
      /\ member' = [c \in Controllers |-> [member[c] EXCEPT ![child] = member[c][t]]]
      /\ UNCHANGED <<groups, conf, qdisc, classes, filter, cmd, todo, status, listed, failed>>
  BY DEF Spawn, tcvars
<1>2. /\ CgroupTypes /\ member \in [Controllers -> [Threads -> Pids \cup {Root}]]
      /\ Pids \subseteq Live /\ Live \subseteq Threads /\ listed \subseteq Live
      /\ child \in Threads /\ t \in Threads
  BY DEF CgroupInv, CgroupTypes, Threads
<1>3. DOMAIN owner' = Live \cup {child}
  BY <1>1
<1>4. member' \in [Controllers -> [Threads -> Pids \cup {Root}]]
  BY <1>1, <1>2
<1>5. \A c \in Controllers : \A x \in Threads \ {child} : member'[c][x] = member[c][x]
  BY <1>1, <1>2
<1>6. /\ groups \in [Controllers -> SUBSET Pids]
      /\ DOMAIN conf = Controllers
      /\ \A c \in Controllers : DOMAIN conf[c] = Pids /\ \A p \in Pids : DOMAIN conf[c][p] = Keys
  BY <1>2 DEF CgroupTypes
<1>7. CgroupTypes'
  <2>1. Live' = Live \cup {child}
    BY <1>3 DEF Live
  <2>2. Pids \subseteq Live' /\ Live' \subseteq Threads /\ listed \subseteq Live'
    BY <1>2, <2>1
  <2> QED BY <1>1, <1>2, <1>4, <1>6, <2>2 DEF CgroupTypes
<1>8. \A c \in Controllers : \A x \in listed' \cup Pids : member'[c][x] = member[c][x]
  BY <1>1, <1>2, <1>5
<1> QED BY <1>1, <1>7, <1>8, ThreadStep

\* A thread other than a main thread ends.
LEMMA ExitStep ==
    ASSUME CgroupInv, NEW t \in Live, Exit(t), faults' = faults
    PROVE  CgroupInv'
<1>1. /\ t \notin Pids
      /\ owner' = [x \in Live \ {t} |-> owner[x]]
      /\ member' = [c \in Controllers |-> [member[c] EXCEPT ![t] = Root]]
      /\ listed' = listed \ {t}
      /\ UNCHANGED <<groups, conf, qdisc, classes, filter, cmd, todo, status, failed>>
  BY DEF Exit, tcvars
<1>2. /\ CgroupTypes /\ member \in [Controllers -> [Threads -> Pids \cup {Root}]]
      /\ Pids \subseteq Live /\ Live \subseteq Threads /\ listed \subseteq Live
      /\ t \in Threads
  BY DEF CgroupInv, CgroupTypes
<1>3. DOMAIN owner' = Live \ {t}
  BY <1>1
<1>4. member' \in [Controllers -> [Threads -> Pids \cup {Root}]]
  BY <1>1, <1>2
<1>5. \A c \in Controllers : \A x \in Threads \ {t} : member'[c][x] = member[c][x]
  BY <1>1, <1>2
<1>6. /\ groups \in [Controllers -> SUBSET Pids]
      /\ DOMAIN conf = Controllers
      /\ \A c \in Controllers : DOMAIN conf[c] = Pids /\ \A p \in Pids : DOMAIN conf[c][p] = Keys
  BY <1>2 DEF CgroupTypes
<1>7. CgroupTypes'
  <2>1. Live' = Live \ {t}
    BY <1>3 DEF Live
  <2>2. Pids \subseteq Live' /\ Live' \subseteq Threads /\ listed' \subseteq Live'
    BY <1>1, <1>2, <2>1
  <2> QED BY <1>1, <1>2, <1>4, <1>6, <2>2 DEF CgroupTypes
<1>8. \A c \in Controllers : \A x \in listed' \cup Pids : member'[c][x] = member[c][x]
  BY <1>1, <1>2, <1>5
<1> QED BY <1>1, <1>7, <1>8, ThreadStep

\* The invariant holds before the first invocation.
LEMMA CgroupInitInv ==
    ASSUME Init
    PROVE  CgroupInv
<1>1. /\ groups = [c \in Controllers |-> {}]
      /\ conf = [c \in Controllers |-> [p \in Pids |-> NoConf]]
      /\ member = [c \in Controllers |-> [t \in Threads |-> Root]]
      /\ owner = [t \in Pids |-> t]
      /\ cmd = [op |-> "none"] /\ todo = <<>> /\ status = "idle" /\ listed = {} /\ failed = {}
  BY DEF Init
<1>2. "net_cls" \in Controllers /\ DOMAIN NoConf = Keys
  BY DEF Controllers, NoConf
<1>3. DOMAIN owner = Pids /\ cmd.op = "none"
  BY <1>1
<1>4. CgroupTypes
  BY <1>1, <1>2, <1>3 DEF CgroupTypes, Live, Threads, Ops
<1>5. PlaceInv /\ MarksInv
  BY <1>1, <1>2 DEF PlaceInv, MarksInv
<1> QED BY <1>4, <1>5 DEF CgroupInv

\* Every step preserves the invariant.
LEMMA CgroupStepInv ==
    ASSUME CgroupInv, [Next]_vars
    PROVE  CgroupInv'
<1>1. CASE Command
  BY <1>1, CommandStep
<1>2. CASE (\E r \in Commands : Invoke(r)) /\ faults' = faults
  BY <1>2, InvokeStep
<1>3. CASE (CheckFails \/ Return) /\ faults' = faults
  BY <1>3, CheckStep, ReturnStep
<1>4. CASE (\E t \in Live, child \in Extra : Spawn(t, child)) /\ faults' = faults
  BY <1>4, SpawnStep
<1>5. CASE (\E t \in Live : Exit(t)) /\ faults' = faults
  BY <1>5, ExitStep
<1>6. CASE UNCHANGED vars
  <2>1. /\ UNCHANGED <<groups, conf, member, owner, qdisc, classes, filter, cmd, todo, status, listed>>
        /\ UNCHANGED <<faults, failed>>
    BY <1>6 DEF vars, cgvars, tcvars
  <2>2. CgroupTypes'
    BY <2>1 DEF CgroupInv, CgroupTypes, Live
  <2> QED BY <2>1, <2>2, ThreadStep
<1> QED BY <1>1, <1>2, <1>3, <1>4, <1>5, <1>6 DEF Next, Command

\* The places and the marks hold in every state of the program.
LEMMA CgroupInvHolds ==
    Spec => []CgroupInv
<1>1. Init => CgroupInv
  BY CgroupInitInv
<1>2. CgroupInv /\ [Next]_vars => CgroupInv'
  BY CgroupStepInv
<1> QED BY <1>1, <1>2, PTL DEF Spec

\* Repeating `mem' with a larger or a smaller limit works for any limits: when
\* the tool has returned and no command failed both files hold the requested one and the process is
\* in the group.
THEOREM MemLimitInForceHolds ==
    Spec => []MemLimitInForce
<1>1. CgroupInv => MemLimitInForce
  BY DEF CgroupInv, PlaceInv, MemAt, MemLimitInForce, Finished
<1> QED BY <1>1, CgroupInvHolds, PTL

\* Whatever threads start and end while they are moved one by one, every thread
\* that was listed and still lives is in the group when `cpu' returns, unless a
\* move itself failed.
THEOREM ListedThreadsLimitedHolds ==
    Spec => []ListedThreadsLimited
<1>1. CgroupInv => ListedThreadsLimited
  <2>1. SUFFICES ASSUME CgroupInv, status = "ok", cmd.op = "cpu", ~cmd.spid,
                        "classify" \notin failed, NEW t \in listed
                 PROVE  member["cpu"][t] = cmd.p
    BY DEF ListedThreadsLimited, Finished
  <2>2. CpuAt /\ todo = <<>>
    BY <2>1 DEF CgroupInv, PlaceInv
  <2>3. Len(todo) = 0
    BY <2>2
  <2>4. ~\E k \in 1 .. Len(todo) : todo[k] = Classify("cpu", t)
    BY <2>3
  <2> QED BY <2>1, <2>2, <2>4 DEF CpuAt
<1> QED BY <1>1, CgroupInvHolds, PTL

\* Whenever the tool is not running, the packets of every group of net_cls find
\* the class of its mark, for every set of failures but the harmful ones and every
\* qdisc but one of another kind.
THEOREM MarksHaveClassesHolds ==
    Spec => []MarksHaveClasses
<1>1. CgroupInv => MarksHaveClasses
  BY DEF CgroupInv, MarksInv, Marked, InHand, Tame, MarksHaveClasses
<1> QED BY <1>1, CgroupInvHolds, PTL

\* `clear -A' leaves no group and no qdisc of the tool, whatever was there, unless
\* one of its own deletions failed.
THEOREM ClearAllLeavesNothingHolds ==
    Spec => []ClearAllLeavesNothing
<1>1. CgroupInv => ClearAllLeavesNothing
  <2>1. SUFFICES ASSUME CgroupInv, status = "ok", cmd.op = "clearall"
                 PROVE  /\ "delete" \notin failed => \A c \in Controllers : groups[c] = {}
                        /\ "qdiscdel" \notin failed => qdisc # OurMajor
    BY DEF ClearAllLeavesNothing, Finished
  <2>2. ClearAllAt /\ todo = <<>>
    BY <2>1 DEF CgroupInv, PlaceInv
  <2>3. Len(todo) = 0 /\ todo # <<Step("lscgroup")>>
    BY <2>2
  <2> QED BY <2>2, <2>3 DEF ClearAllAt
<1> QED BY <1>1, CgroupInvHolds, PTL

\* No step of a subcommand other than clear changes the groups, or the files of
\* a group, of another process.
THEOREM OnlyOwnGroupsHolds ==
    Spec => OnlyOwnGroups
<1> DEFINE Own == cmd'.op \notin {"none", "clear", "clearall"} =>
                    \A c \in Controllers, p \in Pids \ {cmd'.p} :
                       (p \in groups'[c] <=> p \in groups[c]) /\ conf'[c][p] = conf[c][p]
<1>1. ASSUME CgroupInv, Command PROVE Own
  <2>1. status = "running" /\ todo # <<>> /\ Shape /\ faults' = faults
    BY <1>1, Dispatch, Shapes
  <2>2. CASE cgcreate
    BY <1>1, <2>1, <2>2, DidCreate DEF Touches, Running
  <2>3. CASE cgset
    BY <1>1, <2>1, <2>3, DidSet DEF Touches
  <2>4. CASE set_classid
    BY <1>1, <2>1, <2>4, DidMark DEF Touches
  <2>5. CASE cgdelete
    <3>1. Head(todo).do = "delete"
      BY <2>5 DEF cgdelete, Doing
    <3>2. cmd.op \notin {"clear", "clearall"} => Head(todo).p = cmd.p
      BY <2>1, <3>1 DEF Shape
    <3> QED BY <1>1, <2>1, <2>5, <3>2, DidDelete DEF Touches, Running
  <2>6. CASE cgclassify
    BY <2>6 DEF cgclassify
  <2>7. CASE get_spids_by_pid
    BY <2>7 DEF get_spids_by_pid, cgvars
  <2>8. CASE lscgroup_filter
    BY <2>8 DEF lscgroup_filter, cgvars
  <2>9. CASE tc_qdisc_do_del \/ tc_qdisc_add \/ tc_class_add \/ tc_filter_add \/ tc_class_del
    BY <1>1, <2>1, <2>9, DidTc
  <2> QED BY <1>1, <2>2, <2>3, <2>4, <2>5, <2>6, <2>7, <2>8, <2>9 DEF Command
<1>2. CgroupInv /\ [Next]_vars => [Own]_vars
  <2>1. SUFFICES ASSUME CgroupInv, Next PROVE Own
    OBVIOUS
  <2>2. CASE Command
    BY <1>1, <2>1, <2>2
  <2>3. CASE \E r \in Commands : Invoke(r)
    BY <2>3 DEF Invoke, cgvars
  <2>4. CASE CheckFails \/ Return
    BY <2>4 DEF CheckFails, Return, cgvars
  <2>5. CASE \E t \in Live, child \in Extra : Spawn(t, child)
    BY <2>5 DEF Spawn
  <2>6. CASE \E t \in Live : Exit(t)
    BY <2>6 DEF Exit
  <2> QED BY <2>1, <2>2, <2>3, <2>4, <2>5, <2>6 DEF Next, Command
<1> QED BY <1>2, CgroupInvHolds, PTL DEF Spec, OnlyOwnGroups

=============================================================================
