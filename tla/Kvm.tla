-------------------------------- MODULE Kvm --------------------------------
(***************************************************************************)
(* The two programs that run a virtual machine on the KVM interface,       *)
(*   "test1"  src/src/virtual/kvm/kvm_run_test1.c, with code built in, and *)
(*   "test2"  src/src/virtual/kvm/kvm_run_test2.c, with code from a file,  *)
(* and the guest programs beside them: add.asm, loop.asm and hello.asm.    *)
(*                                                                         *)
(* KVM and the processor are external.  A cell of memory holds one guest   *)
(* instruction or one byte of data; al is 8 bits wide, the other registers *)
(* do not come near their width.                                           *)
(***************************************************************************)
EXTENDS Integers, Sequences

CONSTANTS
    MemSize,        \* cells in a page, 0x1000 bytes in the code
    Rounds,         \* how often loop.asm loops, 10 in the code
    String,         \* what hello.asm prints, "Hello World!\n" in the code
    Faults          \* things that may fail, see Call and Leave

ASSUME KvmAssumption ==
    /\ {MemSize, Rounds} \subseteq Nat \ {0} /\ MemSize > Len(String) + 10
    /\ String \in Seq(0 .. 255) \ {<<>>}

VARIABLES
    prog,           \* "test1" or "test2"
    guest,          \* the name of the code it runs
    kpc,            \* "setup", "run", "guest", "exit" or "ended"
    calls,          \* calls of the set-up still to be made
    unmapped,       \* mmap() calls that failed
    mem,            \* the guest's page
    base,           \* the guest address of the page
    regs,           \* the virtual processor
    run,            \* the shared structure: why the guest was left
    out,            \* bytes printed
    result          \* how the program ended, "none" before

kvmvars == <<prog, guest, kpc, calls, unmapped, mem, base, regs, run, out, result>>

NL == 10
Port == "0x3f8"

----------------------------------------------------------------------------
(* Guest programs.  mov_al_si is "mov al, [si]", add_al_bl is "add al, bl". *)

add ==
    << <<"mov_dx", Port>>, <<"add_al_bl">>, <<"add_al", 48>>, <<"out">>,
       <<"mov_al", NL>>, <<"out">>, <<"hlt">> >>

loop ==
    << <<"mov_dx", Port>>, <<"mov_cx", Rounds>>, <<"mov_al", 65>>,
       <<"out">>, <<"inc_al">>, <<"loop", 3>>,
       <<"mov_al", NL>>, <<"out">>, <<"hlt">> >>

\* The string follows the eight instructions.
hello ==
    << <<"mov_dx", Port>>, <<"mov_si", 8>>, <<"mov_cx", Len(String)>>,
       <<"mov_al_si">>, <<"out">>, <<"inc_si">>, <<"loop", 3>>, <<"hlt">> >>
    \o [k \in DOMAIN String |-> <<"db", String[k]>>]

\* Files somebody else may name: one that uses a port p in another way than by
\* writing one byte to the console, and one that is longer than the page.
foreign(p, insn) == << <<"mov_dx", p>>, <<insn>>, <<"hlt">> >>
long  == add \o [k \in 1 .. MemSize |-> <<"db", 0>>]

Code ==
    CASE guest = "add" -> add [] guest = "loop" -> loop [] guest = "hello" -> hello
      [] guest = "other" -> foreign("other", "out") [] guest = "word" -> foreign(Port, "out_ax")
      [] guest = "input" -> foreign(Port, "in") [] guest = "many" -> foreign(Port, "rep_outsb")
      [] OTHER -> long

Guests == {"add", "loop", "hello", "other", "word", "input", "many", "long"}

----------------------------------------------------------------------------
(* Setting up *)

calls1 ==
    <<"open", "version", "extension", "create_vm", "mmap_mem", "memcpy", "region",
      "create_vcpu", "mmap_size", "mmap_run", "get_sregs", "set_sregs", "set_regs">>
\* test2 first reads its argument.
calls2 == <<"argc", "fopen", "malloc">> \o calls1

Zero == <<"db", 0>>
\* A new virtual processor starts where the firmware would be; its cs is not 0.
Reset == [cs |-> 1, ip |-> 65520, dx |-> "none", al |-> 0, bl |-> 0, cx |-> 0, si |-> 0]

KvmInit ==
    /\ prog \in {"test1", "test2"}
    /\ guest \in IF prog = "test1" THEN {"add"} ELSE Guests
    /\ kpc = "setup" /\ calls = IF prog = "test1" THEN calls1 ELSE calls2
    /\ unmapped = {} /\ mem = [a \in 0 .. MemSize - 1 |-> Zero] /\ base = -1
    /\ regs = Reset /\ run = [reason |-> "none"] /\ out = <<>> /\ result = "none"

End(s) == kpc' = "ended" /\ result' = s

\* After a call of the set-up that returned.
Advance ==
    /\ calls' = Tail(calls)
    /\ kpc' = IF Len(calls) = 1 THEN "run" ELSE "setup"
    /\ UNCHANGED result

\* A call fails.  The tests for null do not see that mmap() failed, and malloc
\* is not tested: the copy into or from nothing ends the program.
CallFails ==
    LET c == Head(calls) IN
    /\ kpc = "setup" /\ c \in Faults \ {"memcpy"}
    /\ CASE c \in {"mmap_mem", "mmap_run"} -> unmapped' = unmapped \cup {c} /\ Advance
         [] c = "malloc" -> End("killed") /\ UNCHANGED <<calls, unmapped>>
         [] OTHER        -> End("1") /\ UNCHANGED <<calls, unmapped>>
    /\ UNCHANGED <<prog, guest, mem, base, regs, run, out>>

\* memcpy(mem, code, code_len) with no look at the size of the page: what is
\* too long hits a mapping that follows or ends the program.
memcpy ==
    /\ kpc = "setup" /\ Head(calls) = "memcpy"
    /\ \/ /\ "mmap_mem" \notin unmapped
          /\ mem' = [a \in 0 .. MemSize - 1 |-> IF a < Len(Code) THEN Code[a + 1] ELSE Zero]
          /\ Advance
       \/ /\ "mmap_mem" \in unmapped \/ Len(Code) > MemSize
          /\ End("killed") /\ UNCHANGED <<calls, mem>>
    /\ UNCHANGED <<prog, guest, unmapped, base, regs, run, out>>

\* .guest_phys_addr and .rip
Start == IF prog = "test1" THEN MemSize ELSE 0

region ==
    /\ kpc = "setup" /\ Head(calls) = "region"
    /\ base' = Start /\ Advance
    /\ UNCHANGED <<prog, guest, unmapped, mem, regs, run, out>>

set_sregs ==
    /\ kpc = "setup" /\ Head(calls) = "set_sregs"
    /\ regs' = [regs EXCEPT !.cs = 0] /\ Advance
    /\ UNCHANGED <<prog, guest, unmapped, mem, base, run, out>>

set_regs ==
    /\ kpc = "setup" /\ Head(calls) = "set_regs"
    /\ regs' = [regs EXCEPT !.ip = Start, !.al = 2, !.bl = 2] /\ Advance
    /\ UNCHANGED <<prog, guest, unmapped, mem, base, run, out>>

\* The other calls leave nothing that the guest sees.
Call ==
    /\ kpc = "setup" /\ Head(calls) \notin {"memcpy", "region", "set_sregs", "set_regs"}
    /\ Advance
    /\ UNCHANGED <<prog, guest, unmapped, mem, base, regs, run, out>>

----------------------------------------------------------------------------
(* Running *)

\* ioctl(vcpufd, KVM_RUN): fails, for a signal too, or runs the guest.
KvmRun ==
    /\ kpc = "run"
    /\ \/ kpc' = "guest" /\ UNCHANGED result
       \/ "run" \in Faults /\ End("1")
    /\ UNCHANGED <<prog, guest, calls, unmapped, mem, base, regs, run, out>>

\* The cell at an address, when it is in the page and cs has its base.
InPage(a) == regs.cs = 0 /\ a \in base .. base + MemSize - 1
Insn == mem[regs.ip - base]

LeaveFor(r) ==
    /\ run' = r /\ kpc' = "exit"
    /\ UNCHANGED <<prog, guest, calls, unmapped, mem, base, out, result>>

\* An instruction that does not leave the guest.  hello.asm takes the address
\* of its string from the start of the file.
Execute ==
    /\ kpc = "guest" /\ InPage(regs.ip)
    /\ LET next == [regs EXCEPT !.ip = @ + 1] IN
       \/ Insn[1] = "mov_dx" /\ regs' = [next EXCEPT !.dx = Insn[2]]
       \/ Insn[1] = "mov_cx" /\ regs' = [next EXCEPT !.cx = Insn[2]]
       \/ Insn[1] = "mov_si" /\ regs' = [next EXCEPT !.si = Insn[2]]
       \/ Insn[1] = "mov_al" /\ regs' = [next EXCEPT !.al = Insn[2]]
       \/ Insn[1] = "add_al_bl" /\ regs' = [next EXCEPT !.al = (@ + regs.bl) % 256]
       \/ Insn[1] = "add_al" /\ regs' = [next EXCEPT !.al = (@ + Insn[2]) % 256]
       \/ Insn[1] = "inc_al" /\ regs' = [next EXCEPT !.al = (@ + 1) % 256]
       \/ Insn[1] = "inc_si" /\ regs' = [next EXCEPT !.si = @ + 1]
       \/ /\ Insn[1] = "mov_al_si" /\ InPage(regs.si)
          /\ regs' = [next EXCEPT !.al = mem[regs.si - base][2]]
       \/ /\ Insn[1] = "loop"
          /\ regs' = [next EXCEPT !.cx = @ - 1, !.ip = IF regs.cx = 1 THEN @ ELSE base + Insn[2]]
    /\ UNCHANGED <<prog, guest, kpc, calls, unmapped, mem, base, run, out, result>>

\* Direction, size and count of the accesses to a port.
Access ==
    [out |-> <<"out", 1, 1>>, out_ax |-> <<"out", 2, 1>>, in |-> <<"in", 1, 1>>, rep_outsb |-> <<"out", 1, 4>>]

\* An access to a port leaves the guest.
Out ==
    /\ kpc = "guest" /\ InPage(regs.ip) /\ Insn[1] \in DOMAIN Access
    /\ regs' = [regs EXCEPT !.ip = @ + 1]
    /\ LeaveFor([reason |-> "io", port |-> regs.dx, data |-> regs.al, access |-> Access[Insn[1]]])

Halt ==
    /\ kpc = "guest" /\ InPage(regs.ip) /\ Insn[1] = "hlt"
    /\ regs' = [regs EXCEPT !.ip = @ + 1]
    /\ LeaveFor([reason |-> "hlt"])

\* The guest is left for any other reason: always when there is no
\* instruction, at any time when the host has trouble.
Leave ==
    /\ kpc = "guest"
    /\ "leave" \in Faults \/ ~InPage(regs.ip) \/ Insn[1] = "db"
    /\ \E r \in {"fail_entry", "internal_error", "default"} : LeaveFor([reason |-> r])
    /\ UNCHANGED regs

\* One byte to the console: the test of direction, size, port and count.
Console == run.reason = "io" /\ run.access = <<"out", 1, 1>> /\ run.port = Port

\* Mutant: the size of the access is not looked at.
SwitchAnySize ==
    /\ kpc = "exit" /\ "mmap_run" \notin unmapped
    /\ IF run.reason = "io" /\ run.access \in {Access.out, Access.out_ax} /\ run.port = Port
       THEN out' = Append(out, run.data) /\ kpc' = "run" /\ UNCHANGED result
       ELSE End(IF run.reason \in {"hlt", "default"} THEN "0" ELSE "1") /\ UNCHANGED out
    /\ UNCHANGED <<prog, guest, calls, unmapped, mem, base, regs, run>>

\* Mutant: a reason that is not known is passed over.
SwitchPassesOver ==
    /\ kpc = "exit" /\ "mmap_run" \notin unmapped
    /\ CASE Console ->
                out' = Append(out, run.data) /\ kpc' = "run" /\ UNCHANGED result
         [] run.reason = "default" -> kpc' = "run" /\ UNCHANGED <<out, result>>
         [] OTHER -> End(IF run.reason = "hlt" THEN "0" ELSE "1") /\ UNCHANGED out
    /\ UNCHANGED <<prog, guest, calls, unmapped, mem, base, regs, run>>

\* switch (run->exit_reason)
Switch ==
    /\ kpc = "exit" /\ "mmap_run" \notin unmapped
    /\ IF Console
       THEN out' = Append(out, run.data) /\ kpc' = "run" /\ UNCHANGED result
       ELSE End(IF run.reason \in {"hlt", "default"} THEN "0" ELSE "1") /\ UNCHANGED out
    /\ UNCHANGED <<prog, guest, calls, unmapped, mem, base, regs, run>>

\* run is MAP_FAILED, and run->exit_reason is the first use of it.
SwitchUnmapped ==
    /\ kpc = "exit" /\ "mmap_run" \in unmapped
    /\ End("killed")
    /\ UNCHANGED <<prog, guest, calls, unmapped, mem, base, regs, run, out>>

----------------------------------------------------------------------------

RunnerStep ==
    \/ CallFails \/ memcpy \/ region \/ set_sregs \/ set_regs \/ Call
    \/ KvmRun \/ Execute \/ Out \/ Halt \/ Leave \/ Switch \/ SwitchUnmapped

KvmTerminated == kpc = "ended" /\ UNCHANGED kvmvars

KvmNext == RunnerStep \/ KvmTerminated

KvmSpec == KvmInit /\ [][KvmNext]_kvmvars

----------------------------------------------------------------------------
(* Properties *)

KvmTypeOK ==
    /\ kpc \in {"setup", "run", "guest", "exit", "ended"}
    /\ unmapped \subseteq {"mmap_mem", "mmap_run"}
    /\ base \in {-1, 0, MemSize} /\ DOMAIN mem = 0 .. MemSize - 1
    /\ regs.al \in 0 .. 255 /\ regs.cx \in Nat /\ out \in Seq(0 .. 255)
    /\ result \in {"none", "0", "1", "killed"} /\ (kpc = "ended" <=> result # "none")

\* What the guests are meant to print: "the value of al+bl" (kvm_run_test2.c:18),
\* "10 rounds" of "ABCD..." (loop.asm), byte by byte, the string (hello.asm).
Meant ==
    CASE guest \in {"add", "long"} -> <<48 + 2 + 2, NL>>
      [] guest = "loop"  -> [k \in 1 .. Rounds |-> (64 + k) % 256] \o <<NL>>
      [] guest = "hello" -> String
      [] OTHER -> <<>>

\* At any time the program has printed a beginning of what its guest is meant
\* to print, whatever failed, and all of it when the guest has halted: none of
\* the set-up's calls can be missing or out of order, and no exit is printed
\* that is not a byte for the console.
OutputFaithful ==
    /\ Len(out) =< Len(Meant) /\ out = SubSeq(Meant, 1, Len(out))
    /\ kpc \in {"exit", "ended"} /\ run.reason = "hlt" => out = Meant

\* Once one of these guests is started the program ends, whatever the guest is
\* left for and whatever fails: no exit reason is passed over.  They all halt; a
\* guest that jumps to itself keeps KVM_RUN from returning for ever.
MonitorEnds == kpc = "run" ~> kpc = "ended"
=============================================================================
