------------------------------ MODULE MCZproc ------------------------------
(* An instance of Zproc for TLC: two processes whose walks share a table,  *)
(* one data page above 4 GB, entries with and without bit 63, one of a huge *)
(* page and one that is not present.                                       *)
EXTENDS Zproc, TLC

MCWalkers == {1, 2}
MCPages   == 0 .. 6
MCSlots   == {0, 1, 2}
MCHigh    == {6}
MCAlias   == [p \in MCPages |-> IF p = 6 THEN 0 ELSE p]
MCEntry(p, b) == [page |-> p, nx |-> b, kind |-> "present"]
\* Pages 1 and 2 are top tables, 3 is shared by all levels below them.
MCMem == [p \in MCPages |-> [s \in MCSlots |->
            CASE p = 0 \/ s = 2 -> [MCEntry(0, FALSE) EXCEPT !.kind = "absent"]
              [] p \in {1, 2} -> MCEntry(3, p = 2 /\ s = 1)
              [] p = 3 -> [MCEntry(IF s = 0 THEN 4 ELSE 5, FALSE) EXCEPT !.kind = IF s = 0 THEN @ ELSE "huge"]
              [] p = 4 -> MCEntry(IF s = 0 THEN 5 ELSE 3, FALSE)
              [] p = 5 -> MCEntry(IF s = 0 THEN 4 ELSE 6, s = 0)
              [] OTHER -> MCEntry(s, FALSE)]]
MCCr3 == [p \in {1, 2} |-> p]
MCTargetPlain == (1 :> [pid |-> 1, va |-> <<0, 0, 0, 0, 1>>]) @@ (2 :> [pid |-> 2, va |-> <<0, 0, 1, 0, 0>>])
MCTargetNX == (1 :> [pid |-> 1, va |-> <<1, 0, 0, 1, 0>>]) @@ (2 :> [pid |-> 2, va |-> <<1, 1, 1, 0, 1>>])
\* A walker beside a viewer, and two viewers.
MCTargetMixed == (1 :> [pid |-> 1, va |-> <<0, 0, 0, 0, 1>>]) @@ (2 :> [pid |-> 2, va |-> <<>>])
MCTargetView == (1 :> [pid |-> 1, va |-> <<>>]) @@ (2 :> [pid |-> 2, va |-> <<>>])
\* A huge page at the second level, and an entry that is not present.
MCTargetHuge == (1 :> [pid |-> 1, va |-> <<0, 1, 0, 0, 1>>]) @@ (2 :> [pid |-> 2, va |-> <<0, 0, 2, 1, 0>>])
MCTargets == {MCTargetPlain, MCTargetHuge, MCTargetNX, MCTargetMixed, MCTargetView}
MCPolicied == {2}
=============================================================================
