------------------------------ MODULE MCZPage ------------------------------
(* An instance of ZPage for TLC: a task of three pages of two bytes.  There  *)
(* are no tables for the first, the second, with its data and its arguments, *)
(* is in memory, and the third is not.                                       *)
EXTENDS ZPage, TLC

MCTables  == [t \in Tasks |-> {1, 2}]
MCPresent == [t \in Tasks |-> {1}]
\* One byte is a zero, which ends a text but not data.
MCMem  == [t \in Tasks |-> [a \in 0 .. 3 * PAGE_SIZE - 1 |-> IF a = 3 THEN Nul ELSE <<"byte", a>>]]
MCErrorWords == {<<<<"byte", 2>>, Nul>>}
MCData == [t \in Tasks |-> [from |-> 2, to |-> 4]]
MCArgs == [t \in Tasks |-> [from |-> 2, to |-> 3]]
Symmetry == Permutations(Users)
=============================================================================
