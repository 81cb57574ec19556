-------------------------------- MODULE Dram --------------------------------
(***************************************************************************)
(* The character device of physical memory,                                *)
(* src/src/kernel/linux_memory/mm_addr/dram.c.                             *)
(*                                                                         *)
(* Every open file has its own position f_pos; dram_size is set once, when *)
(* the module is loaded.  Files do not interact, so one file (fpos) is the *)
(* state, and size is the dram_size of the machine.  The byte at address a *)
(* is represented by a itself.                                             *)
(***************************************************************************)
EXTENDS Integers

CONSTANTS
    PageSize,   \* PAGE_SIZE
    Sizes       \* the memory sizes considered

ASSUME DramAssumption == PageSize \in Nat \ {0} /\ Sizes \subseteq Nat

VARIABLES size, fpos

EINVAL == -22
EFAULT == -14

\* Mutant: a page is never crossed, the rest of the request is lost.
my_read_whole(pos, count) ==
    IF pos >= size \/ (pos % PageSize) + count > PageSize THEN 0 ELSE count

\* my_read: how many bytes one call returns when nothing fails.  It stops at
\* the end of the page that holds the position.
my_read(pos, count) ==
    IF pos >= size THEN 0
    ELSE LET page_indent == pos % PageSize
         IN  IF page_indent + count > PageSize THEN PageSize - page_indent ELSE count

\* my_llseek: the new position, or the error that leaves f_pos alone.
my_llseek(pos, offset, whence) ==
    LET newpos == CASE whence = 0 -> offset
                    [] whence = 1 -> pos + offset
                    [] whence = 2 -> size + offset
                    [] OTHER      -> -1
    IN  IF newpos < 0 \/ newpos > size THEN EINVAL ELSE newpos

=============================================================================
