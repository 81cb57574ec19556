------------------------------ MODULE FileView ------------------------------
(***************************************************************************)
(* The hexadecimal viewer src/src/kernel/linux_memory/mm_addr/fileview.c   *)
(* on top of the device of dram.c, whose reads stop at the end of a page,  *)
(* or on a regular file.                                                   *)
(*                                                                         *)
(* The viewer shows BUFSIZE = 256 bytes in 16 lines.  Each turn of its main*)
(* loop brings pageincr back into bounds, seeks to position, fills the     *)
(* buffer with as many read() calls as it takes, and interprets one key.   *)
(***************************************************************************)
EXTENDS Dram

CONSTANTS
    IncMax,     \* incmax, 2^36 in the code
    Increments, \* the values that shifts by 4 bits reach from incmin to incmax
    SeekTo,     \* values that strtoull may return for a typed address
    MaxInput,   \* characters an address may have, 15
    DramSizes   \* the sizes of a dram device; the others are of regular files

BufWide == 16
BufSize == 256
IncMin  == 256
Blank   == -1                   \* the byte ~0 that erases the buffer

ASSUME FileViewAssumption ==
    /\ IncMax \in Nat /\ {IncMin, IncMax} \subseteq Increments
    /\ Increments \subseteq {p \in IncMin .. IncMax : p % 16 = 0}
    /\ \A p \in Increments : p = IncMin \/ p \div 16 \in Increments
    /\ \A p \in Increments : p = IncMax \/ p * 16 \in Increments
    /\ SeekTo \subseteq Int /\ MaxInput \in Nat
    /\ DramSizes \subseteq Sizes /\ \A s \in DramSizes : s % PageSize = 0

VARIABLES
    pc,         \* "draw", "read", "key", "address" or "done"
    position, location, pageincr, format,
    buffer,     \* what each byte of buffer[] holds: an address, or Blank
    got,        \* where - buffer, the bytes read so far in this turn
    failed,     \* whether a read of this turn failed
    typed       \* i, the characters of the address typed so far

view == <<position, pageincr, format>>
vars == <<size, fpos, pc, view, location, buffer, got, failed, typed>>

OnDram == size \in DramSizes

\* x & ~0xF on a two's complement number.
Align(x) == (x \div 16) * 16

\* Mutant: the last line starts one line too early.
PosMaxShort == LET p == Align(size - 257) IN IF p < 0 THEN 0 ELSE p

posmax == LET p == Align(size - 241) IN IF p < 0 THEN 0 ELSE p

Init ==
    /\ size \in Sizes /\ fpos = size       \* after lseek(fd, 0, SEEK_END)
    /\ pc = "draw"
    /\ position = 0 /\ location = 0 /\ pageincr = IncMin /\ format = 1
    /\ buffer = [j \in 0 .. BufSize-1 |-> Blank]
    /\ got = 0 /\ failed = FALSE /\ typed = 0

BoundIncr(p) ==
    IF p = 0 THEN IncMax ELSE IF p < IncMin THEN IncMin ELSE IF p > IncMax THEN IncMax ELSE p

\* Mutant: the buffer is not erased, and keeps the bytes of the last screen.
RedrawOver ==
    /\ pc = "draw"
    /\ pageincr' = BoundIncr(pageincr)
    /\ fpos' = position /\ location' = position
    /\ got' = 0 /\ failed' = FALSE /\ pc' = "read"
    /\ UNCHANGED <<size, position, format, buffer, typed>>

\* Lines 110-123.  An error of lseek is not looked at: location becomes -1 and
\* the reads go on from wherever the file's position was.
Redraw ==
    /\ pc = "draw"
    /\ pageincr' = BoundIncr(pageincr)
    /\ LET p == my_llseek(fpos, position, 0)
       IN  /\ fpos' = IF p < 0 THEN fpos ELSE p
           /\ location' = IF p < 0 THEN -1 ELSE p
    /\ buffer' = [j \in 0 .. BufSize-1 |-> Blank]
    /\ got' = 0 /\ failed' = FALSE /\ pc' = "read"
    /\ UNCHANGED <<size, position, format, typed>>

\* read() of a regular file.
RegularRead(pos, count) ==
    IF pos >= size THEN 0 ELSE IF size - pos < count THEN size - pos ELSE count

FileRead(pos, count) == IF OnDram THEN my_read(pos, count) ELSE RegularRead(pos, count)

\* Mutant: only an error ends the loop, the end of the file does not.
ReadChunkForever ==
    /\ pc = "read" /\ got < BufSize
    /\ LET n == FileRead(fpos, BufSize - got)
       IN  /\ fpos' = fpos + n /\ got' = got + n
           /\ pc' = IF got + n < BufSize THEN "read" ELSE "key"
    /\ UNCHANGED <<size, view, location, buffer, failed, typed>>

\* One turn of the loop of lines 124-130; n is what read() returns.
ReadChunk ==
    /\ pc = "read"
    /\ \E n \in {FileRead(fpos, BufSize - got), EFAULT} :
        /\ failed' = (n < 0)
        /\ IF n =< 0
           THEN pc' = "key" /\ UNCHANGED <<fpos, buffer, got>>
           ELSE /\ buffer' = [j \in 0 .. BufSize-1 |->
                                IF got =< j /\ j < got + n THEN fpos + (j - got) ELSE buffer[j]]
                /\ fpos' = fpos + n /\ got' = got + n
                /\ pc' = IF got + n < BufSize THEN "read" ELSE "key"
    /\ UNCHANGED <<size, view, location, typed>>

-----------------------------------------------------------------------------
(* Keys: lines 208-281.  The bounds of position are restored at the end.   *)

\* Mutant: only the upper bound is restored.
ClampHigh(p) == IF p > posmax THEN posmax ELSE p

Clamp(p) == IF p < 0 THEN 0 ELSE IF p > posmax THEN posmax ELSE p

MoveTo(p) ==
    /\ pc = "key" /\ pc' = "draw" /\ position' = Clamp(p)
    /\ UNCHANGED <<size, fpos, pageincr, format, location, buffer, got, failed, typed>>

Home     == MoveTo(0)
End      == MoveTo(posmax)
LineDown == MoveTo(position + BufWide)
LineUp   == MoveTo(position - BufWide)
PageDown == MoveTo(position + pageincr)
PageUp   == MoveTo(position - pageincr)

Resize(p) ==
    /\ pc = "key" /\ pc' = "draw" /\ pageincr' = p
    /\ UNCHANGED <<size, fpos, position, format, location, buffer, got, failed, typed>>

Right == Resize(pageincr \div 16)
Left  == Resize(pageincr * 16)

SetFormat(f) ==
    /\ pc = "key" /\ pc' = "draw" /\ format' = f
    /\ UNCHANGED <<size, fpos, position, pageincr, location, buffer, got, failed, typed>>

\* KB_SEEK: an address is typed character by character into inbuf[16].
SeekStart ==
    /\ pc = "key" /\ pc' = "address" /\ typed' = 0
    /\ UNCHANGED <<size, fpos, view, location, buffer, got, failed>>

SeekType ==
    /\ pc = "address" /\ typed < MaxInput
    /\ typed' = typed + 1
    /\ UNCHANGED <<size, fpos, pc, view, location, buffer, got, failed>>

SeekBack ==
    /\ pc = "address" /\ typed < MaxInput /\ typed > 0
    /\ typed' = typed - 1
    /\ UNCHANGED <<size, fpos, pc, view, location, buffer, got, failed>>

\* Enter, a full buffer, or ESC: ESC empties inbuf, and strtoull("") is 0.
SeekGo(v) ==
    /\ pc = "address" /\ pc' = "draw"
    /\ typed = 0 => v = 0
    /\ position' = Clamp(Align(v))
    /\ UNCHANGED <<size, fpos, pageincr, format, location, buffer, got, failed, typed>>

OtherKey ==
    /\ pc = "key" /\ pc' = "draw"
    /\ UNCHANGED <<size, fpos, view, location, buffer, got, failed, typed>>

Quit ==
    /\ pc = "key" /\ pc' = "done"
    /\ UNCHANGED <<size, fpos, view, location, buffer, got, failed, typed>>

Terminated == pc = "done" /\ UNCHANGED vars

Next ==
    \/ Redraw \/ ReadChunk
    \/ Home \/ End \/ LineDown \/ LineUp \/ PageDown \/ PageUp \/ Right \/ Left
    \/ \E f \in {1, 2, 4, 8, 16} : SetFormat(f)
    \/ SeekStart \/ SeekType \/ SeekBack \/ \E v \in SeekTo \cup {0} : SeekGo(v)
    \/ OtherKey \/ Quit \/ Terminated

Spec == Init /\ [][Next]_vars

\* The program runs until it waits for a key; nobody is obliged to press one.
FairSpec == Spec /\ WF_vars(Redraw) /\ WF_vars(ReadChunk)

-----------------------------------------------------------------------------
(* Properties *)

\* Whatever keys are pressed, the position stays in the file, on a line
\* boundary and at most one screen before the end, although pages of any size
\* and typed addresses move it; pageincr is in bounds when it is used, and an
\* address, typed and corrected, stays within inbuf[] with its final 0.
PositionInBounds ==
    /\ position \in 0 .. posmax /\ position % 16 = 0
    /\ pc # "draw" => pageincr \in Increments
    /\ typed \in 0 .. MaxInput

\* What is on the screen when a key is awaited is the file at the address
\* printed next to it: no byte is wrong, also when the reads were short or one
\* failed, and none that exists is missing unless a read has failed.
ScreenFaithful ==
    pc = "key" =>
        /\ location = position
        /\ \A j \in 0 .. BufSize-1 :
            \/ buffer[j] = position + j /\ position + j < size
            \/ buffer[j] = Blank /\ (failed \/ position + j >= size)

\* The last screen (END, or any move past it) shows the last byte of the file,
\* also when the size is no multiple of 16 or is less than a screen.
LastByteShown ==
    pc = "key" /\ position = posmax /\ size > 0 /\ ~failed =>
        \E j \in 0 .. BufSize-1 : buffer[j] = size - 1

\* The viewer implements the abstract one: whatever the reads return and in how
\* many pieces, what the user sees is one step from a key to the next screen.
Drawn == pc \in {"key", "address", "done"}
Promise == INSTANCE Viewer WITH
    Line <- BufWide, Screen <- BufSize, top <- position, drawn <- Drawn,
    at <- IF Drawn THEN location ELSE 0,
    bytes <- IF Drawn THEN buffer ELSE [j \in 0 .. BufSize-1 |-> Blank],
    failed <- Drawn /\ failed
ImplementsViewer == Promise!Spec

\* Every turn of the main loop gets to the point where it reads the next key.
AwaitsKey == pc = "draw" ~> pc = "key"

=============================================================================
