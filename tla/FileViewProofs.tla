--------------------------- MODULE FileViewProofs ---------------------------
(***************************************************************************)
(* Proofs about FileView for every file size, every page size, every upper *)
(* bound of the increment and every sequence of keys and typed addresses.  *)
(***************************************************************************)
EXTENDS FileView, TLAPS

LEMMA AlignFacts ==
    ASSUME NEW x \in Int
    PROVE  Align(x) \in Int /\ Align(x) % 16 = 0 /\ Align(x) =< x /\ x - 15 =< Align(x)
  BY SMT DEF Align

LEMMA PosmaxFacts ==
    ASSUME size \in Nat
    PROVE  /\ posmax \in Nat /\ posmax % 16 = 0 /\ posmax =< size
           /\ size =< posmax + BufSize /\ (size > 0 => posmax < size)
<1>1. size - 241 \in Int
  OBVIOUS
<1>2. /\ Align(size - 241) \in Int /\ Align(size - 241) % 16 = 0
      /\ Align(size - 241) =< size - 241 /\ size - 256 =< Align(size - 241)
  BY <1>1, AlignFacts
<1> QED BY <1>2 DEF posmax, BufSize

LEMMA ClampFacts ==
    ASSUME size \in Nat, NEW p \in Int
    PROVE  Clamp(p) \in 0 .. posmax /\ (p % 16 = 0 => Clamp(p) % 16 = 0)
<1>1. posmax \in Nat /\ posmax % 16 = 0
  BY PosmaxFacts
<1>2. CASE p < 0
  BY <1>1, <1>2 DEF Clamp
<1>3. CASE p >= 0 /\ p > posmax
  BY <1>1, <1>3 DEF Clamp
<1>4. CASE p >= 0 /\ ~(p > posmax)
  BY <1>1, <1>4 DEF Clamp
<1> QED BY <1>2, <1>3, <1>4

LEMMA IncrementsType == \A p \in Increments : p \in Nat /\ p % 16 = 0
  BY FileViewAssumption DEF IncMin

\* pageincr leaves Increments only by one shift, and Redraw undoes that.
Shifted == Increments \cup {IncMin \div 16, IncMax * 16}

LEMMA BoundIncrFacts ==
    ASSUME NEW p \in Shifted
    PROVE  BoundIncr(p) \in Increments
<1>1. CASE p \in Increments
  BY <1>1, FileViewAssumption DEF BoundIncr, IncMin
<1>2. CASE p = IncMin \div 16
  BY <1>2, FileViewAssumption DEF BoundIncr, IncMin
<1>3. CASE p = IncMax * 16
  BY <1>3, FileViewAssumption DEF BoundIncr, IncMin
<1> QED BY <1>1, <1>2, <1>3 DEF Shifted

PosInv ==
    /\ size \in Nat /\ pc \in {"draw", "read", "key", "address", "done"}
    /\ position \in Int /\ pageincr \in Shifted
    /\ PositionInBounds

LEMMA TypedStep == typed \in 0 .. MaxInput /\ [Next]_vars => typed' \in 0 .. MaxInput
  BY FileViewAssumption DEF Next, vars, view, Terminated, Redraw, ReadChunk, Home, End, LineDown,
     LineUp, PageDown, PageUp, MoveTo, Right, Left, Resize, SetFormat, SeekStart, SeekType,
     SeekBack, SeekGo, OtherKey, Quit

LEMMA PosStep == PosInv /\ [Next]_vars => PosInv'
<1> SUFFICES ASSUME PosInv, [Next]_vars PROVE PosInv'
  OBVIOUS
<1> USE FileViewAssumption DEF PosInv, PositionInBounds
<1>0. (size' = size => posmax' = posmax) /\ typed' \in 0 .. MaxInput
  BY TypedStep DEF posmax
<1>1. CASE Redraw
  <2>1. pageincr' \in Increments
    BY <1>1, BoundIncrFacts DEF Redraw
  <2>2. position' = position /\ size' = size /\ pc' = "read"
    BY <1>1 DEF Redraw
  <2> QED BY <1>0, <2>1, <2>2 DEF Shifted
<1>2. CASE ReadChunk
  BY <1>0, <1>2 DEF ReadChunk, view
<1>3. ASSUME NEW p \in Int, p % 16 = 0, MoveTo(p) PROVE PosInv'
  <2>1. position' = Clamp(p) /\ size' = size /\ pageincr' = pageincr /\ pc' = "draw"
    BY <1>3 DEF MoveTo
  <2>2. Clamp(p) \in 0 .. posmax /\ Clamp(p) % 16 = 0 /\ posmax \in Nat
    BY <1>3, ClampFacts, PosmaxFacts
  <2> QED BY <1>0, <2>1, <2>2
<1>4. CASE Home \/ End
  BY <1>3, <1>4, PosmaxFacts DEF Home, End
<1>5. CASE LineDown \/ LineUp
  <2>1. position + BufWide \in Int /\ (position + BufWide) % 16 = 0
    BY DEF BufWide
  <2>2. position - BufWide \in Int /\ (position - BufWide) % 16 = 0
    BY DEF BufWide
  <2> QED BY <1>3, <1>5, <2>1, <2>2 DEF LineDown, LineUp
<1>6. CASE PageDown \/ PageUp
  <2>0. pageincr \in Int /\ pageincr % 16 = 0
    <3>1. pageincr \in Increments
      BY <1>6 DEF PageDown, PageUp, MoveTo
    <3> QED BY <3>1, IncrementsType
  <2>1. position + pageincr \in Int /\ (position + pageincr) % 16 = 0
    BY <2>0
  <2>2. position - pageincr \in Int /\ (position - pageincr) % 16 = 0
    BY <2>0
  <2> QED BY <1>3, <1>6, <2>1, <2>2 DEF PageDown, PageUp
<1>7. CASE Right \/ Left
  <2>1. pc = "key" /\ pc' = "draw" /\ position' = position /\ size' = size
    BY <1>7 DEF Right, Left, Resize
  <2>2. pageincr' \in Shifted
    BY <1>7, <2>1 DEF Right, Left, Resize, Shifted
  <2> QED BY <1>0, <2>1, <2>2
<1>8. ASSUME NEW f, SetFormat(f) PROVE PosInv'
  BY <1>0, <1>8 DEF SetFormat, IncMin
<1>9. CASE SeekStart \/ SeekType \/ SeekBack
  BY <1>0, <1>9 DEF SeekStart, SeekType, SeekBack, view
<1>10. ASSUME NEW v \in SeekTo \cup {0}, SeekGo(v) PROVE PosInv'
  <2>1. Align(v) \in Int /\ Align(v) % 16 = 0
    BY AlignFacts
  <2> QED BY <1>0, <1>10, <2>1, ClampFacts DEF SeekGo, IncMin
<1>11. CASE OtherKey \/ Quit
  BY <1>0, <1>11 DEF OtherKey, Quit, view
<1>12. CASE UNCHANGED vars
  BY <1>0, <1>12 DEF vars, view
<1> QED BY <1>1, <1>2, <1>4, <1>5, <1>6, <1>7, <1>8, <1>9, <1>10, <1>11, <1>12
        DEF Next, Terminated

LEMMA PosInit == Init => PosInv
<1> SUFFICES ASSUME Init PROVE PosInv
  OBVIOUS
<1>1. size \in Nat
  BY DramAssumption DEF Init
<1> QED BY <1>1, PosmaxFacts, FileViewAssumption DEF Init, PosInv, PositionInBounds, Shifted

\* The position is always a line of the file and within its last screen.
THEOREM PositionInBoundsHolds == Spec => []PositionInBounds
<1>1. PosInv => PositionInBounds
  BY DEF PosInv
<1> QED BY <1>1, PosInit, PosStep, PTL DEF Spec

-----------------------------------------------------------------------------
(***************************************************************************)
(* ScreenFaithful: while the buffer is being filled, its first `got' bytes *)
(* are the file from position on, the others are blank, and the file's     *)
(* position is where the next byte comes from.                             *)
(***************************************************************************)
Filled ==
    /\ location = position /\ fpos = position + got
    /\ fpos =< size
    /\ \A j \in 0 .. BufSize-1 :
        IF j < got THEN buffer[j] = position + j ELSE buffer[j] = Blank

FillInv ==
    /\ size \in Sizes /\ fpos \in Nat /\ got \in 0 .. BufSize
    /\ pc = "read" => Filled /\ got < BufSize
    /\ pc = "key"  => Filled /\ (got = BufSize \/ fpos >= size \/ failed)

\* A device's size is a whole number of pages, so that a read that stops at
\* the end of a page never passes the end of memory.
LEMMA PageEnd ==
    ASSUME NEW s \in Nat, NEW pos \in Nat, NEW P \in Nat \ {0}, s % P = 0, pos < s
    PROVE  pos - (pos % P) + P =< s /\ pos % P \in 0 .. P-1
<1> DEFINE q == pos \div P  r == pos % P  k == s \div P
<1>1. q \in Nat /\ r \in 0 .. P-1 /\ k \in Nat
  BY SMT
<1>2. pos = P * q + r /\ s = P * k
  BY SMT
<1>3. P * q < P * k
  BY <1>1, <1>2, SMT
<1>4. q < k
  BY <1>1, <1>3, SMT
<1>5. P * (q + 1) =< P * k
  BY <1>1, <1>4, SMT
<1>6. P * (q + 1) = P * q + P
  BY <1>1, SMT
<1> QED BY <1>1, <1>2, <1>5, <1>6

LEMMA ReadFacts ==
    ASSUME size \in Sizes, fpos \in Nat, fpos =< size, NEW count \in Nat \ {0}
    PROVE  /\ FileRead(fpos, count) \in 0 .. count
           /\ fpos + FileRead(fpos, count) =< size
           /\ FileRead(fpos, count) = 0 <=> fpos >= size
<1> USE DramAssumption, FileViewAssumption
<1>1. CASE ~OnDram
  BY <1>1 DEF FileRead, RegularRead
<1>2. CASE OnDram /\ fpos >= size
  BY <1>2 DEF FileRead, my_read
<1>3. CASE OnDram /\ fpos < size
  <2>1. fpos - (fpos % PageSize) + PageSize =< size /\ fpos % PageSize \in 0 .. PageSize-1
    <3>1. size % PageSize = 0 /\ size \in Nat /\ PageSize \in Nat \ {0}
      BY <1>3 DEF OnDram
    <3> HIDE FileViewAssumption
    <3> QED BY <1>3, <3>1, PageEnd
  <2>2. FileRead(fpos, count) = IF (fpos % PageSize) + count > PageSize
                                THEN PageSize - (fpos % PageSize) ELSE count
    BY <1>3 DEF FileRead, my_read
  <2> HIDE FileViewAssumption
  <2> QED BY <1>3, <2>1, <2>2
<1> QED BY <1>1, <1>2, <1>3

LEMMA FillStep == PosInv /\ FillInv /\ [Next]_vars => FillInv'
<1> SUFFICES ASSUME PosInv, FillInv, [Next]_vars PROVE FillInv'
  OBVIOUS
<1>0. size \in Nat /\ position \in Nat /\ position =< size
  BY PosmaxFacts DEF PosInv, PositionInBounds
<1>1. CASE Redraw
  <2>1. my_llseek(fpos, position, 0) = position
    BY <1>0 DEF my_llseek
  <2>2. /\ fpos' = position /\ location' = position /\ position' = position /\ size' = size
        /\ got' = 0 /\ pc' = "read" /\ buffer' = [j \in 0 .. BufSize-1 |-> Blank]
    BY <1>0, <1>1, <2>1 DEF Redraw
  <2>3. Filled' /\ got' < BufSize
    BY <1>0, <2>2 DEF Filled, BufSize
  <2> QED BY <1>0, <2>2, <2>3 DEF FillInv, BufSize
<1>2. CASE ReadChunk
  <2>1. /\ pc = "read" /\ UNCHANGED <<size, position, location>>
        /\ Filled /\ got \in 0 .. BufSize-1 /\ fpos \in Nat
    BY <1>2 DEF ReadChunk, FillInv, view, BufSize
  <2> DEFINE m == FileRead(fpos, BufSize - got)
  <2>2. m \in 0 .. BufSize - got /\ fpos + m =< size /\ (m = 0 <=> fpos >= size)
    BY <2>1, ReadFacts DEF FillInv, Filled, BufSize
  <2> HIDE DEF m
  <2>3. CASE m > 0 /\ fpos' = fpos + m /\ got' = got + m
             /\ pc' = (IF got + m < BufSize THEN "read" ELSE "key")
             /\ buffer' = [j \in 0 .. BufSize-1 |->
                             IF got =< j /\ j < got + m THEN fpos + (j - got) ELSE buffer[j]]
    <3>1. Filled'
      BY <1>0, <2>1, <2>2, <2>3 DEF Filled, BufSize
    <3>2. got' \in 0 .. BufSize /\ fpos' \in Nat
      BY <2>1, <2>2, <2>3 DEF BufSize
    <3>3. pc' = "read" => got' < BufSize
      BY <2>3
    <3>4. pc' = "key" => got' = BufSize
      BY <2>1, <2>2, <2>3 DEF BufSize
    <3>5. size' \in Sizes
      BY <2>1 DEF FillInv
    <3> QED BY <3>1, <3>2, <3>3, <3>4, <3>5 DEF FillInv
  <2>4. CASE pc' = "key" /\ UNCHANGED <<fpos, buffer, got>> /\ (m = 0 \/ failed')
    <3>1. Filled'
      BY <2>1, <2>4 DEF Filled
    <3> QED BY <2>1, <2>2, <2>4, <3>1 DEF FillInv, BufSize
  <2>5. PICK n \in {m, EFAULT} :
          /\ failed' = (n < 0)
          /\ IF n =< 0
             THEN pc' = "key" /\ UNCHANGED <<fpos, buffer, got>>
             ELSE /\ buffer' = [j \in 0 .. BufSize-1 |->
                                  IF got =< j /\ j < got + n THEN fpos + (j - got) ELSE buffer[j]]
                  /\ fpos' = fpos + n /\ got' = got + n
                  /\ pc' = IF got + n < BufSize THEN "read" ELSE "key"
    BY <1>2 DEF ReadChunk, m
  <2>6. CASE n = m /\ m > 0
    BY <2>3, <2>5, <2>6, <2>2
  <2>7. CASE n = m /\ m = 0
    BY <2>4, <2>5, <2>7
  <2>8. CASE n = EFAULT
    <3>1. n < 0 /\ n =< 0
      BY <2>8 DEF EFAULT
    <3>2. failed'
      BY <2>5, <3>1, Zenon
    <3>3. pc' = "key" /\ UNCHANGED <<fpos, buffer, got>>
      BY <2>5, <3>1
    <3> QED BY <2>4, <3>2, <3>3
  <2> QED BY <2>2, <2>5, <2>6, <2>7, <2>8 DEF BufSize
<1>3. ASSUME UNCHANGED <<size, fpos, got>>, pc' \notin {"read", "key"} PROVE FillInv'
  BY <1>3 DEF FillInv
<1>4. ASSUME NEW p, MoveTo(p) PROVE FillInv'
  BY <1>3, <1>4 DEF MoveTo
<1>5. ASSUME NEW p, Resize(p) PROVE FillInv'
  BY <1>3, <1>5 DEF Resize
<1>6. ASSUME NEW f, SetFormat(f) PROVE FillInv'
  BY <1>3, <1>6 DEF SetFormat
<1>7. ASSUME NEW v, SeekGo(v) PROVE FillInv'
  BY <1>3, <1>7 DEF SeekGo
<1>8. CASE SeekStart \/ SeekType \/ SeekBack \/ OtherKey \/ Quit
  BY <1>3, <1>8 DEF SeekStart, SeekType, SeekBack, OtherKey, Quit
<1>9. CASE UNCHANGED vars
  BY <1>9 DEF vars, view, FillInv, Filled
<1> QED BY <1>1, <1>2, <1>4, <1>5, <1>6, <1>7, <1>8, <1>9
        DEF Next, Terminated, Home, End, LineDown, LineUp, PageDown, PageUp, Right, Left

LEMMA ViewInvariant == Spec => [](PosInv /\ FillInv)
<1>1. Init => FillInv
  BY DramAssumption DEF Init, FillInv, BufSize
<1> QED BY <1>1, PosInit, PosStep, FillStep, PTL DEF Spec

\* The screen shows the file at the printed address, on the device and on a
\* regular file of any size, with short and with failing reads.
THEOREM ScreenFaithfulHolds == Spec => []ScreenFaithful
<1>1. PosInv /\ FillInv => ScreenFaithful
  <2> SUFFICES ASSUME PosInv, FillInv, pc = "key" PROVE ScreenFaithful
    BY DEF ScreenFaithful
  <2>1. position \in Nat /\ size \in Nat
    BY PosmaxFacts DEF PosInv, PositionInBounds
  <2>2. Filled /\ got \in 0 .. BufSize /\ (got = BufSize \/ fpos >= size \/ failed)
    BY DEF FillInv
  <2>3. ASSUME NEW j \in 0 .. BufSize-1
        PROVE  \/ buffer[j] = position + j /\ position + j < size
               \/ buffer[j] = Blank /\ (failed \/ position + j >= size)
    <3>1. j \in Nat /\ got \in Nat /\ fpos = position + got /\ fpos =< size
      BY <2>2, <2>3 DEF Filled, BufSize
    <3>2. CASE j < got
      <4>1. buffer[j] = position + j
        BY <2>2, <2>3, <3>2 DEF Filled
      <4>2. position + j < size
        BY <2>1, <3>1, <3>2
      <4> QED BY <4>1, <4>2
    <3>3. CASE ~(j < got)
      <4>1. buffer[j] = Blank
        BY <2>2, <2>3, <3>3 DEF Filled
      <4>2. got # BufSize
        BY <2>3, <3>3 DEF BufSize
      <4>3. fpos >= size => position + j >= size
        BY <2>1, <3>1, <3>3
      <4> QED BY <2>2, <4>1, <4>2, <4>3
    <3> QED BY <3>2, <3>3
  <2> QED BY <2>2, <2>3 DEF ScreenFaithful, Filled
<1> QED BY <1>1, ViewInvariant, PTL

\* The last screen shows the last byte, whatever the size of the file.
THEOREM LastByteShownHolds == Spec => []LastByteShown
<1>1. PosInv /\ FillInv => LastByteShown
  <2> SUFFICES ASSUME PosInv, FillInv, pc = "key", position = posmax, size > 0, ~failed
               PROVE  \E j \in 0 .. BufSize-1 : buffer[j] = size - 1
    BY DEF LastByteShown
  <2> DEFINE j == size - 1 - position
  <2>1. size \in Nat /\ position \in Nat /\ position < size /\ size =< position + BufSize
    BY PosmaxFacts DEF PosInv
  <2>2. j \in 0 .. BufSize-1
    BY <2>1 DEF BufSize
  <2>3. Filled /\ got \in 0 .. BufSize /\ (got = BufSize \/ fpos >= size)
    BY DEF FillInv
  <2>4. j < got
    BY <2>1, <2>2, <2>3 DEF Filled, BufSize
  <2>5. buffer[j] = size - 1
    BY <2>1, <2>2, <2>3, <2>4 DEF Filled
  <2> QED BY <2>2, <2>5
<1> QED BY <1>1, ViewInvariant, PTL

-----------------------------------------------------------------------------
(***************************************************************************)
(* FileView implements Viewer.  A key is an abstract Key step, the read    *)
(* that ends the filling of the buffer is the abstract Draw step, and all  *)
(* other steps leave what the user sees unchanged.                         *)
(***************************************************************************)
Bytes == 0 .. BufSize-1
FuncInv == buffer = [j \in Bytes |-> buffer[j]] /\ failed \in BOOLEAN

ViewInv == PosInv /\ FillInv /\ FuncInv

LEMMA FuncStep == FuncInv /\ [Next]_vars => FuncInv'
<1> SUFFICES ASSUME FuncInv, [Next]_vars PROVE FuncInv'
  OBVIOUS
<1>1. CASE Redraw
  BY <1>1 DEF Redraw, FuncInv, Bytes
<1>2. CASE ReadChunk
  <2>1. failed' \in BOOLEAN
    <3>1. PICK n : failed' = (n < 0)
      BY <1>2 DEF ReadChunk
    <3>2. (n < 0) \in BOOLEAN
      OBVIOUS
    <3> QED BY <3>1, <3>2
  <2>2. PICK n : IF n =< 0 THEN buffer' = buffer
                 ELSE buffer' = [j \in Bytes |->
                        IF got =< j /\ j < got + n THEN fpos + (j - got) ELSE buffer[j]]
    BY <1>2 DEF ReadChunk, Bytes
  <2> QED BY <2>1, <2>2 DEF FuncInv
<1>3. CASE UNCHANGED <<buffer, failed>>
  BY <1>3 DEF FuncInv
<1> QED BY <1>1, <1>2, <1>3 DEF Next, vars, Terminated, Home, End, LineDown, LineUp, PageDown,
        PageUp, MoveTo, Right, Left, Resize, SetFormat, SeekStart, SeekType, SeekBack, SeekGo,
        OtherKey, Quit

LEMMA TopsFacts == PosInv => position \in Promise!Tops
<1> SUFFICES ASSUME PosInv PROVE position \in Promise!Tops
  OBVIOUS
<1>1. size \in Nat /\ position \in 0 .. posmax /\ position % 16 = 0
  BY DEF PosInv, PositionInBounds
<1>2. posmax \in Nat /\ posmax =< size
  BY <1>1, PosmaxFacts
<1>3. posmax = 0 \/ posmax =< size - 241
  <2>1. size - 241 \in Int
    BY <1>1
  <2>2. Align(size - 241) \in Int /\ Align(size - 241) =< size - 241
    BY <2>1, AlignFacts
  <2> QED BY <1>1, <2>2 DEF posmax
<1> QED BY <1>1, <1>2, <1>3 DEF Promise!Tops, BufWide, BufSize

\* The filled buffer is the window, or its first got bytes after a failure.
LEMMA FilledWindow ==
    ViewInv /\ pc = "key" =>
        /\ location = position
        /\ ~failed => buffer = Promise!Window(position, BufSize)
        /\ got < BufSize => buffer = Promise!Window(position, got)
<1> SUFFICES ASSUME ViewInv, pc = "key"
             PROVE  /\ location = position
                    /\ ~failed => buffer = Promise!Window(position, BufSize)
                    /\ got < BufSize => buffer = Promise!Window(position, got)
  OBVIOUS
<1>1. /\ position \in Nat /\ size \in Nat /\ got \in 0 .. BufSize
      /\ Filled /\ (got = BufSize \/ fpos >= size \/ failed)
  BY PosmaxFacts DEF ViewInv, PosInv, FillInv, PositionInBounds
<1>2. ASSUME NEW m \in 0 .. BufSize, m = got \/ (m = BufSize /\ ~failed)
      PROVE  buffer = Promise!Window(position, m)
  <2>1. ASSUME NEW j \in Bytes
        PROVE  buffer[j] = IF j < m /\ position + j < size THEN position + j ELSE Blank
    <3>1. j \in Nat /\ j < BufSize /\ (IF j < got THEN buffer[j] = position + j ELSE buffer[j] = Blank)
      BY <1>1 DEF Filled, Bytes, BufSize
    <3>2. j < got => position + j < size /\ j < m
      BY <1>1, <1>2, <3>1 DEF Filled, BufSize
    <3>3. ~(j < got) => ~(j < m) \/ ~(position + j < size)
      BY <1>1, <1>2, <3>1 DEF Filled, BufSize
    <3> QED BY <3>1, <3>2, <3>3
  <2> QED BY <2>1 DEF ViewInv, FuncInv, Promise!Window, Bytes
<1> QED BY <1>1, <1>2 DEF Filled, BufSize

LEMMA DrawStep ==
    ASSUME ViewInv, ViewInv', ReadChunk, pc' = "key"
    PROVE  Promise!Draw
<1>1. /\ ~Drawn /\ Drawn' /\ UNCHANGED <<size, position, location>>
      /\ pc = "read"
  BY DEF ReadChunk, Drawn, view
<1>2. /\ location' = position'
      /\ ~failed' => buffer' = Promise!Window(position, BufSize)
      /\ got' < BufSize => buffer' = Promise!Window(position, got')
  <2>1. (/\ location = position
         /\ ~failed => buffer = Promise!Window(position, BufSize)
         /\ got < BufSize => buffer = Promise!Window(position, got))'
    <3>1. (ViewInv /\ pc = "key")'
      OBVIOUS
    <3> QED BY <3>1, FilledWindow, PTL
  <2> QED BY <1>1, <2>1 DEF Promise!Window
<1>3. got' \in 0 .. BufSize-1 \/ ~failed'
  <2>1. got \in 0 .. BufSize-1
    BY <1>1 DEF ViewInv, FillInv, BufSize
  <2>2. PICK n : failed' = (n < 0) /\ (n =< 0 => got' = got)
             /\ n \in {FileRead(fpos, BufSize - got), EFAULT}
    BY DEF ReadChunk
  <2>3. CASE n = EFAULT
    BY <2>1, <2>2, <2>3 DEF EFAULT
  <2>4. CASE n = FileRead(fpos, BufSize - got)
    <3>1. n \in 0 .. BufSize - got
      BY <1>1, <2>1, <2>4, ReadFacts DEF ViewInv, FillInv, Filled, BufSize
    <3>2. ~(n < 0)
      BY <2>1, <3>1 DEF BufSize
    <3> QED BY <2>2, <3>2, Zenon
  <2> QED BY <2>2, <2>3, <2>4
<1>4. failed' \in BOOLEAN
  BY DEF ViewInv, FuncInv
<1>5. CASE ~failed'
  <2>1. (Drawn /\ failed)' = FALSE
    BY <1>5
  <2> QED BY <1>1, <1>2, <1>5, <2>1 DEF Promise!Draw
<1>6. CASE failed'
  <2>1. (Drawn /\ failed)' = TRUE
    BY <1>1, <1>4, <1>6
  <2>2. got' \in 0 .. BufSize-1 /\ got' < BufSize
    BY <1>3, <1>6 DEF BufSize
  <2>3. buffer' = Promise!Window(position, got')
    BY <1>2, <2>2
  <2>4. \E n \in 0 .. BufSize-1 : buffer' = Promise!Window(position, n)
    BY <2>2, <2>3
  <2> QED BY <1>1, <1>2, <2>1, <2>4 DEF Promise!Draw
<1> QED BY <1>5, <1>6

LEMMA ViewerStep == ViewInv /\ ViewInv' /\ [Next]_vars => [Promise!Next]_(Promise!vars)
<1> SUFFICES ASSUME ViewInv, ViewInv', [Next]_vars
             PROVE  Promise!Next \/ UNCHANGED Promise!vars
  OBVIOUS
<1> USE DEF Promise!vars, Drawn
<1>1. CASE Redraw
  BY <1>1 DEF Redraw
<1>2. CASE ReadChunk /\ pc' = "key"
  BY <1>2, DrawStep DEF Promise!Next
<1>3. CASE ReadChunk /\ pc' # "key"
  BY <1>3 DEF ReadChunk, view
<1>4. ASSUME pc \in {"key", "address"}, pc' = "draw", size' = size PROVE Promise!Key
  <2>1. (position \in Promise!Tops)'
    BY TopsFacts, PTL DEF ViewInv
  <2>2. position' \in Promise!Tops
    BY <1>4, <2>1 DEF Promise!Tops
  <2> QED BY <1>4, <2>2 DEF Promise!Key, Promise!Erased
<1>5. ASSUME NEW p, MoveTo(p) PROVE Promise!Key
  BY <1>4, <1>5 DEF MoveTo
<1>6. ASSUME NEW p, Resize(p) PROVE Promise!Key
  BY <1>4, <1>6 DEF Resize
<1>7. ASSUME NEW f, SetFormat(f) PROVE Promise!Key
  BY <1>4, <1>7 DEF SetFormat
<1>8. ASSUME NEW v, SeekGo(v) PROVE Promise!Key
  BY <1>4, <1>8 DEF SeekGo
<1>9. CASE OtherKey
  BY <1>4, <1>9 DEF OtherKey, Promise!Next
<1>10. CASE SeekStart \/ SeekType \/ SeekBack \/ Quit
  BY <1>10 DEF SeekStart, SeekType, SeekBack, Quit, view
<1>11. CASE UNCHANGED vars
  BY <1>11 DEF vars, view
<1> QED BY <1>1, <1>2, <1>3, <1>5, <1>6, <1>7, <1>8, <1>9, <1>10, <1>11
        DEF Next, Terminated, Home, End, LineDown, LineUp, PageDown, PageUp, Right, Left,
            Promise!Next

\* Whatever the size of the file, of the device's pages and of the reads, and
\* whichever reads fail, fileview.c behaves as the abstract viewer.
THEOREM FileViewImplementsViewer == Spec => ImplementsViewer
<1>1. Init => Promise!Init
  BY DEF Init, Promise!Init, Promise!Erased, Drawn
<1>2. Init => FuncInv
  BY DEF Init, FuncInv, Bytes
<1>3. Spec => []ViewInv
  BY <1>2, ViewInvariant, FuncStep, PTL DEF Spec, ViewInv
<1> QED BY <1>1, <1>3, ViewerStep, PTL DEF Spec, ImplementsViewer, Promise!Spec

=============================================================================
