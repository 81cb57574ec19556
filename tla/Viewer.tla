------------------------------- MODULE Viewer -------------------------------
(***************************************************************************)
(* What a viewer of a file promises, without how it reads the file: a      *)
(* window that keys move over the lines of the file, and a screen that     *)
(* shows all of the window, or its beginning if the file cannot be read.   *)
(* FileView (fileview.c) implements it.                                    *)
(***************************************************************************)
EXTENDS Integers

CONSTANTS
    Sizes,      \* sizes of files
    Line,       \* bytes in a line
    Screen,     \* bytes on the screen
    Blank       \* what is shown where there is no byte

VARIABLES
    size,
    top,        \* the address of the window
    drawn,      \* whether the screen shows it
    at, bytes,  \* the address and the bytes shown
    failed      \* whether the file could not be read

vars == <<size, top, drawn, at, bytes, failed>>

Erased == [j \in 0 .. Screen-1 |-> Blank]

\* Where the window may be: on a line, and if the file is longer than a screen
\* no more than the rest of its last line is past the end.
Tops == {t \in 0 .. size : t % Line = 0 /\ (t = 0 \/ t + Screen < size + Line)}

\* The first n bytes of the window at t.
Window(t, n) == [j \in 0 .. Screen-1 |-> IF j < n /\ t + j < size THEN t + j ELSE Blank]

Init ==
    /\ size \in Sizes /\ top = 0
    /\ drawn = FALSE /\ at = 0 /\ bytes = Erased /\ failed = FALSE

Draw ==
    /\ ~drawn /\ drawn' = TRUE /\ at' = top
    /\ \/ bytes' = Window(top, Screen) /\ failed' = FALSE
       \/ (\E n \in 0 .. Screen-1 : bytes' = Window(top, n)) /\ failed' = TRUE
    /\ UNCHANGED <<size, top>>

Key ==
    /\ drawn /\ drawn' = FALSE /\ at' = 0 /\ bytes' = Erased /\ failed' = FALSE
    /\ top' \in Tops
    /\ UNCHANGED size

Next == Draw \/ Key

Spec == Init /\ [][Next]_vars
=============================================================================
