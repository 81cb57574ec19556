----------------------------- MODULE MCFileView -----------------------------
(* An instance of FileView for TLC. *)
EXTENDS FileView

\* A device of one or two pages, with a page of two screens.
MCDramSizes == {512, 1024}
\* Files around the sizes at which the viewer's arithmetic changes.
MCSizes == MCDramSizes \cup {0, 1, 16, 240, 241, 242, 256, 257, 272, 530}
\* "-1" is a large unsigned number, read back as a negative position.
MCSeekTo == {-1, 17, 300, 4095}
MCIncrements == {256, 4096}
=============================================================================
