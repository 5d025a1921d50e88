--------------------------- MODULE MCAsynchFileIO ---------------------------
(* Two workers serve requests of two handles.                              *)
EXTENDS AsynchFileIO

CONSTANTS h1, h2

Post(h, fp, ip, off) == [handle |-> h, fd_prio |-> fp, io_prio |-> ip, offset |-> off]

\* Three kinds of requests that queue on one handle (two of one priority with
\* different offsets, one more urgent) and one of a more urgent handle.
FourKinds == {Post(h1, 1, 1, 2), Post(h1, 1, 1, 1), Post(h1, 1, 2, 1), Post(h2, 2, 1, 1)}
=============================================================================
