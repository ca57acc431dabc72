------------------------------- MODULE Stream -------------------------------
(***************************************************************************)
(* What a TCP connection promises to the applications at its ends, for one *)
(* direction: the bytes delivered are the bytes written, in order and each *)
(* of them once, and the end of the stream comes after all of them.        *)
(* TcpStream implements this with segments over a network that loses,      *)
(* repeats and reorders them.                                              *)
(***************************************************************************)
EXTENDS Naturals, Sequences

CONSTANT Byte   \* the bytes that can be written

VARIABLES
  written,      \* the bytes written
  got,          \* the bytes delivered to the reader
  closed,       \* the writer has closed
  ended         \* the reader was told of the end

vars == <<written, got, closed, ended>>

Init ==
  /\ written = <<>>
  /\ got = <<>>
  /\ closed = FALSE
  /\ ended = FALSE

\* Some more bytes are written.
Write ==
  /\ ~closed
  /\ written' \in Seq(Byte)
  /\ SubSeq(written', 1, Len(written)) = written
  /\ UNCHANGED <<got, closed, ended>>

Close ==
  /\ ~closed
  /\ closed' = TRUE
  /\ UNCHANGED <<written, got, ended>>

\* Some more bytes are delivered, and with the last of them possibly the end.
Deliver ==
  /\ ~ended
  /\ \E n \in Len(got) .. Len(written) : got' = SubSeq(written, 1, n)
  /\ SubSeq(got', 1, Len(got)) = got
  /\ ended' \in BOOLEAN
  /\ ended' => closed /\ got' = written
  /\ UNCHANGED <<written, closed>>

Next == Write \/ Close \/ Deliver

Spec == Init /\ [][Next]_vars
=============================================================================
