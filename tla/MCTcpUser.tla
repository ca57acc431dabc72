----------------------------- MODULE MCTcpUser -----------------------------
(* TcpUser for TLC: the pcbs are interchangeable, the lists being sets. *)
EXTENDS TcpUser, TLC

Symmetry == Permutations(Pcb)
=============================================================================
