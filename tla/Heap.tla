-------------------------------- MODULE Heap --------------------------------
(***************************************************************************)
(* What mem.c promises: whoever asks for memory gets bytes that nobody     *)
(* else has, and keeps them until they are given back.                     *)
(***************************************************************************)
EXTENDS Naturals

CONSTANTS
  Size,      \* the bytes there are
  Request    \* the sizes asked for

VARIABLE held    \* the size of each allocation, by its address

Extent(p, n) == p .. p + n - 1

\* The n bytes at p are in the heap, and belong to nobody but q.
Available(p, n, q) ==
  /\ p \in 0 .. Size /\ p + n <= Size
  /\ \A k \in DOMAIN held \ {q} : Extent(p, n) \cap Extent(k, held[k]) = {}

Init == held = <<>>

Alloc(p) == \E n \in Request :
  /\ p \notin DOMAIN held
  /\ Available(p, n, p)
  /\ held' = [k \in DOMAIN held \cup {p} |-> IF k = p THEN n ELSE held[k]]

Resize(p) == \E n \in Request :
  /\ p \in DOMAIN held
  /\ Available(p, n, p)
  /\ held' = [held EXCEPT ![p] = n]

Free(p) ==
  /\ p \in DOMAIN held
  /\ held' = [k \in DOMAIN held \ {p} |-> held[k]]

\* p is the address of an allocation, before the step or after it.
Next == \E p \in DOMAIN held \cup DOMAIN held' : Alloc(p) \/ Resize(p) \/ Free(p)

Spec == Init /\ [][Next]_held
=============================================================================
