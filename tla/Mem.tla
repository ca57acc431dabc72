--------------------------------- MODULE Mem ---------------------------------
(***************************************************************************)
(* The heap of lwIP, mem.c: blocks one behind the other, each with a       *)
(* header that names the next and the previous one; first fit from lfree,  *)
(* the lowest free block; adjacent free blocks are merged.                 *)
(*                                                                         *)
(* Sizes are in units of MEM_ALIGNMENT, the headers are a function of the  *)
(* offset in ram.  The field prev of ram_end is never read: it is left at  *)
(* its first value.                                                        *)
(***************************************************************************)
EXTENDS Naturals

CONSTANTS
  MemSize,    \* MEM_SIZE_ALIGNED, the offset of ram_end
  Header,     \* SIZEOF_STRUCT_MEM
  MinSize,    \* MIN_SIZE_ALIGNED
  Requests    \* the sizes asked for

\* mem_size_t holds every size asked for and the sums below (see mem.c:418:
\* rounding 65533 up gives 0 in 16 bits).
ASSUME MemAssumption ==
  /\ MemSize \in Nat /\ Header \in Nat \ {0} /\ MinSize \in Nat \ {0}
  /\ Header + MinSize <= MemSize
  /\ Requests \subseteq Nat \ {0}

VARIABLES
  ram,      \* the headers: next, prev and used
  lfree,    \* the lowest free block, or ram_end
  owned     \* history: the size asked for, of the blocks in use

memVars == <<ram, lfree, owned>>

Lowest(S) == CHOOSE h \in S : \A k \in S : h <= k

\* The bytes of block h behind its header.
Room(r, h) == r[h].next - (h + Header)

\* What a request for n is rounded up to.
BlockSize(n) == IF n < MinSize THEN MinSize ELSE n

\* Block h keeps n bytes, and a free block is made of the rest.
Split(r, h, n) ==
  LET rest == h + Header + n
  IN  [k \in DOMAIN r \cup {rest} |->
         IF k = h THEN [next |-> rest, prev |-> r[h].prev, used |-> TRUE]
         ELSE IF k = rest THEN [next |-> r[h].next, prev |-> h, used |-> FALSE]
         ELSE IF k = r[h].next /\ k /= MemSize THEN [r[k] EXCEPT !.prev = rest]
         ELSE r[k]]

\* Block h takes in the block behind it.
Join(r, h) ==
  LET gone == r[h].next
  IN  [k \in DOMAIN r \ {gone} |->
         IF k = h THEN [r[h] EXCEPT !.next = r[gone].next]
         ELSE IF k = r[gone].next /\ k /= MemSize THEN [r[k] EXCEPT !.prev = h]
         ELSE r[k]]

WithUsed(r, h, b) == [r EXCEPT ![h].used = b]

-----------------------------------------------------------------------------
\* Mutant: the search forgets that the block starts with a header.
Fitting_NoHeader(n) ==
  {h \in DOMAIN ram :
     /\ lfree <= h /\ h + n < MemSize
     /\ ~ram[h].used
     /\ ram[h].next - h >= n}

\* The search of mem_malloc, which starts at lfree.
Fitting(n) ==
  {h \in DOMAIN ram :
     /\ lfree <= h /\ h + n < MemSize
     /\ ~ram[h].used
     /\ Room(ram, h) >= n}

\* A block with no room for another one behind n bytes is given as it is.
Taken(h, n) ==
  IF Room(ram, h) >= n + Header + MinSize THEN Split(ram, h, n)
                                          ELSE WithUsed(ram, h, TRUE)

NextFree(r, h) == Lowest({k \in DOMAIN r : h <= k /\ (~r[k].used \/ k = MemSize)})

Malloc(n) ==
  LET size == BlockSize(n)
      h    == Lowest(Fitting(size))
  IN  /\ Fitting(size) /= {}
      /\ ram' = Taken(h, size)
      /\ lfree' = IF h = lfree THEN NextFree(ram', h) ELSE lfree
      /\ owned' = [k \in DOMAIN owned \cup {h} |-> IF k = h THEN n ELSE owned[k]]

-----------------------------------------------------------------------------
Forward(r, h) == IF ~r[r[h].next].used THEN Join(r, h) ELSE r

\* Mutant: a block is not merged with the one in front of it.
PlugHoles_Forward(r, h) == Forward(r, h)

\* plug_holes, which never moves lfree forward: it is not behind h.
PlugHoles(r, h) ==
  LET p == r[h].prev
  IN  IF p /= h /\ ~r[p].used THEN Join(Forward(r, h), p) ELSE Forward(r, h)

\* Mutant: lfree stays where it is.
LowestAfterFree_Kept(h) == lfree

\* lfree after block h was freed, and merged with a free one in front of it.
LowestAfterFree(h) ==
  LET low == IF h < lfree THEN h ELSE lfree
      p   == ram[h].prev
  IN  IF low = h /\ p /= h /\ ~ram[p].used THEN p ELSE low

Free(h) ==
  /\ ram' = PlugHoles(WithUsed(ram, h, FALSE), h)
  /\ lfree' = LowestAfterFree(h)
  /\ owned' = [k \in DOMAIN owned \ {h} |-> owned[k]]

-----------------------------------------------------------------------------
\* The part that mem_trim cuts off goes to the free block behind h, which is
\* moved; or becomes a block if it is big enough; or stays.
Trim(h, n) ==
  LET size == BlockSize(n)
      free == ~ram[ram[h].next].used
      rest == h + Header + size
      cut  == free \/ size + Header + MinSize <= Room(ram, h)
  IN  /\ size <= Room(ram, h)
      /\ IF size < Room(ram, h) /\ cut
           THEN /\ ram' = Split(IF free THEN Join(ram, h) ELSE ram, h, size)
                /\ lfree' = IF (free /\ lfree = ram[h].next) \/ (~free /\ rest < lfree)
                              THEN rest ELSE lfree
           ELSE UNCHANGED <<ram, lfree>>
      /\ owned' = [owned EXCEPT ![h] = n]

-----------------------------------------------------------------------------
\* mem_init
MemInit ==
  /\ ram = [h \in {0, MemSize} |->
              IF h = 0 THEN [next |-> MemSize, prev |-> 0, used |-> FALSE]
                       ELSE [next |-> MemSize, prev |-> MemSize, used |-> TRUE]]
  /\ lfree = 0
  /\ owned = [h \in {} |-> 0]

\* A call of mem_malloc that fails changes nothing.
MemNext ==
  \/ \E n \in Requests : Malloc(n)
  \/ \E h \in DOMAIN owned : Free(h)
  \/ \E h \in DOMAIN owned, n \in Requests : Trim(h, n)

MemSpec == MemInit /\ [][MemNext]_memVars

-----------------------------------------------------------------------------
(* Properties. *)

\* The blocks follow each other without a gap, and are linked in both
\* directions.
Chained(r) ==
  /\ {0, MemSize} \subseteq DOMAIN r /\ DOMAIN r \subseteq 0 .. MemSize
  /\ r \in [DOMAIN r -> [next : DOMAIN r, prev : DOMAIN r, used : BOOLEAN]]
  /\ r[0].prev = 0
  /\ r[MemSize] = [next |-> MemSize, prev |-> MemSize, used |-> TRUE]
  /\ \A h \in DOMAIN r \ {MemSize} :
       /\ h + Header + MinSize <= r[h].next
       /\ \A k \in DOMAIN r : k <= h \/ r[h].next <= k
       /\ r[h].next /= MemSize => r[r[h].next].prev = h
  /\ \A h \in DOMAIN r \ {0, MemSize} : r[r[h].prev].next = h

\* No two free blocks are neighbours.
Plugged(r) ==
  \A h \in DOMAIN r \ {MemSize} : r[h].used \/ r[r[h].next].used

IsLowestFree(r, low) ==
  /\ low \in DOMAIN r
  /\ low = MemSize \/ ~r[low].used
  /\ \A h \in DOMAIN r : h < low => r[h].used

\* What is in use has an owner, and room for what was asked for.
HasOwners(r, o) ==
  /\ DOMAIN o = {h \in DOMAIN r \ {MemSize} : r[h].used}
  /\ \A h \in DOMAIN o : o[h] \in Requests /\ h + Header + o[h] <= r[h].next

\* After any sequence of calls, splits, merges and moved headers have left a
\* chain of blocks that fills the heap, free blocks are merged, lfree is the
\* lowest of them, and every allocation has its block.
HeapOK ==
  /\ Chained(ram)
  /\ Plugged(ram)
  /\ IsLowestFree(ram, lfree)
  /\ HasOwners(ram, owned)

\* mem_malloc fails only when there is no gap between the blocks in use that
\* would do: starting at lfree and looking at single blocks overlooks nothing.
NothingOverlooked ==
  \A n \in {BlockSize(q) : q \in Requests} :
    Fitting(n) = {} =>
      \A a \in 0 .. MemSize : a + Header + n <= MemSize =>
        \E h \in DOMAIN owned : h < a + Header + n /\ a < ram[h].next

\* No byte is given to two.
Allocations == INSTANCE Heap WITH
  Size    <- MemSize,
  Request <- Requests,
  held    <- [p \in {h + Header : h \in DOMAIN owned} |-> owned[p - Header]]
ImplementsHeap == Allocations!Spec
=============================================================================
