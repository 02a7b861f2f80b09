--------------------------- MODULE VRAMAllocator ---------------------------
(***************************************************************************)
(* The first-fit allocator of a VRAM pool (VRAMBumpAllocator of            *)
(* dext/amdgpu/amdgpu_vram.h) and the accounting snapshot taken of it      *)
(* (amdgpu_vram_accounting.h).  Addresses and sizes are counted in units   *)
(* of the smallest alignment, 16 KiB.  The sorted list of free nodes is    *)
(* the set of its ranges: prev and cur of the code are a range's           *)
(* neighbours in it.  Calls are serialised by the driver queue.            *)
(***************************************************************************)
EXTENDS Integers, FiniteSets

CONSTANTS
    Base, Size,        \* m_base, m_size
    Requests,          \* sizes clients ask for
    Alignments,        \* powers of two
    MaxAllocations,    \* kMaxAllocations; the pool has one node more
    MaxAddress         \* UINT64_MAX

ASSUME RangeAssumption ==
    /\ Base \in Nat /\ Size \in Nat \ {0}
    /\ MaxAddress \in Nat /\ Base + Size <= MaxAddress
ASSUME RequestAssumption == /\ Requests \subseteq Nat \ {0}
                            /\ Alignments \subseteq Nat \ {0}
ASSUME AllocationsAssumption == MaxAllocations \in Nat \ {0}

VARIABLES
    free,     \* ranges on the free list
    live,     \* ranges the callers hold
    used,     \* m_bytes_used
    count     \* m_alloc_count

vars == <<free, live, used, count>>

Ranges == [offset : 0 .. Size - 1, length : 1 .. Size]
End(r) == r.offset + r.length
Piece(from, to) == IF from < to THEN {[offset |-> from, length |-> to - from]} ELSE {}
Overlap(r, s) == r.offset < End(s) /\ s.offset < End(r)

Init ==
    /\ free = {[offset |-> 0, length |-> Size]}
    /\ live = {} /\ used = 0 /\ count = 0

\* (x + a - 1) & ~(a - 1)
AlignUp(x, a) == ((x + a - 1) \div a) * a

\* The part of free range n that a request of size s would get.
Start(n, a) == AlignUp(Base + n.offset, a) - Base

Fits(n, s, a) ==
    /\ Base + n.offset <= MaxAddress - (a - 1)
    /\ Start(n, a) + s <= End(n)

\* Mutant: forgets the units skipped for alignment.
CarveDropsPad(n, start, s) == (free \ {n}) \cup Piece(start + s, End(n))

\* What is left of n around the carved range.
Carve(n, start, s) ==
    (free \ {n}) \cup Piece(n.offset, start) \cup Piece(start + s, End(n))

\* alloc() returns true: the first node that fits is carved.  A node for the
\* second half of a split must be left in the pool.
Alloc(bytes, a) ==
    LET s == AlignUp(bytes, a) IN
    /\ count < MaxAllocations
    /\ bytes <= MaxAddress - (a - 1)
    /\ \E n \in free :
         LET start == Start(n, a)
             rest == Carve(n, start, s)
         IN
         /\ Fits(n, s, a)
         /\ \A m \in free : m.offset < n.offset => ~Fits(m, s, a)
         /\ start > n.offset /\ start + s < End(n)
              => Cardinality(free) < MaxAllocations + 1
         /\ free' = rest
         /\ live' = live \cup {[offset |-> start, length |-> s]}
         /\ used' = used + s
         /\ count' = count + 1

\* Free neighbours of r: the node that ends where r begins, and the other way.
Before(r) == {n \in free : End(n) = r.offset}
After(r) == {n \in free : n.offset = End(r)}

\* free() accepts the range.
Accepts(r) ==
    /\ End(r) <= Size /\ r.length <= used
    /\ \A n \in free : ~Overlap(n, r)
    /\ Before(r) = {} /\ After(r) = {} => Cardinality(free) < MaxAllocations + 1

\* The free list with r inserted and merged with both neighbours.
Coalesce(r) ==
    LET from == IF Before(r) = {} THEN r.offset
                ELSE (CHOOSE n \in Before(r) : TRUE).offset
        to == IF After(r) = {} THEN End(r) ELSE End(CHOOSE n \in After(r) : TRUE)
    IN (free \ (Before(r) \cup After(r))) \cup Piece(from, to)

\* free() of a range alloc() returned.  A rejected range is lost: the caller
\* forgets it in any case.
Free(r) ==
    /\ r \in live
    /\ live' = live \ {r}
    /\ IF Accepts(r)
         THEN free' = Coalesce(r) /\ used' = used - r.length /\ count' = count - 1
         ELSE UNCHANGED <<free, used, count>>

Next ==
    \/ \E bytes \in Requests, a \in Alignments : Alloc(bytes, a)
    \/ \E r \in live : Free(r)

Spec == Init /\ [][Next]_vars

-----------------------------------------------------------------------------
\* vram_accounting::snapshot of one pool.
LargestFree == IF free = {} THEN 0
               ELSE CHOOSE l \in {n.length : n \in free} :
                      \A n \in free : n.length <= l
Snapshot == [capacity |-> Size, used |-> used, free |-> Size - used,
             largest |-> LargestFree, count |-> count]

\* vram_accounting::valid: one allocation takes at least one unit.
ValidSnapshot(s) ==
    /\ s.used <= s.capacity /\ s.free = s.capacity - s.used
    /\ s.largest <= s.free /\ s.count <= s.used

-----------------------------------------------------------------------------
Units(S) == {u \in 0 .. Size - 1 : \E r \in S : r.offset <= u /\ u < End(r)}

\* Two live allocations, or a live allocation and a free range, never share
\* memory, and no range leaves the pool.
Disjoint ==
    /\ \A r, s \in free \cup live : r # s => ~Overlap(r, s)
    /\ free \cap live = {}
    /\ \A r \in free \cup live : End(r) <= Size

\* Nothing is lost: a unit nobody holds can be allocated again.
NothingLost == Units(free \cup live) = 0 .. Size - 1

\* Adjacent free ranges have been merged.
Coalesced == \A r, s \in free : End(r) # s.offset

\* The reserve the class comment relies on: one node more than live ranges
\* always suffices, so neither a split nor a free can run out of nodes.
NodesSuffice == Cardinality(free) <= Cardinality(live) + 1

\* The accounting is exact, and what QueryInfo reports passes its own check.
Accounted ==
    /\ used = Cardinality(Units(live)) /\ count = Cardinality(live)
    /\ ValidSnapshot(Snapshot)

\* The pool is divided exactly between callers and free list, a split or a free always finds the
\* node it needs (alloc and free of VRAMBumpAllocator), and the accounting says so.
PoolExact == Disjoint /\ NothingLost /\ Coalesced /\ NodesSuffice /\ Accounted
=============================================================================
