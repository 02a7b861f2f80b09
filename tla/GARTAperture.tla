---------------------------- MODULE GARTAperture ---------------------------
(***************************************************************************)
(* The allocator of GART address ranges                                    *)
(* (dext/amdgpu/amdgpu_gart_allocator.h): an unsorted table of             *)
(* reservations, searched first-fit.  Units are 4 KiB pages.  The table is *)
(* the set of its records in use.  GPU addresses have 48 bits, so          *)
(* the tests for 64-bit overflow in find() never fire and are left out.    *)
(***************************************************************************)
EXTENDS Integers, FiniteSets

CONSTANTS
    Size,          \* pages of the aperture
    Bases,         \* addresses the aperture may begin at
    FirstBase,     \* gmc.gart_start after bring-up
    Requests,      \* sizes asked for
    Alignments,    \* powers of two
    Capacity,      \* GARTApertureAllocator::capacity
    MaxID          \* UINT64_MAX of lastID

ASSUME ApertureAssumption ==
    /\ Size \in Nat /\ Bases \subseteq Nat /\ FirstBase \in Bases
    /\ Requests \subseteq Nat \ {0} /\ Alignments \subseteq Nat \ {0}
    /\ Capacity \in Nat /\ MaxID \in Nat

VARIABLES base, records, lastID
apertureVars == <<base, records, lastID>>

ApertureInit == base = FirstBase /\ records = {} /\ lastID = 0

End(r) == r.offset + r.size

Overlaps(r, c, n) == c < End(r) /\ r.offset < c + n

\* The first offset from c on whose address has the alignment.
AlignUp(c, al) == ((base + c + al - 1) \div al) * al - base

\* The records that candidate c collides with.
InTheWay(c, n) == {r \in records : Overlaps(r, c, n)}

\* Where a pass of find() goes on: past the record in its way that ends last,
\* or nowhere when there is none.
Past(c, n) ==
    IF InTheWay(c, n) = {} THEN c
    ELSE End(CHOOSE r \in InTheWay(c, n) : \A s \in InTheWay(c, n) : End(s) <= End(r))

\* Mutant: goes on without aligning again.
SettledUnaligned(n, al) ==
    LET candidate[p \in 0 .. Capacity] ==
          IF p = 0 THEN AlignUp(0, al) ELSE Past(candidate[p - 1], n)
    IN  candidate[Capacity]

\* The candidate after all passes.  A candidate nothing is in the way of, and
\* one beyond the aperture, would return at once; further passes keep the
\* former and only move the latter up, so the last one decides.
Settled(n, al) ==
    LET candidate[p \in 0 .. Capacity] ==
          IF p = 0 THEN AlignUp(0, al) ELSE AlignUp(Past(candidate[p - 1], n), al)
    IN  candidate[Capacity]

\* find(): the offset, when it succeeds.
Found(n, al) ==
    /\ n <= Size /\ lastID < MaxID /\ Cardinality(records) < Capacity
    /\ Settled(n, al) \in 0 .. Size - n
    /\ InTheWay(Settled(n, al), n) = {}

\* reserve()
Reserve(n, al) ==
    /\ Found(n, al)
    /\ lastID' = lastID + 1
    /\ records' = records \cup {[offset |-> Settled(n, al), size |-> n, id |-> lastID + 1]}
    /\ UNCHANGED base

\* release() of a reservation by all its fields.
Release(r) ==
    /\ r \in records
    /\ records' = records \ {r}
    /\ UNCHANGED <<base, lastID>>

\* gart_configure_host_window moves an aperture nobody uses.
MoveBase(b) ==
    /\ records = {}
    /\ base' = b
    /\ UNCHANGED <<records, lastID>>

\* A verified reset discards the session with its allocator.
Discard == base' = FirstBase /\ records' = {} /\ lastID' = 0

-----------------------------------------------------------------------------
\* Types; the table never holds more records than it has slots, and the
\* identifier never wraps.
ApertureTypeOK ==
    /\ base \in Bases /\ lastID \in 0 .. MaxID
    /\ records \subseteq [offset : 0 .. Size, size : Nat \ {0}, id : 1 .. MaxID]
    /\ IsFiniteSet(records) /\ Cardinality(records) <= Capacity

\* No two reservations share a page and none leaves the aperture, so no two
\* bindings write the same page-table entry.
ReservationsDisjoint ==
    /\ \A r \in records : End(r) <= Size
    /\ \A r, s \in records : r # s => End(r) <= s.offset \/ End(s) <= r.offset

\* An identifier names one reservation: owns() and release() with the fields of
\* a binding that is gone never match the range's next user.
IdentifiersUnique == \A r, s \in records : r.id = s.id => r = s

Aligned(c, al) == (base + c) % al = 0
Fits(c, n, al) == Aligned(c, al) /\ c + n <= Size /\ InTheWay(c, n) = {}

\* "Each collision advances past at least one reservation": the bounded search
\* finds the lowest aligned hole, and fails only when there is none or the
\* table or the identifiers are used up.
FindExact ==
    \A n \in Requests, al \in Alignments :
      lastID < MaxID /\ Cardinality(records) < Capacity =>
        /\ Found(n, al) <=> \E c \in 0 .. Size : Fits(c, n, al)
        /\ Found(n, al) =>
             /\ Fits(Settled(n, al), n, al)
             /\ \A c \in 0 .. Settled(n, al) - 1 : ~Fits(c, n, al)
=============================================================================
