------------------------- MODULE GARTMappingProofs -------------------------
(***************************************************************************)
(* Proofs about GARTMapping and the allocator it extends, for every        *)
(* aperture, table size, set of buffers and bindings and number of hubs.   *)
(* The invariant takes from find() only the two tests at its end; what its *)
(* loop (Settled) computes is proved first, by induction on its passes.    *)
(***************************************************************************)
EXTENDS GARTMapping, FiniteSetTheorems, WellFoundedInduction, TLAPS

\* The pages binding b has reserved.
Span(b) == binding[b].offset .. binding[b].offset + binding[b].size - 1

\* The entry of page i of binding b.
Entry(b, i) == [buffer |-> binding[b].buffer, page |-> i]

\* The first n entries of b are in the page table.
Written(b, n) == \A i \in 0 .. n - 1 : pte[binding[b].offset + i] = Entry(b, i)

\* A table holds nothing for the pages of b.
Cleared(table, b) == \A p \in Span(b) : table[p] = NoEntry

\* Identifiers are handed out in order and once.
IdentifiersOrdered == IdentifiersUnique /\ \A r \in records : r.id <= lastID

\* Bindings with pages have a mapped buffer and a reservation of their own, and
\* the address their place in the aperture gives them.
BindingsSeparate ==
    /\ \A b \in Bindings : HasPages(b) =>
         /\ binding[b].buffer \in mapped
         /\ binding[b].mc = base + binding[b].offset
    /\ \A b, c \in Bindings : HasPages(b) /\ HasPages(c) /\ b # c =>
         /\ binding[b].buffer # binding[c].buffer
         /\ binding[b].id # binding[c].id

\* A binding is ready only while all its entries are in the table.
ReadyWritten ==
    \A b \in Bindings : binding[b].ready => HasPages(b) /\ Written(b, binding[b].size)

\* How far the call in progress has come.
CallProgress ==
    /\ op.step = "idle" => op = Idle
    /\ op.step # "idle" => HasPages(op.b)
    /\ op.step \notin {"idle", "transfer"} => ~binding[op.b].ready
    /\ op.step = "write" => op.at < binding[op.b].size /\ Written(op.b, op.at)
    /\ op.step = "publish" => op.at \in 1 .. Hubs /\ Written(op.b, binding[op.b].size)
    /\ op.step = "retract" => /\ op.at \in 1 .. Hubs /\ Cleared(pte, op.b)
                              /\ \A h \in 1 .. op.at - 1 : Cleared(tlb[h], op.b)
    /\ op.step = "complete" => /\ Cleared(pte, op.b)
                               /\ \A h \in 1 .. Hubs : Cleared(tlb[h], op.b)
    /\ op.step = "transfer" => op.b = Test

\* The inductive invariant.
MappingInv ==
    /\ TypeOK /\ ReservationsDisjoint /\ IdentifiersOrdered /\ ReservationsOwned
    /\ BindingsSeparate /\ TranslationsBacked /\ ReadyWritten /\ CallProgress

-----------------------------------------------------------------------------
(***************************************************************************)
(* find(): the bounded first-fit search.                                   *)
(***************************************************************************)
\* Every nonempty set of natural numbers has a least element.
LEMMA LeastNumber ==
    ASSUME NEW S, S \subseteq Nat, S # {}
    PROVE  \E x \in S : \A y \in S : x <= y
<1> DEFINE R == OpToRel(<, Nat)
<1>1. IsWellFoundedOn(R, Nat)
  BY NatLessThanWellFounded
<1>2. \A x, y \in Nat : <<x, y>> \in R <=> x < y
  BY DEF OpToRel
<1> HIDE DEF R
<1>3. PICK x \in S : \A y \in S : ~(<<y, x>> \in R)
  BY <1>1, WFMin
<1>4. \A y \in S : x <= y
  <2>1. SUFFICES ASSUME NEW y \in S PROVE x <= y
    OBVIOUS
  <2>2. x \in Nat /\ y \in Nat /\ ~(<<y, x>> \in R)
    BY <1>3
  <2> QED
    BY <1>2, <2>2
<1> QED
  BY <1>4

\* f holds the first m + 1 candidates of a search.
Candidates(f, m, n, al) ==
    f = [p \in 0 .. m |-> IF p = 0 THEN AlignUp(0, al) ELSE AlignUp(Past(f[p - 1], n), al)]

\* The recursion of find() is well defined: every number of passes has a result.
LEMMA CandidatesExist ==
    ASSUME NEW n, NEW al, NEW m \in Nat
    PROVE  \E f : Candidates(f, m, n, al)
<1> DEFINE T == {k \in Nat : ~\E f : Candidates(f, k, n, al)}
<1>1. ASSUME T # {} PROVE FALSE
  <2>1. PICK k \in T : \A j \in T : k <= j
    BY <1>1, LeastNumber
  <2>2. CASE k = 0
    <3> DEFINE g == [p \in 0 .. 0 |-> AlignUp(0, al)]
    <3>1. g = [p \in 0 .. 0 |-> IF p = 0 THEN AlignUp(0, al) ELSE AlignUp(Past(g[p - 1], n), al)]
      OBVIOUS
    <3>2. Candidates(g, 0, n, al)
      BY <3>1 DEF Candidates
    <3> QED
      BY <2>1, <2>2, <3>2
  <2>3. CASE k # 0
    <3>1. k - 1 \in Nat /\ k - 1 \notin T
      BY <2>1, <2>3
    <3>2. PICK f : Candidates(f, k - 1, n, al)
      BY <3>1
    <3> DEFINE g == [p \in 0 .. k |-> IF p < k THEN f[p] ELSE AlignUp(Past(f[k - 1], n), al)]
    <3>3. ASSUME NEW p \in 0 .. k
          PROVE  g[p] = IF p = 0 THEN AlignUp(0, al) ELSE AlignUp(Past(g[p - 1], n), al)
      <4>1. k \in Nat /\ k > 0
        BY <2>1, <2>3
      <4>2. CASE p = k
        <5>1. g[p] = AlignUp(Past(f[k - 1], n), al) /\ g[p - 1] = f[p - 1]
          BY <4>1, <4>2
        <5> QED
          BY <4>1, <4>2, <5>1
      <4>3. CASE p # k
        <5>1. p \in 0 .. k - 1 /\ g[p] = f[p]
          BY <4>1, <4>3
        <5>2. p # 0 => g[p - 1] = f[p - 1]
          BY <4>1, <5>1
        <5>3. f[p] = IF p = 0 THEN AlignUp(0, al) ELSE AlignUp(Past(f[p - 1], n), al)
          BY <3>2, <5>1 DEF Candidates
        <5> QED
          BY <5>1, <5>2, <5>3
      <4> QED
        BY <4>2, <4>3
    <3>4. Candidates(g, k, n, al)
      <4>1. g = [p \in 0 .. k |-> g[p]]
        OBVIOUS
      <4> HIDE DEF g
      <4> QED
        BY <3>3, <4>1, Zenon DEF Candidates
    <3> QED
      BY <2>1, <3>4
  <2> QED
    BY <2>2, <2>3
<1> QED
  BY <1>1

\* What find() settles on is the candidate after Capacity passes.
LEMMA SettledIsLast ==
    ASSUME NEW n, NEW al
    PROVE  \E f : Candidates(f, Capacity, n, al) /\ Settled(n, al) = f[Capacity]
<1> DEFINE c == CHOOSE f : Candidates(f, Capacity, n, al)
<1>1. Candidates(c, Capacity, n, al)
  BY CandidatesExist, ApertureAssumption, Zenon
<1>2. Settled(n, al) = c[Capacity]
  BY DEF Settled, Candidates
<1> QED
  BY <1>1, <1>2

\* AlignUp gives the least aligned offset from c on.
LEMMA AlignUpLeast ==
    ASSUME base \in Nat, NEW c \in Nat, NEW al \in Nat \ {0}
    PROVE  /\ AlignUp(c, al) \in Nat /\ AlignUp(c, al) >= c /\ Aligned(AlignUp(c, al), al)
           /\ \A d \in Nat : d >= c /\ Aligned(d, al) => AlignUp(c, al) <= d
<1> DEFINE x == base + c + al - 1
           q == x \div al
<1>1. x \in Nat
  OBVIOUS
<1>2. q \in Nat /\ q * al \in Nat /\ q * al <= x /\ x < q * al + al
  BY <1>1
<1>3. AlignUp(c, al) = q * al - base
  BY DEF AlignUp
<1> HIDE DEF q
<1>4. AlignUp(c, al) \in Nat /\ AlignUp(c, al) >= c
  BY <1>2, <1>3
<1>5. Aligned(AlignUp(c, al), al)
  <2>1. (q * al) % al = 0
    BY <1>2
  <2>2. base + AlignUp(c, al) = q * al
    BY <1>2, <1>3
  <2> QED
    BY <2>1, <2>2 DEF Aligned
<1>6. ASSUME NEW d \in Nat, d >= c, Aligned(d, al)
      PROVE  AlignUp(c, al) <= d
  <2> DEFINE y == base + d
             k == y \div al
  <2>1. y \in Nat /\ y % al = 0
    BY <1>6 DEF Aligned
  <2>2. k \in Nat /\ y = k * al
    BY <2>1
  <2>3. y + al > q * al
    BY <1>2, <1>6
  <2> HIDE DEF k, y
  <2>4. ASSUME q >= k + 1 PROVE FALSE
    <3>1. PICK j \in Nat : q = k + 1 + j
      BY <1>2, <2>2, <2>4
    <3>2. q * al = k * al + al + j * al /\ j * al \in Nat
      BY <2>2, <3>1
    <3> QED
      BY <2>2, <2>1, <2>3, <3>2
  <2>5. q <= k
    BY <1>2, <2>2, <2>4
  <2>6. PICK j \in Nat : k = q + j
    BY <1>2, <2>2, <2>5
  <2>7. k * al = q * al + j * al /\ j * al \in Nat
    BY <1>2, <2>6
  <2>8. base + d = k * al
    BY <2>2 DEF y
  <2> QED
    BY <1>2, <1>3, <2>7, <2>8
<1> QED
  BY <1>4, <1>5, <1>6

\* What the search relies on: the table is well formed and lies in the aperture.
TableOK == ApertureTypeOK /\ \A r \in records : End(r) <= Size

\* The parts of a well-formed table the search computes with.
LEMMA RecordTypes ==
    ASSUME TableOK
    PROVE  /\ base \in Nat /\ Size \in Nat /\ Capacity \in Nat
           /\ IsFiniteSet(records) /\ Cardinality(records) \in Nat
           /\ \A r \in records : r.offset \in Nat /\ r.size \in Nat /\ End(r) \in 0 .. Size
<1>1. base \in Nat /\ Size \in Nat /\ Capacity \in Nat
  BY ApertureAssumption DEF TableOK, ApertureTypeOK
<1>2. IsFiniteSet(records) /\ Cardinality(records) \in Nat
  BY FS_CardinalityType DEF TableOK, ApertureTypeOK
<1>3. \A r \in records : r.offset \in Nat /\ r.size \in Nat
  BY <1>1 DEF TableOK, ApertureTypeOK
<1>4. \A r \in records : End(r) \in 0 .. Size
  BY <1>1, <1>3 DEF TableOK, End
<1> QED
  BY <1>1, <1>2, <1>3, <1>4

\* A pass that collides goes on past the record that ends last.
LEMMA PastCollision ==
    ASSUME TableOK, NEW c, NEW n, InTheWay(c, n) # {}
    PROVE  \E r \in InTheWay(c, n) : Past(c, n) = End(r)
<1> DEFINE W == InTheWay(c, n)
           T == {Size - End(r) : r \in W}
<1>1. W \subseteq records
  BY DEF InTheWay
<1>2. \A r \in W : End(r) \in 0 .. Size
  BY <1>1, RecordTypes
<1>3. Size \in Nat
  BY RecordTypes
<1>4. T \subseteq Nat /\ T # {}
  BY <1>2, <1>3
<1>5. PICK x \in T : \A y \in T : x <= y
  BY <1>4, LeastNumber
<1>6. PICK r \in W : x = Size - End(r)
  BY <1>5
<1>7. \A s \in W : End(s) <= End(r)
  <2>1. SUFFICES ASSUME NEW s \in W PROVE End(s) <= End(r)
    OBVIOUS
  <2>2. Size - End(r) <= Size - End(s)
    BY <1>5, <1>6
  <2> QED
    BY <1>2, <1>3, <2>2
<1> HIDE DEF W, T
<1> DEFINE last == CHOOSE u \in W : \A s \in W : End(s) <= End(u)
<1>8. last \in W
  BY <1>7
<1>9. Past(c, n) = End(last)
  BY DEF Past, W
<1> QED
  BY <1>8, <1>9 DEF W

\* What holds of the candidate c of pass p: it is aligned, every lower aligned
\* offset collides, and unless it is free the search has left p records behind.
Reached(c, p, n, al) ==
    /\ c \in Nat /\ Aligned(c, al)
    /\ \A d \in Nat : d < c /\ Aligned(d, al) => InTheWay(d, n) # {}
    /\ InTheWay(c, n) = {} \/ Cardinality({r \in records : End(r) <= c}) >= p

\* find() begins at the lowest aligned offset.
LEMMA FirstReached ==
    ASSUME TableOK, NEW n \in Nat \ {0}, NEW al \in Nat \ {0}
    PROVE  Reached(AlignUp(0, al), 0, n, al)
<1>1. /\ AlignUp(0, al) \in Nat /\ Aligned(AlignUp(0, al), al)
      /\ \A d \in Nat : d >= 0 /\ Aligned(d, al) => AlignUp(0, al) <= d
  BY RecordTypes, AlignUpLeast
<1>2. \A d \in Nat : ~(d < AlignUp(0, al) /\ Aligned(d, al))
  BY <1>1
<1>3. Cardinality({r \in records : End(r) <= AlignUp(0, al)}) \in Nat
  <2> DEFINE B == {r \in records : End(r) <= AlignUp(0, al)}
  <2>1. IsFiniteSet(B)
    BY RecordTypes, FS_Subset
  <2> QED
    BY <2>1, FS_CardinalityType
<1> QED
  BY <1>1, <1>2, <1>3 DEF Reached

\* "Each collision advances past at least one reservation", and past no hole.
LEMMA NextReached ==
    ASSUME TableOK, NEW n \in Nat \ {0}, NEW al \in Nat \ {0}, NEW c, NEW p \in Nat,
           Reached(c, p, n, al)
    PROVE  Reached(AlignUp(Past(c, n), al), p + 1, n, al)
<1>1. c \in Nat /\ Aligned(c, al) /\ base \in Nat
  BY RecordTypes DEF Reached
<1>2. CASE InTheWay(c, n) = {}
  <2>1. Past(c, n) = c
    BY <1>2 DEF Past
  <2>2. AlignUp(c, al) = c
    <3>1. AlignUp(c, al) \in Nat /\ AlignUp(c, al) >= c /\ AlignUp(c, al) <= c
      BY <1>1, AlignUpLeast
    <3> QED
      BY <1>1, <3>1
  <2> QED
    BY <1>2, <2>1, <2>2 DEF Reached
<1>3. CASE InTheWay(c, n) # {}
  <2>1. PICK r \in InTheWay(c, n) : Past(c, n) = End(r)
    BY <1>3, PastCollision
  <2>2. r \in records /\ c < End(r) /\ r.offset < c + n
    BY <2>1 DEF InTheWay, Overlaps
  <2>3. End(r) \in Nat /\ r.offset \in Nat
    BY <2>2, RecordTypes
  <2> DEFINE e == AlignUp(Past(c, n), al)
  <2>4. /\ e \in Nat /\ e >= End(r) /\ Aligned(e, al)
        /\ \A d \in Nat : d >= End(r) /\ Aligned(d, al) => e <= d
    BY <1>1, <2>1, <2>3, AlignUpLeast
  <2> HIDE DEF e
  <2>5. ASSUME NEW d \in Nat, d < e, Aligned(d, al)
        PROVE  InTheWay(d, n) # {}
    <3>1. CASE d < c
      BY <2>5, <3>1 DEF Reached
    <3>2. CASE d >= c
      <4>1. d < End(r)
        BY <2>3, <2>4, <2>5
      <4>2. r.offset < d + n
        BY <1>1, <2>2, <2>3, <3>2
      <4> QED
        BY <2>2, <4>1, <4>2 DEF InTheWay, Overlaps
    <3> QED
      BY <1>1, <3>1, <3>2
  <2>6. Cardinality({s \in records : End(s) <= e}) >= p + 1
    <3> DEFINE B == {s \in records : End(s) <= c}
               D == {s \in records : End(s) <= e}
    <3>1. \A s \in records : End(s) \in Nat
      BY RecordTypes
    <3>2. IsFiniteSet(B) /\ IsFiniteSet(D)
      BY RecordTypes, FS_Subset
    <3>3. r \notin B
      BY <1>1, <2>2, <2>3
    <3>4. B \cup {r} \subseteq D
      <4>1. r \in D
        BY <2>2, <2>4
      <4>2. ASSUME NEW s \in B PROVE s \in D
        <5>1. End(s) \in Nat /\ End(s) <= c
          BY <3>1
        <5> QED
          BY <1>1, <2>2, <2>3, <2>4, <5>1
      <4> QED
        BY <4>1, <4>2
    <3>5. Cardinality(B) >= p
      BY <1>3 DEF Reached
    <3> HIDE DEF B, D
    <3>6. Cardinality(B \cup {r}) = Cardinality(B) + 1 /\ IsFiniteSet(B \cup {r})
      BY <3>2, <3>3, FS_AddElement
    <3>7. Cardinality(B \cup {r}) <= Cardinality(D)
      BY <3>2, <3>4, FS_Subset
    <3>8. Cardinality(B) \in Nat /\ Cardinality(D) \in Nat
      BY <3>2, FS_CardinalityType
    <3>9. Cardinality(D) >= p + 1
      BY <3>5, <3>6, <3>7, <3>8
    <3> QED
      BY <3>9 DEF D
  <2> QED
    BY <2>4, <2>5, <2>6 DEF Reached, e
<1> QED
  BY <1>2, <1>3

\* By induction on the passes, whatever the table holds.
LEMMA SearchReached ==
    ASSUME TableOK, NEW n \in Nat \ {0}, NEW al \in Nat \ {0}
    PROVE  Reached(Settled(n, al), Capacity, n, al)
<1>1. PICK f : Candidates(f, Capacity, n, al) /\ Settled(n, al) = f[Capacity]
  BY SettledIsLast
<1>2. Capacity \in Nat
  BY RecordTypes
<1>3. \A p \in 0 .. Capacity :
        f[p] = IF p = 0 THEN AlignUp(0, al) ELSE AlignUp(Past(f[p - 1], n), al)
  BY <1>1 DEF Candidates
<1> DEFINE T == {p \in 0 .. Capacity : ~Reached(f[p], p, n, al)}
<1>4. ASSUME T # {} PROVE FALSE
  <2>1. T \subseteq Nat
    BY <1>2
  <2>2. PICK p \in T : \A q \in T : p <= q
    BY <1>4, <2>1, LeastNumber
  <2>3. p # 0
    <3>1. f[0] = AlignUp(0, al)
      BY <1>2, <1>3
    <3> QED
      BY <2>2, <3>1, FirstReached
  <2>4. p - 1 \in 0 .. Capacity /\ p - 1 \in Nat /\ p - 1 \notin T /\ p = (p - 1) + 1
    BY <1>2, <2>2, <2>3
  <2>5. Reached(f[p - 1], p - 1, n, al)
    BY <2>4
  <2>6. f[p] = AlignUp(Past(f[p - 1], n), al)
    BY <1>3, <2>2, <2>3
  <2>7. Reached(AlignUp(Past(f[p - 1], n), al), (p - 1) + 1, n, al)
    BY <2>4, <2>5, NextReached
  <2> QED
    BY <2>2, <2>4, <2>6, <2>7
<1>5. Reached(f[Capacity], Capacity, n, al)
  BY <1>2, <1>4
<1> QED
  BY <1>1, <1>5

\* A table with a free slot always lets the search settle on the lowest aligned hole.
LEMMA SearchSettles ==
    ASSUME TableOK, NEW n \in Nat \ {0}, NEW al \in Nat \ {0},
           Cardinality(records) < Capacity
    PROVE  /\ Settled(n, al) \in Nat /\ Aligned(Settled(n, al), al)
           /\ InTheWay(Settled(n, al), n) = {}
           /\ \A d \in Nat : d < Settled(n, al) /\ Aligned(d, al) => InTheWay(d, n) # {}
<1>1. Reached(Settled(n, al), Capacity, n, al)
  BY SearchReached
<1>2. ~(Cardinality({r \in records : End(r) <= Settled(n, al)}) >= Capacity)
  <2> DEFINE B == {r \in records : End(r) <= Settled(n, al)}
  <2>1. IsFiniteSet(records) /\ B \subseteq records
    BY RecordTypes
  <2> HIDE DEF B
  <2>2. IsFiniteSet(B) /\ Cardinality(B) <= Cardinality(records)
    BY <2>1, FS_Subset
  <2>3. Cardinality(B) \in Nat /\ Cardinality(records) \in Nat /\ Capacity \in Nat
    BY <2>2, FS_CardinalityType, RecordTypes
  <2>4. ~(Cardinality(B) >= Capacity)
    BY <2>2, <2>3
  <2> QED
    BY <2>4 DEF B
<1> QED
  BY <1>1, <1>2 DEF Reached

\* So find() fails only when there is no hole, and returns the lowest one.
LEMMA TableFindExact == TableOK => FindExact
<1> SUFFICES ASSUME TableOK, NEW n \in Requests, NEW al \in Alignments,
                    lastID < MaxID, Cardinality(records) < Capacity
    PROVE  /\ Found(n, al) <=> \E c \in 0 .. Size : Fits(c, n, al)
           /\ Found(n, al) =>
                /\ Fits(Settled(n, al), n, al)
                /\ \A c \in 0 .. Settled(n, al) - 1 : ~Fits(c, n, al)
  BY DEF FindExact
<1>1. n \in Nat \ {0} /\ al \in Nat \ {0} /\ Size \in Nat
  BY ApertureAssumption
<1> DEFINE s == Settled(n, al)
<1>2. /\ s \in Nat /\ Aligned(s, al) /\ InTheWay(s, n) = {}
      /\ \A d \in Nat : d < s /\ Aligned(d, al) => InTheWay(d, n) # {}
  BY <1>1, SearchSettles
<1>3. Found(n, al) <=> n <= Size /\ s \in 0 .. Size - n
  BY <1>2 DEF Found
<1> HIDE DEF s
<1>4. ASSUME s \in 0 .. Size - n PROVE s \in 0 .. Size /\ Fits(s, n, al)
  BY <1>1, <1>2, <1>4 DEF Fits
<1>5. ASSUME NEW c \in 0 .. Size, Fits(c, n, al) PROVE n <= Size /\ s \in 0 .. Size - n
  <2>1. c \in Nat /\ Aligned(c, al) /\ InTheWay(c, n) = {} /\ c + n <= Size
    BY <1>1, <1>5 DEF Fits
  <2>2. ~(c < s)
    BY <1>2, <2>1
  <2> QED
    BY <1>1, <1>2, <2>1, <2>2
<1>6. \A c \in 0 .. s - 1 : ~Fits(c, n, al)
  BY <1>2 DEF Fits
<1> QED
  BY <1>3, <1>4, <1>5, <1>6 DEF s

-----------------------------------------------------------------------------
\* reserve() keeps the table well formed: the new range lies in the aperture,
\* meets no other, and its identifier is new.
LEMMA ReserveKeeps ==
    ASSUME ApertureTypeOK, ReservationsDisjoint, IdentifiersOrdered,
           NEW n \in Requests, NEW al \in Alignments, Reserve(n, al)
    PROVE  /\ ApertureTypeOK' /\ ReservationsDisjoint' /\ IdentifiersOrdered'
           /\ Settled(n, al) \in 0 .. Size - n
  <1> DEFINE new == [offset |-> Settled(n, al), size |-> n, id |-> lastID + 1]
  <1>1. /\ Settled(n, al) \in 0 .. Size - n /\ InTheWay(Settled(n, al), n) = {}
        /\ Cardinality(records) < Capacity /\ lastID < MaxID
        /\ records' = records \cup {new} /\ lastID' = lastID + 1 /\ base' = base
    BY DEF Reserve, Found
  <1> HIDE DEF new
  <1>2. /\ new.offset = Settled(n, al) /\ new.size = n /\ new.id = lastID + 1
        /\ new \in [offset : 0 .. Size, size : Nat \ {0}, id : 1 .. MaxID]
    BY <1>1, ApertureAssumption DEF new, ApertureTypeOK
  <1>3. \A r \in records : End(r) <= new.offset \/ End(new) <= r.offset
    BY <1>1, <1>2, ApertureAssumption DEF InTheWay, Overlaps, End, ApertureTypeOK
  <1>4. ReservationsDisjoint'
    BY <1>1, <1>2, <1>3, ApertureAssumption DEF ReservationsDisjoint, End, ApertureTypeOK
  <1>5. IdentifiersOrdered'
    <2>1. \A r \in records : r.id \in Nat /\ r.id <= lastID
      BY DEF IdentifiersOrdered, ApertureTypeOK
    <2> QED BY <1>1, <1>2, <2>1 DEF IdentifiersOrdered, IdentifiersUnique, ApertureTypeOK
  <1>6. IsFiniteSet(records') /\ Cardinality(records') <= Capacity
    <2>1. IsFiniteSet(records) /\ Cardinality(records) \in Nat
      BY FS_CardinalityType DEF ApertureTypeOK
    <2>2. /\ IsFiniteSet(records \cup {new})
          /\ \/ Cardinality(records \cup {new}) = Cardinality(records)
             \/ Cardinality(records \cup {new}) = Cardinality(records) + 1
      BY <2>1, FS_AddElement
    <2> QED BY <1>1, <2>1, <2>2, ApertureAssumption
  <1> QED BY <1>1, <1>2, <1>4, <1>5, <1>6, ApertureAssumption DEF ApertureTypeOK

\* release() keeps it well formed, too.
LEMMA ReleaseKeeps ==
    ASSUME ApertureTypeOK, ReservationsDisjoint, IdentifiersOrdered, NEW r, Release(r)
    PROVE  ApertureTypeOK' /\ ReservationsDisjoint' /\ IdentifiersOrdered'
  <1>1. records' = records \ {r} /\ r \in records /\ base' = base /\ lastID' = lastID
    BY DEF Release
  <1>2. IsFiniteSet(records \ {r}) /\ Cardinality(records \ {r}) <= Capacity
    <2>1. IsFiniteSet(records) /\ Cardinality(records) \in Nat
      BY FS_CardinalityType DEF ApertureTypeOK
    <2>2. /\ IsFiniteSet(records \ {r})
          /\ Cardinality(records \ {r}) = Cardinality(records) - 1
      BY <1>1, <2>1, FS_RemoveElement
    <2> QED BY <2>1, <2>2, ApertureAssumption DEF ApertureTypeOK
  <1>3. ApertureTypeOK'
    BY <1>1, <1>2 DEF ApertureTypeOK
  <1>4. ReservationsDisjoint'
    BY <1>1 DEF ReservationsDisjoint, End
  <1>5. IdentifiersOrdered'
    BY <1>1 DEF IdentifiersOrdered, IdentifiersUnique
  <1> QED BY <1>3, <1>4, <1>5

\* Different bindings have different pages.
LEMMA SpansDisjoint ==
    ASSUME MappingInv, NEW b \in Bindings, NEW c \in Bindings, HasPages(b), HasPages(c),
           NEW p, p \in Span(b), p \in Span(c)
    PROVE  b = c
  <1> SUFFICES ASSUME b # c PROVE FALSE
    OBVIOUS
  <1>1. Reservation(b) \in records /\ Reservation(c) \in records
    BY DEF MappingInv, ReservationsOwned
  <1>2. Reservation(b) # Reservation(c)
    BY DEF MappingInv, BindingsSeparate, Reservation
  <1>3. /\ binding[b].offset \in Nat /\ binding[b].size \in Nat
        /\ binding[c].offset \in Nat /\ binding[c].size \in Nat
    BY ApertureAssumption DEF MappingInv, TypeOK, BindingRecords
  <1>4. \/ End(Reservation(b)) <= Reservation(c).offset
        \/ End(Reservation(c)) <= Reservation(b).offset
    BY <1>1, <1>2 DEF MappingInv, ReservationsDisjoint
  <1> QED BY <1>3, <1>4 DEF End, Reservation, Span

\* A binding with pages lies inside the aperture.
LEMMA SpanInside ==
    ASSUME MappingInv, NEW b \in Bindings, HasPages(b)
    PROVE  /\ binding[b].offset \in Nat /\ binding[b].size \in Nat \ {0}
           /\ binding[b].offset + binding[b].size <= Size
           /\ Span(b) \subseteq Pages
           /\ \A i \in 0 .. binding[b].size - 1 : binding[b].offset + i \in Span(b)
  <1>1. Reservation(b) \in records
    BY DEF MappingInv, ReservationsOwned
  <1>2. binding[b].offset \in Nat /\ binding[b].size \in Nat \ {0}
    BY ApertureAssumption DEF MappingInv, TypeOK, BindingRecords, HasPages
  <1>3. binding[b].offset + binding[b].size <= Size
    BY <1>1 DEF MappingInv, ReservationsDisjoint, End, Reservation
  <1> QED BY <1>2, <1>3, ApertureAssumption DEF Span, Pages

\* The two empty records have their types.
LEMMA EmptyTyped == NoBinding \in BindingRecords /\ Idle \in Calls
  BY ApertureAssumption DEF NoBinding, BindingRecords, Idle, Calls, Bindings

\* Setting ready leaves the rest of a binding, and all other bindings, alone.
LEMMA SetReady ==
    ASSUME MappingInv, NEW b \in Bindings, NEW v \in BOOLEAN,
           binding' = [binding EXCEPT ![b].ready = v]
    PROVE  /\ binding' \in [Bindings -> BindingRecords]
           /\ \A c \in Bindings : c # b => binding'[c] = binding[c]
           /\ binding'[b].id = binding[b].id /\ binding'[b].offset = binding[b].offset
           /\ binding'[b].size = binding[b].size /\ binding'[b].mc = binding[b].mc
           /\ binding'[b].buffer = binding[b].buffer /\ binding'[b].ready = v
  <1> DEFINE s == [binding[b] EXCEPT !.ready = v]
  <1>1. binding \in [Bindings -> BindingRecords]
    BY DEF MappingInv, TypeOK
  <1>2. binding[b] \in BindingRecords
    BY <1>1
  <1>3. /\ s \in BindingRecords
        /\ s.id = binding[b].id /\ s.offset = binding[b].offset /\ s.size = binding[b].size
        /\ s.mc = binding[b].mc /\ s.buffer = binding[b].buffer /\ s.ready = v
    BY <1>2 DEF BindingRecords
  <1>4. binding' = [binding EXCEPT ![b] = s]
    OBVIOUS
  <1> HIDE DEF s
  <1>5. /\ binding' \in [Bindings -> BindingRecords] /\ binding'[b] = s
        /\ \A c \in Bindings : c # b => binding'[c] = binding[c]
    BY <1>1, <1>3, <1>4
  <1> QED BY <1>3, <1>5

-----------------------------------------------------------------------------
(***************************************************************************)
(* The invariant holds initially and every step keeps it.                  *)
(***************************************************************************)
LEMMA InitKeeps == Init => MappingInv
  <1> SUFFICES ASSUME Init PROVE MappingInv
    OBVIOUS
  <1> USE ApertureAssumption, MappingAssumption DEF Init, ApertureInit
  <1>1. ApertureTypeOK /\ ReservationsDisjoint /\ IdentifiersOrdered
    BY FS_EmptySet DEF ApertureTypeOK, ReservationsDisjoint, IdentifiersOrdered,
       IdentifiersUnique
  <1>2. TypeOK
    <2> QED BY <1>1, EmptyTyped DEF TypeOK, Entries
  <1>3. \A b \in Bindings : ~HasPages(b) /\ ~binding[b].ready
    BY DEF HasPages, NoBinding
  <1>4. ReservationsOwned /\ BindingsSeparate /\ ReadyWritten
    BY <1>3 DEF ReservationsOwned, BindingsSeparate, ReadyWritten
  <1>5. TranslationsBacked
    BY DEF TranslationsBacked, Backed
  <1>6. CallProgress
    BY DEF CallProgress, Idle
  <1> QED BY <1>1, <1>2, <1>4, <1>5, <1>6 DEF MappingInv

\* Steps that change neither the allocator, nor the bindings, nor what the
\* device sees, and end the call in progress.
LEMMA FailKeeps ==
    ASSUME MappingInv, op' = Idle, blocked' \in BOOLEAN, verified' \in BOOLEAN,
           UNCHANGED <<apertureVars, binding, pte, tlb, mapped, window>>
    PROVE  MappingInv'
  <1> USE DEF apertureVars
  <1>1. TypeOK' /\ ReservationsDisjoint' /\ IdentifiersOrdered'
    <2>1. ApertureTypeOK'
      BY DEF MappingInv, TypeOK, ApertureTypeOK
    <2>2. Idle \in Calls
      BY EmptyTyped
    <2> QED BY <2>1, <2>2 DEF MappingInv, TypeOK, Entries, ReservationsDisjoint,
                 IdentifiersOrdered, IdentifiersUnique, End
  <1>2. ReservationsOwned'
    BY DEF MappingInv, ReservationsOwned, HasPages, Reservation
  <1>3. BindingsSeparate'
    BY DEF MappingInv, BindingsSeparate, HasPages
  <1>4. TranslationsBacked'
    BY DEF MappingInv, TranslationsBacked, Backed, HasPages, Reservation
  <1>5. ReadyWritten'
    BY DEF MappingInv, ReadyWritten, Written, Entry, HasPages
  <1>6. CallProgress'
    BY DEF CallProgress, Idle
  <1> QED BY <1>1, <1>2, <1>3, <1>4, <1>5, <1>6 DEF MappingInv

LEMMA BindRefusedKeeps == MappingInv /\ BindRefused => MappingInv'
  <1> SUFFICES ASSUME MappingInv, BindRefused PROVE MappingInv'
    OBVIOUS
  <1>1. op' = Idle /\ blocked' \in BOOLEAN /\ verified' \in BOOLEAN
    BY DEF BindRefused, Fail, Withdraw
  <1> QED BY <1>1, FailKeeps DEF BindRefused

LEMMA CompleteFailsKeeps == MappingInv /\ CompleteFails => MappingInv'
  <1> SUFFICES ASSUME MappingInv, CompleteFails PROVE MappingInv'
    OBVIOUS
  <1>1. op' = Idle /\ blocked' \in BOOLEAN /\ verified' \in BOOLEAN
    BY DEF CompleteFails, Fail, MappingInv, TypeOK
  <1> QED BY <1>1, FailKeeps DEF CompleteFails

LEMMA BlockKeeps == MappingInv /\ Block => MappingInv'
  <1> SUFFICES ASSUME MappingInv, Block PROVE MappingInv'
    OBVIOUS
  <1>1. op' = Idle /\ blocked' \in BOOLEAN /\ verified' \in BOOLEAN
    BY DEF Block, MappingInv, TypeOK
  <1> QED BY <1>1, FailKeeps DEF Block

LEMMA ResetKeeps == MappingInv /\ Reset => MappingInv'
  <1> SUFFICES ASSUME MappingInv, Reset PROVE MappingInv'
    OBVIOUS
  <1> USE ApertureAssumption, MappingAssumption DEF Reset, Discard
  <1>1. ApertureTypeOK' /\ ReservationsDisjoint' /\ IdentifiersOrdered'
    BY FS_EmptySet DEF ApertureTypeOK, ReservationsDisjoint, IdentifiersOrdered,
       IdentifiersUnique
  <1>2. TypeOK'
    <2>1. binding' \in [Bindings -> BindingRecords]
      BY EmptyTyped
    <2>2. op' \in Calls
      BY DEF MappingInv, TypeOK
    <2> QED BY <1>1, <2>1, <2>2 DEF TypeOK, Entries
  <1>3. \A b \in Bindings : ~HasPages(b)' /\ ~binding'[b].ready
    BY DEF HasPages, NoBinding
  <1>4. ReservationsOwned' /\ BindingsSeparate' /\ ReadyWritten'
    BY <1>3 DEF ReservationsOwned, BindingsSeparate, ReadyWritten
  <1>5. TranslationsBacked'
    BY DEF TranslationsBacked, Backed
  <1>6. CallProgress'
    BY DEF CallProgress, Idle
  <1> QED BY <1>1, <1>2, <1>4, <1>5, <1>6 DEF MappingInv

\* The aperture moves only while nobody has pages in it.
LEMMA HostWindowKeeps ==
    ASSUME MappingInv, NEW to \in Bases, NEW ok \in BOOLEAN, HostWindow(to, ok)
    PROVE  MappingInv'
  <1> USE DEF HostWindow, MoveBase
  <1>1. \A b \in Bindings : ~HasPages(b)
    BY DEF MappingInv, ReservationsOwned
  <1>2. ApertureTypeOK' /\ ReservationsDisjoint' /\ IdentifiersOrdered'
    BY DEF MappingInv, TypeOK, ApertureTypeOK, ReservationsDisjoint, IdentifiersOrdered,
       IdentifiersUnique
  <1>3. TypeOK'
    BY <1>2 DEF MappingInv, TypeOK, Entries
  <1>4. ReservationsOwned' /\ BindingsSeparate'
    BY <1>1 DEF MappingInv, ReservationsOwned, BindingsSeparate, HasPages, Reservation
  <1>5. TranslationsBacked'
    BY DEF MappingInv, TranslationsBacked, Backed, HasPages, Reservation
  <1>6. ReadyWritten'
    BY DEF MappingInv, ReadyWritten, Written, Entry, HasPages
  <1>7. CallProgress'
    BY DEF CallProgress, Idle
  <1> QED BY <1>2, <1>3, <1>4, <1>5, <1>6, <1>7 DEF MappingInv

\* A hub that caches an entry caches what the table holds.
LEMMA WalkKeeps ==
    ASSUME MappingInv, NEW h \in 1 .. Hubs, NEW p \in Pages, Walk(h, p)
    PROVE  MappingInv'
  <1> USE MappingAssumption DEF Walk, apertureVars
  <1>1. /\ pte[p] # NoEntry /\ pte \in [Pages -> Entries]
        /\ tlb \in [1 .. Hubs -> [Pages -> Entries]]
        /\ tlb' \in [1 .. Hubs -> [Pages -> Entries]]
        /\ \A g \in 1 .. Hubs, q \in Pages : tlb'[g][q] = tlb[g][q] \/ (q = p /\ tlb'[g][q] = pte[p])
    BY DEF MappingInv, TypeOK
  <1>2. TypeOK' /\ ReservationsDisjoint' /\ IdentifiersOrdered'
    <2>1. ApertureTypeOK'
      BY DEF MappingInv, TypeOK, ApertureTypeOK
    <2> QED BY <1>1, <2>1 DEF MappingInv, TypeOK, Entries, ReservationsDisjoint,
                 IdentifiersOrdered, IdentifiersUnique, End
  <1>3. ReservationsOwned' /\ BindingsSeparate'
    BY DEF MappingInv, ReservationsOwned, BindingsSeparate, HasPages, Reservation
  <1>4. TranslationsBacked'
    <2>1. \A q \in Pages : \A e : Backed(q, e)' <=> Backed(q, e)
      BY DEF Backed, HasPages, Reservation
    <2>2. \A q \in Pages : Backed(q, pte[q]) /\ \A g \in 1 .. Hubs : Backed(q, tlb[g][q])
      BY DEF MappingInv, TranslationsBacked
    <2>3. \A q \in Pages, g \in 1 .. Hubs : Backed(q, tlb'[g][q])
      BY <1>1, <2>2
    <2> QED BY <2>1, <2>2, <2>3 DEF TranslationsBacked
  <1>5. ReadyWritten'
    BY DEF MappingInv, ReadyWritten, Written, Entry, HasPages
  <1>6. CallProgress'
    <2>1. op.step \in {"retract", "complete"} => p \notin Span(op.b)
      BY <1>1 DEF MappingInv, CallProgress, Cleared
    <2>2. ASSUME NEW g \in 1 .. Hubs, Cleared(tlb[g], op.b), HasPages(op.b),
                 op.step \in {"retract", "complete"}
          PROVE  Cleared(tlb'[g], op.b)
      <3>1. Span(op.b) \subseteq Pages
        BY <2>2, SpanInside DEF MappingInv, TypeOK, Calls
      <3> QED BY <1>1, <2>1, <2>2, <3>1 DEF Cleared
    <2>3. /\ op' = op /\ binding' = binding /\ pte' = pte
          /\ op.at \in Nat /\ Hubs \in Nat
      BY DEF MappingInv, TypeOK, Calls
    <2>4. op.step = "retract" => \A g \in 1 .. op.at - 1 : Cleared(tlb'[g], op.b)
      BY <2>2, <2>3 DEF MappingInv, CallProgress
    <2>5. op.step = "complete" => \A g \in 1 .. Hubs : Cleared(tlb'[g], op.b)
      BY <2>2 DEF MappingInv, CallProgress
    <2> QED BY <2>3, <2>4, <2>5 DEF MappingInv, CallProgress, HasPages, Written, Entry,
               Cleared, Span
  <1> QED BY <1>2, <1>3, <1>4, <1>5, <1>6 DEF MappingInv

\* A new binding takes a range, a buffer and an identifier nobody else has.
LEMMA BeginBindKeeps ==
    ASSUME MappingInv, NEW b \in Bindings, NEW n \in Requests, NEW al \in Alignments,
           NEW m \in Buffers, BeginBind(b, n, al, m)
    PROVE  MappingInv'
  <1> USE ApertureAssumption, MappingAssumption
  <1>1. /\ ApertureTypeOK' /\ ReservationsDisjoint' /\ IdentifiersOrdered'
        /\ Settled(n, al) \in 0 .. Size - n
    BY ReserveKeeps DEF BeginBind, MappingInv, TypeOK
  <1>2. /\ binding[b] = NoBinding /\ op = Idle /\ m \notin mapped
        /\ mapped' = mapped \cup {m}
        /\ records' = records \cup {[offset |-> Settled(n, al), size |-> n, id |-> lastID + 1]}
        /\ lastID < MaxID /\ base' = base
        /\ UNCHANGED <<pte, tlb, window, blocked>>
        /\ op' = [step |-> "write", b |-> b, at |-> 0]
        /\ verified' \in BOOLEAN
    BY DEF BeginBind, MayBind, Reserve, Found, At, Withdraw
  <1>3. base \in Nat /\ lastID \in Nat /\ n \in Nat \ {0} /\ Size \in Nat /\ MaxID \in Nat
    BY DEF MappingInv, TypeOK, ApertureTypeOK
  <1>4. /\ binding'[b] = [id |-> lastID + 1, offset |-> Settled(n, al), size |-> n,
                          mc |-> base + Settled(n, al), buffer |-> m, ready |-> FALSE]
        /\ \A c \in Bindings : c # b => binding'[c] = binding[c]
    BY DEF BeginBind, MappingInv, TypeOK
  <1>5. TypeOK'
    <2>1. binding' \in [Bindings -> BindingRecords]
      <3>1. /\ lastID + 1 \in 0 .. MaxID /\ Settled(n, al) \in 0 .. Size /\ n \in 0 .. Size
            /\ base + Settled(n, al) \in Nat
        BY <1>1, <1>2, <1>3
      <3>2. /\ binding \in [Bindings -> BindingRecords] /\ binding'[b] \in BindingRecords
            /\ binding' = [binding EXCEPT ![b] = binding'[b]]
        BY <1>4, <3>1 DEF BeginBind, MappingInv, TypeOK, BindingRecords
      <3> QED BY <3>2
    <2> QED BY <1>1, <1>2, <2>1 DEF MappingInv, TypeOK, Entries, Calls
  <1>6. /\ ~HasPages(b) /\ HasPages(b)'
        /\ \A c \in Bindings : c # b => /\ HasPages(c)' <=> HasPages(c)
                                        /\ Reservation(c)' = Reservation(c)
        /\ Reservation(b)' = [offset |-> Settled(n, al), size |-> n, id |-> lastID + 1]
    BY <1>2, <1>3, <1>4 DEF HasPages, NoBinding, Reservation
  <1>7. ReservationsOwned'
    BY <1>2, <1>6 DEF MappingInv, ReservationsOwned
  <1>8. BindingsSeparate'
    <2>1. \A c \in Bindings : HasPages(c) =>
             binding[c].buffer \in mapped /\ binding[c].id <= lastID /\ binding[c].id \in Nat
      <3>1. \A c \in Bindings : HasPages(c) => Reservation(c) \in records
        BY DEF MappingInv, ReservationsOwned
      <3>2. \A c \in Bindings : HasPages(c) => binding[c].id <= lastID
        BY <3>1 DEF MappingInv, IdentifiersOrdered, Reservation
      <3> QED BY <3>2 DEF MappingInv, BindingsSeparate, TypeOK, BindingRecords
    <2> QED BY <1>2, <1>3, <1>4, <1>6, <2>1 DEF MappingInv, BindingsSeparate
  <1>9. TranslationsBacked'
    <2>1. ASSUME NEW p \in Pages, NEW e, Backed(p, e) PROVE Backed(p, e)'
      BY <1>2, <1>4, <1>6, <2>1 DEF Backed
    <2> QED BY <1>2, <2>1 DEF MappingInv, TranslationsBacked
  <1>10. ReadyWritten'
    BY <1>2, <1>4, <1>6 DEF MappingInv, ReadyWritten, Written, Entry
  <1>11. CallProgress'
    BY <1>2, <1>3, <1>4, <1>6 DEF CallProgress, Written
  <1> QED BY <1>1, <1>5, <1>7, <1>8, <1>9, <1>10, <1>11 DEF MappingInv

\* A buffer without pages is kept by its binding and by nothing else.
LEMMA BindUnusableKeeps ==
    ASSUME MappingInv, NEW b \in Bindings, NEW m \in Buffers, BindUnusable(b, m)
    PROVE  MappingInv'
  <1> USE ApertureAssumption, MappingAssumption DEF apertureVars
  <1>1. /\ binding[b] = NoBinding /\ mapped' = mapped \cup {m} /\ op' = Idle
        /\ UNCHANGED <<apertureVars, pte, tlb, window>>
        /\ blocked' \in BOOLEAN /\ verified' \in BOOLEAN
    BY DEF BindUnusable, MayBind, Fail, Withdraw
  <1>2. /\ binding'[b].size = 0 /\ binding'[b].ready = FALSE
        /\ \A c \in Bindings : c # b => binding'[c] = binding[c]
        /\ binding' \in [Bindings -> BindingRecords]
    <2> DEFINE s == [NoBinding EXCEPT !.buffer = m]
    <2>1. s \in BindingRecords /\ s.size = 0 /\ s.ready = FALSE
      <3>1. NoBinding \in BindingRecords /\ NoBinding.size = 0 /\ NoBinding.ready = FALSE
        BY EmptyTyped DEF NoBinding
      <3>2. s \in BindingRecords /\ s.size = NoBinding.size /\ s.ready = NoBinding.ready
        BY <3>1 DEF BindingRecords
      <3> HIDE DEF s
      <3> QED BY <3>1, <3>2
    <2>2. binding' = [binding EXCEPT ![b] = s]
      BY <1>1 DEF BindUnusable
    <2>3. binding \in [Bindings -> BindingRecords]
      BY DEF MappingInv, TypeOK
    <2> HIDE DEF s
    <2> QED BY <2>1, <2>2, <2>3
  <1>3. /\ ~HasPages(b) /\ ~HasPages(b)' /\ ~binding'[b].ready
        /\ \A c \in Bindings : c # b => /\ HasPages(c)' <=> HasPages(c)
                                        /\ Reservation(c)' = Reservation(c)
    BY <1>1, <1>2 DEF HasPages, NoBinding, Reservation
  <1>4. TypeOK' /\ ReservationsDisjoint' /\ IdentifiersOrdered'
    <2>1. ApertureTypeOK'
      BY <1>1 DEF MappingInv, TypeOK, ApertureTypeOK
    <2>2. Idle \in Calls
      BY EmptyTyped
    <2> QED BY <1>1, <1>2, <2>1, <2>2 DEF MappingInv, TypeOK, Entries,
                 ReservationsDisjoint, IdentifiersOrdered, IdentifiersUnique, End
  <1>5. ReservationsOwned'
    BY <1>1, <1>3 DEF MappingInv, ReservationsOwned
  <1>6. BindingsSeparate'
    BY <1>1, <1>2, <1>3 DEF MappingInv, BindingsSeparate
  <1>7. TranslationsBacked'
    <2>1. ASSUME NEW p \in Pages, NEW e, Backed(p, e) PROVE Backed(p, e)'
      BY <1>1, <1>2, <1>3, <2>1 DEF Backed
    <2> QED BY <1>1, <2>1 DEF MappingInv, TranslationsBacked
  <1>8. ReadyWritten'
    BY <1>1, <1>2, <1>3 DEF MappingInv, ReadyWritten, Written, Entry
  <1>9. CallProgress'
    BY <1>1 DEF CallProgress, Idle
  <1> QED BY <1>4, <1>5, <1>6, <1>7, <1>8, <1>9 DEF MappingInv

\* The binding the call in progress works on, and its pages.
LEMMA CallBinding ==
    ASSUME MappingInv, op.step # "idle"
    PROVE  \E b \in Bindings, k \in Nat :
             /\ op = [step |-> op.step, b |-> b, at |-> k] /\ op.b = b /\ op.at = k
             /\ HasPages(b)
             /\ binding[b].buffer \in mapped /\ binding[b].buffer \in Buffers
             /\ Reservation(b) \in records
             /\ binding[b].offset \in Nat /\ binding[b].size \in Nat \ {0}
             /\ Span(b) \subseteq Pages
  <1>1. op.b \in Bindings /\ HasPages(op.b) /\ op.at \in Nat
    BY DEF MappingInv, TypeOK, Calls, CallProgress
  <1>2. binding[op.b].buffer \in mapped /\ mapped \subseteq Buffers
    BY <1>1 DEF MappingInv, TypeOK, BindingsSeparate
  <1>3. Reservation(op.b) \in records
    BY <1>1 DEF MappingInv, ReservationsOwned
  <1>4. op = [step |-> op.step, b |-> op.b, at |-> op.at]
    BY DEF MappingInv, TypeOK, Calls
  <1>5. /\ binding[op.b].offset \in Nat /\ binding[op.b].size \in Nat \ {0}
        /\ Span(op.b) \subseteq Pages
    BY <1>1, SpanInside
  <1> QED BY <1>1, <1>2, <1>3, <1>4, <1>5

\* An entry is written inside the range of the binding it belongs to.
LEMMA WriteEntryKeeps ==
    ASSUME MappingInv, NEW ok \in BOOLEAN, NEW written \in BOOLEAN, WriteEntry(ok, written)
    PROVE  MappingInv'
  <1> USE ApertureAssumption, MappingAssumption DEF apertureVars
  <1>1. /\ op.step = "write" /\ (ok => written)
        /\ UNCHANGED <<apertureVars, binding, tlb, mapped, verified, window>>
    BY DEF WriteEntry
  <1>2. PICK b \in Bindings, k \in Nat :
          /\ op = [step |-> op.step, b |-> b, at |-> k] /\ op.b = b /\ op.at = k
          /\ HasPages(b)
          /\ binding[b].buffer \in mapped /\ binding[b].buffer \in Buffers
          /\ Reservation(b) \in records
          /\ binding[b].offset \in Nat /\ binding[b].size \in Nat \ {0}
          /\ Span(b) \subseteq Pages
    BY <1>1, CallBinding
  <1>3. k < binding[b].size /\ Written(b, k) /\ ~binding[b].ready
    BY <1>1, <1>2 DEF MappingInv, CallProgress
  <1>4. PICK at \in Pages : at = binding[b].offset + k /\ at \in Span(b)
    <2>1. binding[b].offset + k \in Span(b)
      BY <1>2, <1>3 DEF Span
    <2> QED BY <1>2, <2>1
  <1>5. /\ pte' \in [Pages -> Entries]
        /\ \A q \in Pages : q # at => pte'[q] = pte[q]
        /\ pte'[at] \in {pte[at], Entry(b, k)}
        /\ ok => pte'[at] = Entry(b, k)
    <2>1. Entry(b, k) \in Entries
      BY <1>2 DEF Entry, Entries
    <2>2. pte \in [Pages -> Entries]
      BY DEF MappingInv, TypeOK
    <2>3. pte' = IF written THEN [pte EXCEPT ![at] = Entry(b, k)] ELSE pte
      BY <1>2, <1>4 DEF WriteEntry, Entry
    <2> QED BY <1>1, <1>4, <2>1, <2>2, <2>3
  <1>6. /\ blocked' \in BOOLEAN
        /\ \/ op' = Idle
           \/ ok /\ k + 1 < binding[b].size /\ op' = [step |-> "write", b |-> b, at |-> k + 1]
           \/ ok /\ ~(k + 1 < binding[b].size) /\ op' = [step |-> "publish", b |-> b, at |-> 1]
    BY <1>2 DEF WriteEntry, At, Fail, MappingInv, TypeOK
  <1>7. TypeOK' /\ ReservationsDisjoint' /\ IdentifiersOrdered'
    <2>1. ApertureTypeOK'
      BY <1>1 DEF MappingInv, TypeOK, ApertureTypeOK
    <2>2. op' \in Calls
      BY <1>2, <1>6, EmptyTyped DEF Calls
    <2> QED BY <1>1, <1>5, <1>6, <2>1, <2>2 DEF MappingInv, TypeOK, Entries,
                 ReservationsDisjoint, IdentifiersOrdered, IdentifiersUnique, End
  <1>8. ReservationsOwned' /\ BindingsSeparate'
    BY <1>1 DEF MappingInv, ReservationsOwned, BindingsSeparate, HasPages, Reservation
  <1>9. TranslationsBacked'
    <2>1. \A q \in Pages : \A e : Backed(q, e)' <=> Backed(q, e)
      BY <1>1 DEF Backed, HasPages, Reservation
    <2>2. Entry(b, k).buffer = binding[b].buffer /\ Entry(b, k).page = k
      BY DEF Entry
    <2>3. Backed(at, Entry(b, k))
      BY <1>2, <1>3, <1>4, <2>2 DEF Backed
    <2>4. \A q \in Pages : /\ Backed(q, pte[q])
                           /\ \A h \in 1 .. Hubs : Backed(q, tlb[h][q])
      BY DEF MappingInv, TranslationsBacked
    <2>5. \A q \in Pages : Backed(q, pte'[q])
      BY <1>5, <2>3, <2>4
    <2> QED BY <1>1, <2>1, <2>4, <2>5 DEF TranslationsBacked
  <1>10. ReadyWritten'
    <2> SUFFICES ASSUME NEW c \in Bindings, binding[c].ready
                 PROVE  /\ HasPages(c)
                        /\ \A i \in 0 .. binding[c].size - 1 :
                             pte'[binding[c].offset + i] = Entry(c, i)
      BY <1>1 DEF ReadyWritten, HasPages, Written, Entry
    <2>1. HasPages(c) /\ Written(c, binding[c].size) /\ c # b
      BY <1>3 DEF MappingInv, ReadyWritten
    <2>2. ASSUME NEW i \in 0 .. binding[c].size - 1
          PROVE  pte'[binding[c].offset + i] = Entry(c, i)
      <3>1. binding[c].offset + i \in Span(c) /\ binding[c].offset + i \in Pages
        BY <2>1, SpanInside
      <3>2. binding[c].offset + i # at
        BY <1>2, <1>4, <2>1, <3>1, SpansDisjoint
      <3> QED BY <1>5, <2>1, <3>1, <3>2 DEF Written
    <2> QED BY <2>1, <2>2
  <1>11. CallProgress'
    <2>1. ASSUME ok PROVE Written(b, k + 1)'
      <3> SUFFICES ASSUME NEW i \in 0 .. k
                   PROVE  pte'[binding[b].offset + i] = Entry(b, i)
        BY <1>1, <1>2 DEF Written, Entry
      <3>1. CASE i = k
        BY <1>4, <1>5, <2>1, <3>1
      <3>2. CASE i # k
        <4>1. i \in 0 .. k - 1 /\ i \in 0 .. binding[b].size - 1
          BY <1>2, <1>3, <3>2
        <4>2. binding[b].offset + i \in Pages /\ binding[b].offset + i # at
          BY <1>2, <1>4, <3>2, <4>1, SpanInside
        <4> QED BY <1>3, <1>5, <4>1, <4>2 DEF Written
      <3> QED BY <3>1, <3>2
    <2>2. HasPages(b)' /\ ~binding'[b].ready /\ binding'[b].size = binding[b].size
      BY <1>1, <1>2, <1>3 DEF HasPages
    <2>3. CASE op' = Idle
      BY <2>3 DEF CallProgress, Idle
    <2>4. CASE ok /\ k + 1 < binding[b].size /\ op' = [step |-> "write", b |-> b, at |-> k + 1]
      <3>1. op'.step = "write" /\ op'.b = b /\ op'.at = k + 1
        BY <2>4
      <3> QED BY <2>1, <2>2, <2>4, <3>1 DEF CallProgress
    <2>5. CASE ok /\ ~(k + 1 < binding[b].size) /\ op' = [step |-> "publish", b |-> b, at |-> 1]
      <3>1. k + 1 = binding[b].size
        BY <1>2, <1>3, <2>5
      <3>2. op'.step = "publish" /\ op'.b = b /\ op'.at = 1 /\ 1 \in 1 .. Hubs
        BY <2>5
      <3>3. Written(b, binding[b].size)'
        BY <2>1, <2>2, <2>5, <3>1
      <3> QED BY <2>2, <3>2, <3>3 DEF CallProgress
    <2> QED BY <1>6, <2>3, <2>4, <2>5
  <1> QED BY <1>7, <1>8, <1>9, <1>10, <1>11 DEF MappingInv

\* Unbinding starts by withdrawing the address.
LEMMA WithdrawKeeps ==
    ASSUME MappingInv, NEW b \in Bindings, HasPages(b),
           binding' = [binding EXCEPT ![b].ready = FALSE],
           op' = [step |-> "clear", b |-> b, at |-> 0],
           UNCHANGED <<apertureVars, pte, tlb, mapped, verified, window, blocked>>
    PROVE  MappingInv'
  <1> USE DEF apertureVars
  <1>1. /\ \A c \in Bindings :
             /\ binding'[c].id = binding[c].id /\ binding'[c].offset = binding[c].offset
             /\ binding'[c].size = binding[c].size /\ binding'[c].mc = binding[c].mc
             /\ binding'[c].buffer = binding[c].buffer
             /\ binding'[c].ready => binding[c].ready
        /\ ~binding'[b].ready
        /\ binding' \in [Bindings -> BindingRecords]
    BY SetReady
  <1>2. \A c \in Bindings : /\ HasPages(c)' <=> HasPages(c)
                            /\ Reservation(c)' = Reservation(c)
                            /\ \A i : Entry(c, i)' = Entry(c, i)
    BY <1>1 DEF HasPages, Reservation, Entry
  <1>3. TypeOK' /\ ReservationsDisjoint' /\ IdentifiersOrdered'
    <2>1. ApertureTypeOK'
      BY DEF MappingInv, TypeOK, ApertureTypeOK
    <2>2. op' \in Calls
      BY DEF Calls
    <2> QED BY <1>1, <2>1, <2>2 DEF MappingInv, TypeOK, Entries,
                 ReservationsDisjoint, IdentifiersOrdered, IdentifiersUnique, End
  <1>4. ReservationsOwned'
    BY <1>2 DEF MappingInv, ReservationsOwned
  <1>5. BindingsSeparate'
    BY <1>1, <1>2 DEF MappingInv, BindingsSeparate
  <1>6. TranslationsBacked'
    <2>1. ASSUME NEW q \in Pages, NEW e, Backed(q, e) PROVE Backed(q, e)'
      BY <1>1, <1>2, <2>1 DEF Backed
    <2> QED BY <2>1 DEF MappingInv, TranslationsBacked
  <1>7. ReadyWritten'
    BY <1>1, <1>2 DEF MappingInv, ReadyWritten, Written
  <1>8. CallProgress'
    <2>1. op'.step = "clear" /\ op'.b = b
      OBVIOUS
    <2> QED BY <1>1, <1>2, <2>1 DEF CallProgress
  <1> QED BY <1>3, <1>4, <1>5, <1>6, <1>7, <1>8 DEF MappingInv

LEMMA BeginUnbindKeeps ==
    ASSUME MappingInv, NEW b \in Objects, BeginUnbind(b)
    PROVE  MappingInv'
  <1>1. b \in Bindings
    BY DEF Bindings
  <1> QED BY <1>1, WithdrawKeeps DEF BeginUnbind, At

\* The test withdraws its own binding; a failed test leaves it as it is.
LEMMA TransferKeeps ==
    ASSUME MappingInv, NEW ok \in BOOLEAN, Transfer(ok)
    PROVE  MappingInv'
  <1>1. CASE ok
    <2>1. op.step = "transfer" /\ op.b = Test /\ HasPages(op.b) /\ Test \in Bindings
      BY DEF Transfer, MappingInv, CallProgress, Bindings
    <2> QED BY <1>1, <2>1, WithdrawKeeps DEF Transfer, At
  <1>2. CASE ~ok
    <2>1. op' = Idle /\ blocked' \in BOOLEAN /\ verified' \in BOOLEAN
      BY <1>2 DEF Transfer, Fail, MappingInv, TypeOK
    <2> QED BY <1>2, <2>1, FailKeeps DEF Transfer
  <1> QED BY <1>1, <1>2

\* Clearing touches the entries of the binding that goes away and no others.
LEMMA ClearEntriesKeeps ==
    ASSUME MappingInv, NEW ok \in BOOLEAN, NEW upto \in 0 .. Size, ClearEntries(ok, upto)
    PROVE  MappingInv'
  <1> USE ApertureAssumption, MappingAssumption DEF apertureVars
  <1>1. /\ op.step = "clear"
        /\ UNCHANGED <<apertureVars, binding, tlb, mapped, verified, window>>
    BY DEF ClearEntries
  <1>2. PICK b \in Bindings, k \in Nat :
          /\ op = [step |-> op.step, b |-> b, at |-> k] /\ op.b = b /\ op.at = k
          /\ HasPages(b)
          /\ binding[b].buffer \in mapped /\ binding[b].buffer \in Buffers
          /\ Reservation(b) \in records
          /\ binding[b].offset \in Nat /\ binding[b].size \in Nat \ {0}
          /\ Span(b) \subseteq Pages
    BY <1>1, CallBinding
  <1>3. ~binding[b].ready
    BY <1>1, <1>2 DEF MappingInv, CallProgress
  <1>4. PICK last \in 0 .. binding[b].size :
          /\ pte' = [p \in Pages |-> IF p \in binding[b].offset .. binding[b].offset + last - 1
                                       THEN NoEntry ELSE pte[p]]
          /\ ok => last = binding[b].size
    <2>1. CASE ok
      BY <1>2, <2>1 DEF ClearEntries
    <2>2. CASE ~ok
      BY <1>2, <2>2 DEF ClearEntries
    <2> QED BY <2>1, <2>2
  <1>5. /\ pte' \in [Pages -> Entries]
        /\ \A q \in Pages : q \notin Span(b) => pte'[q] = pte[q]
        /\ \A q \in Pages : pte'[q] \in {pte[q], NoEntry}
        /\ ok => \A q \in Span(b) : pte'[q] = NoEntry
    <2>1. pte \in [Pages -> Entries] /\ NoEntry \in Entries
      BY DEF MappingInv, TypeOK, Entries
    <2>2. binding[b].offset .. binding[b].offset + last - 1 \subseteq Span(b)
      BY <1>2 DEF Span
    <2>3. ok => binding[b].offset .. binding[b].offset + last - 1 = Span(b)
      BY <1>4 DEF Span
    <2> QED BY <1>2, <1>4, <2>1, <2>2, <2>3
  <1>6. /\ blocked' \in BOOLEAN
        /\ \/ op' = Idle
           \/ ok /\ op' = [step |-> "retract", b |-> b, at |-> 1]
    BY <1>2 DEF ClearEntries, At, Fail, MappingInv, TypeOK
  <1>7. TypeOK' /\ ReservationsDisjoint' /\ IdentifiersOrdered'
    <2>1. ApertureTypeOK'
      BY <1>1 DEF MappingInv, TypeOK, ApertureTypeOK
    <2>2. op' \in Calls
      BY <1>2, <1>6, EmptyTyped DEF Calls
    <2> QED BY <1>1, <1>5, <1>6, <2>1, <2>2 DEF MappingInv, TypeOK, Entries,
                 ReservationsDisjoint, IdentifiersOrdered, IdentifiersUnique, End
  <1>8. ReservationsOwned' /\ BindingsSeparate'
    BY <1>1 DEF MappingInv, ReservationsOwned, BindingsSeparate, HasPages, Reservation
  <1>9. TranslationsBacked'
    <2>1. \A q \in Pages : \A e : Backed(q, e)' <=> Backed(q, e)
      BY <1>1 DEF Backed, HasPages, Reservation
    <2>2. \A q \in Pages : /\ Backed(q, pte[q]) /\ Backed(q, NoEntry)
                           /\ \A h \in 1 .. Hubs : Backed(q, tlb[h][q])
      BY DEF MappingInv, TranslationsBacked, Backed
    <2>3. \A q \in Pages : Backed(q, pte'[q])
      BY <1>5, <2>2
    <2> QED BY <1>1, <2>1, <2>2, <2>3 DEF TranslationsBacked
  <1>10. ReadyWritten'
    <2> SUFFICES ASSUME NEW c \in Bindings, binding[c].ready
                 PROVE  /\ HasPages(c)
                        /\ \A i \in 0 .. binding[c].size - 1 :
                             pte'[binding[c].offset + i] = Entry(c, i)
      BY <1>1 DEF ReadyWritten, HasPages, Written, Entry
    <2>1. HasPages(c) /\ Written(c, binding[c].size) /\ c # b
      BY <1>3 DEF MappingInv, ReadyWritten
    <2>2. ASSUME NEW i \in 0 .. binding[c].size - 1
          PROVE  pte'[binding[c].offset + i] = Entry(c, i)
      <3>1. binding[c].offset + i \in Span(c) /\ binding[c].offset + i \in Pages
        BY <2>1, SpanInside
      <3>2. binding[c].offset + i \notin Span(b)
        BY <1>2, <2>1, <3>1, SpansDisjoint
      <3> QED BY <1>5, <2>1, <3>1, <3>2 DEF Written
    <2> QED BY <2>1, <2>2
  <1>11. CallProgress'
    <2>1. CASE op' = Idle
      BY <2>1 DEF CallProgress, Idle
    <2>2. CASE ok /\ op' = [step |-> "retract", b |-> b, at |-> 1]
      <3>1. op'.step = "retract" /\ op'.b = b /\ op'.at = 1 /\ 1 \in 1 .. Hubs
        BY <2>2
      <3>2. HasPages(b)' /\ ~binding'[b].ready
        BY <1>1, <1>2, <1>3 DEF HasPages
      <3>3. Cleared(pte, b)'
        BY <1>1, <1>5, <2>2 DEF Cleared, Span
      <3>4. 1 .. 1 - 1 = {}
        OBVIOUS
      <3> QED BY <3>1, <3>2, <3>3, <3>4 DEF CallProgress
    <2> QED BY <1>6, <2>1, <2>2
  <1> QED BY <1>7, <1>8, <1>9, <1>10, <1>11 DEF MappingInv

\* An invalidation only takes cached entries away; the last one makes a new
\* binding ready, whose entries are all written.
LEMMA InvalidateKeeps ==
    ASSUME MappingInv, NEW ok \in BOOLEAN, NEW flushed \in BOOLEAN, Invalidate(ok, flushed)
    PROVE  MappingInv'
  <1> USE ApertureAssumption, MappingAssumption DEF apertureVars
  <1>1. /\ op.step \in {"publish", "retract"} /\ (ok => flushed)
        /\ UNCHANGED <<apertureVars, pte, mapped, verified, window>>
    BY DEF Invalidate
  <1>2. PICK b \in Bindings, k \in Nat :
          /\ op = [step |-> op.step, b |-> b, at |-> k] /\ op.b = b /\ op.at = k
          /\ HasPages(b)
          /\ binding[b].buffer \in mapped /\ binding[b].buffer \in Buffers
          /\ Reservation(b) \in records
          /\ binding[b].offset \in Nat /\ binding[b].size \in Nat \ {0}
          /\ Span(b) \subseteq Pages
    BY <1>1, CallBinding
  <1>3. k \in 1 .. Hubs /\ ~binding[b].ready
    BY <1>1, <1>2 DEF MappingInv, CallProgress
  <1>4. /\ tlb' \in [1 .. Hubs -> [Pages -> Entries]]
        /\ \A g \in 1 .. Hubs, q \in Pages : tlb'[g][q] \in {tlb[g][q], NoEntry}
        /\ \A g \in 1 .. Hubs : g # k => tlb'[g] = tlb[g]
        /\ ok => \A q \in Pages : tlb'[k][q] = NoEntry
    <2>1. tlb \in [1 .. Hubs -> [Pages -> Entries]] /\ NoEntry \in Entries
      BY DEF MappingInv, TypeOK, Entries
    <2>2. tlb' = IF flushed THEN [tlb EXCEPT ![k] = [p \in Pages |-> NoEntry]] ELSE tlb
      BY <1>2 DEF Invalidate
    <2> QED BY <1>1, <1>3, <2>1, <2>2
  <1>5. /\ blocked' \in BOOLEAN
        /\ \/ op' = Idle /\ binding' = binding
           \/ ok /\ k < Hubs /\ binding' = binding
              /\ op' = [step |-> op.step, b |-> b, at |-> k + 1]
           \/ ok /\ ~(k < Hubs) /\ op.step = "retract" /\ binding' = binding
              /\ op' = [step |-> "complete", b |-> b, at |-> 0]
           \/ ok /\ op.step = "publish" /\ binding' = [binding EXCEPT ![b].ready = TRUE]
              /\ \/ op' = Idle
                 \/ b = Test /\ op' = [step |-> "transfer", b |-> b, at |-> 0]
    BY <1>1, <1>2 DEF Invalidate, At, Fail, MappingInv, TypeOK
  <1>6. /\ \A c \in Bindings :
             /\ binding'[c].id = binding[c].id /\ binding'[c].offset = binding[c].offset
             /\ binding'[c].size = binding[c].size /\ binding'[c].mc = binding[c].mc
             /\ binding'[c].buffer = binding[c].buffer
             /\ binding'[c].ready => binding[c].ready \/ (c = b /\ op.step = "publish")
        /\ binding' \in [Bindings -> BindingRecords]
    <2>1. CASE binding' = binding
      BY <2>1 DEF MappingInv, TypeOK
    <2>2. CASE op.step = "publish" /\ binding' = [binding EXCEPT ![b].ready = TRUE]
      <3>1. /\ binding' \in [Bindings -> BindingRecords]
            /\ \A c \in Bindings : c # b => binding'[c] = binding[c]
            /\ binding'[b].id = binding[b].id /\ binding'[b].offset = binding[b].offset
            /\ binding'[b].size = binding[b].size /\ binding'[b].mc = binding[b].mc
            /\ binding'[b].buffer = binding[b].buffer
        BY <2>2, SetReady
      <3> QED BY <2>2, <3>1
    <2> QED BY <1>5, <2>1, <2>2
  <1>7. \A c \in Bindings : /\ HasPages(c)' <=> HasPages(c)
                            /\ Reservation(c)' = Reservation(c)
                            /\ \A i : Entry(c, i)' = Entry(c, i)
                            /\ Span(c)' = Span(c)
    BY <1>6 DEF HasPages, Reservation, Entry, Span
  <1>8. TypeOK' /\ ReservationsDisjoint' /\ IdentifiersOrdered'
    <2>1. ApertureTypeOK'
      BY <1>1 DEF MappingInv, TypeOK, ApertureTypeOK
    <2>2. op' \in Calls
      BY <1>1, <1>2, <1>5, EmptyTyped DEF Calls
    <2> QED BY <1>1, <1>4, <1>5, <1>6, <2>1, <2>2 DEF MappingInv, TypeOK, Entries,
                 ReservationsDisjoint, IdentifiersOrdered, IdentifiersUnique, End
  <1>9. ReservationsOwned'
    BY <1>1, <1>7 DEF MappingInv, ReservationsOwned
  <1>10. BindingsSeparate'
    BY <1>1, <1>6, <1>7 DEF MappingInv, BindingsSeparate
  <1>11. TranslationsBacked'
    <2>1. ASSUME NEW q \in Pages, NEW e, Backed(q, e) PROVE Backed(q, e)'
      BY <1>1, <1>6, <1>7, <2>1 DEF Backed
    <2>2. \A q \in Pages : /\ Backed(q, pte[q]) /\ Backed(q, NoEntry)
                           /\ \A h \in 1 .. Hubs : Backed(q, tlb[h][q])
      BY DEF MappingInv, TranslationsBacked, Backed
    <2>3. \A q \in Pages, h \in 1 .. Hubs : Backed(q, tlb'[h][q])
      BY <1>4, <2>2
    <2> QED BY <1>1, <2>1, <2>2, <2>3 DEF TranslationsBacked
  <1>12. ReadyWritten'
    <2>1. op.step = "publish" => Written(b, binding[b].size)
      BY <1>2 DEF MappingInv, CallProgress
    <2>2. \A c \in Bindings : binding'[c].ready => HasPages(c) /\ Written(c, binding[c].size)
      BY <1>2, <1>6, <2>1 DEF MappingInv, ReadyWritten
    <2> QED BY <1>1, <1>6, <1>7, <2>2 DEF ReadyWritten, Written
  <1>13. CallProgress'
    <2>1. op.step = "publish" => Written(b, binding[b].size)
      BY <1>2 DEF MappingInv, CallProgress
    <2>2. ASSUME op.step = "retract"
          PROVE  /\ Cleared(pte, b)' /\ \A g \in 1 .. k - 1 : Cleared(tlb[g], b)'
      <3>1. Cleared(pte, b) /\ \A g \in 1 .. k - 1 : Cleared(tlb[g], b)
        BY <1>2, <2>2 DEF MappingInv, CallProgress
      <3>2. \A g \in 1 .. k - 1 : g \in 1 .. Hubs /\ g # k
        BY <1>3
      <3>3. \A g \in 1 .. k - 1 : tlb'[g] = tlb[g]
        BY <1>4, <3>2
      <3> QED BY <1>1, <1>7, <3>1, <3>3 DEF Cleared
    <2>3. ASSUME ok PROVE Cleared(tlb[k], b)'
      BY <1>2, <1>4, <1>7, <2>3 DEF Cleared
    <2>4. HasPages(b)'
      BY <1>2, <1>7
    <2>5. CASE op' = Idle
      BY <2>5 DEF CallProgress, Idle
    <2>6. CASE ok /\ k < Hubs /\ binding' = binding
               /\ op' = [step |-> op.step, b |-> b, at |-> k + 1]
      <3>1. op'.step = op.step /\ op'.b = b /\ op'.at = k + 1 /\ k + 1 \in 1 .. Hubs
        BY <1>3, <2>6
      <3>2. ~binding'[b].ready
        BY <1>3, <2>6
      <3>3. CASE op.step = "publish"
        <4>1. Written(b, binding[b].size)'
          BY <1>1, <2>1, <2>6, <3>3 DEF Written, Entry
        <4> QED BY <2>4, <3>1, <3>2, <3>3, <4>1 DEF CallProgress
      <3>4. CASE op.step = "retract"
        <4>1. \A g \in 1 .. (k + 1) - 1 : g = k \/ g \in 1 .. k - 1
          BY <1>3
        <4>2. \A g \in 1 .. (k + 1) - 1 : Cleared(tlb[g], b)'
          BY <2>2, <2>3, <2>6, <3>4, <4>1
        <4> QED BY <2>2, <2>4, <3>1, <3>2, <3>4, <4>2 DEF CallProgress
      <3> QED BY <1>1, <3>3, <3>4
    <2>7. CASE ok /\ ~(k < Hubs) /\ op.step = "retract" /\ binding' = binding
               /\ op' = [step |-> "complete", b |-> b, at |-> 0]
      <3>1. op'.step = "complete" /\ op'.b = b
        BY <2>7
      <3>2. ~binding'[b].ready
        BY <1>3, <2>7
      <3>3. \A g \in 1 .. Hubs : g = k \/ g \in 1 .. k - 1
        BY <1>3, <2>7
      <3>4. \A g \in 1 .. Hubs : Cleared(tlb[g], b)'
        BY <2>2, <2>3, <2>7, <3>3
      <3> QED BY <2>2, <2>4, <2>7, <3>1, <3>2, <3>4 DEF CallProgress
    <2>8. CASE b = Test /\ op' = [step |-> "transfer", b |-> b, at |-> 0]
      <3>1. op'.step = "transfer" /\ op'.b = b
        BY <2>8
      <3> QED BY <2>4, <2>8, <3>1 DEF CallProgress
    <2> QED BY <1>5, <2>5, <2>6, <2>7, <2>8
  <1> QED BY <1>8, <1>9, <1>10, <1>11, <1>12, <1>13 DEF MappingInv

\* Memory and range are given back only when no table leads to them.
LEMMA CompleteKeeps == MappingInv /\ Complete => MappingInv'
  <1> SUFFICES ASSUME MappingInv, Complete PROVE MappingInv'
    OBVIOUS
  <1> USE ApertureAssumption, MappingAssumption
  <1>1. op.step = "complete" /\ op' = Idle /\ UNCHANGED <<pte, tlb, window, blocked>>
    BY DEF Complete
  <1>2. PICK b \in Bindings, k \in Nat :
          /\ op = [step |-> op.step, b |-> b, at |-> k] /\ op.b = b /\ op.at = k
          /\ HasPages(b)
          /\ binding[b].buffer \in mapped /\ binding[b].buffer \in Buffers
          /\ Reservation(b) \in records
          /\ binding[b].offset \in Nat /\ binding[b].size \in Nat \ {0}
          /\ Span(b) \subseteq Pages
    BY <1>1, CallBinding
  <1>3. Cleared(pte, b) /\ \A h \in 1 .. Hubs : Cleared(tlb[h], b)
    BY <1>1, <1>2 DEF MappingInv, CallProgress
  <1>4. /\ mapped' = mapped \ {binding[b].buffer} /\ Release(Reservation(b))
        /\ binding' = [binding EXCEPT ![b] = NoBinding] /\ verified' \in BOOLEAN
    BY <1>2 DEF Complete, MappingInv, TypeOK
  <1>5. ApertureTypeOK' /\ ReservationsDisjoint' /\ IdentifiersOrdered'
    BY <1>4, ReleaseKeeps DEF MappingInv, TypeOK
  <1>6. /\ records' = records \ {Reservation(b)} /\ base' = base
        /\ binding'[b] = NoBinding
        /\ \A c \in Bindings : c # b => binding'[c] = binding[c]
    BY <1>4 DEF Release, MappingInv, TypeOK
  <1>7. TypeOK'
    <2>1. NoBinding \in BindingRecords
      BY EmptyTyped
    <2>2. binding' \in [Bindings -> BindingRecords]
      BY <1>4, <2>1 DEF MappingInv, TypeOK
    <2>3. Idle \in Calls
      BY EmptyTyped
    <2> QED BY <1>1, <1>4, <1>5, <2>2, <2>3 DEF MappingInv, TypeOK, Entries
  <1>8. /\ ~HasPages(b)' /\ ~binding'[b].ready
        /\ \A c \in Bindings : c # b => /\ HasPages(c)' <=> HasPages(c)
                                        /\ Reservation(c)' = Reservation(c)
        /\ \A c \in Bindings : c # b /\ HasPages(c) =>
             /\ Reservation(c) # Reservation(b) /\ binding[c].buffer # binding[b].buffer
    <2>1. ~HasPages(b)' /\ ~binding'[b].ready
      BY <1>6 DEF HasPages, NoBinding
    <2>2. \A c \in Bindings : c # b => /\ HasPages(c)' <=> HasPages(c)
                                       /\ Reservation(c)' = Reservation(c)
      BY <1>6 DEF HasPages, Reservation
    <2>3. \A c \in Bindings : c # b /\ HasPages(c) =>
             /\ Reservation(c) # Reservation(b) /\ binding[c].buffer # binding[b].buffer
      BY <1>2 DEF MappingInv, BindingsSeparate, Reservation
    <2> QED BY <2>1, <2>2, <2>3
  <1>9. ReservationsOwned'
    <2>1. records = {Reservation(c) : c \in {d \in Bindings : HasPages(d)}}
      BY DEF MappingInv, ReservationsOwned
    <2> QED BY <1>6, <1>8, <2>1 DEF ReservationsOwned
  <1>10. BindingsSeparate'
    BY <1>4, <1>6, <1>8 DEF MappingInv, BindingsSeparate
  <1>11. TranslationsBacked'
    <2>1. ASSUME NEW q \in Pages, NEW e, Backed(q, e), e \in Entries,
                 q \in Span(b) => e = NoEntry
          PROVE  Backed(q, e)'
      <3> SUFFICES ASSUME e # NoEntry PROVE Backed(q, e)'
        BY DEF Backed
      <3>1. PICK c \in Bindings :
              /\ HasPages(c) /\ Reservation(c) \in records
              /\ binding[c].buffer = e.buffer
              /\ q = binding[c].offset + e.page /\ e.page < binding[c].size
        BY <2>1 DEF Backed
      <3>2. e.page \in Nat
        BY <2>1 DEF Entries
      <3>3. q \in Span(c)
        BY <3>1, <3>2, SpanInside DEF Span
      <3>4. c # b
        BY <2>1, <3>3
      <3> QED BY <1>4, <1>6, <1>8, <2>1, <3>1, <3>4 DEF Backed
    <2>2. \A q \in Pages : /\ Backed(q, pte[q]) /\ pte[q] \in Entries
                           /\ q \in Span(b) => pte[q] = NoEntry
      BY <1>3 DEF MappingInv, TranslationsBacked, TypeOK, Cleared
    <2>3. \A q \in Pages, h \in 1 .. Hubs : /\ Backed(q, tlb[h][q]) /\ tlb[h][q] \in Entries
                                            /\ q \in Span(b) => tlb[h][q] = NoEntry
      BY <1>3 DEF MappingInv, TranslationsBacked, TypeOK, Cleared
    <2> QED BY <1>1, <2>1, <2>2, <2>3 DEF TranslationsBacked
  <1>12. ReadyWritten'
    BY <1>1, <1>6, <1>8 DEF MappingInv, ReadyWritten, Written, Entry
  <1>13. CallProgress'
    BY <1>1 DEF CallProgress, Idle
  <1> QED BY <1>5, <1>7, <1>9, <1>10, <1>11, <1>12, <1>13 DEF MappingInv

LEMMA NextKeeps == MappingInv /\ [Next]_vars => MappingInv'
  <1> SUFFICES ASSUME MappingInv, [Next]_vars PROVE MappingInv'
    OBVIOUS
  <1>1. CASE UNCHANGED vars
    <2> USE <1>1 DEF vars, gartVars, apertureVars
    <2>1. ApertureTypeOK' /\ ReservationsDisjoint' /\ IdentifiersOrdered'
      BY DEF MappingInv, TypeOK, ApertureTypeOK, ReservationsDisjoint, End,
         IdentifiersOrdered, IdentifiersUnique
    <2>2. TypeOK'
      BY <2>1 DEF MappingInv, TypeOK, Entries
    <2>3. ReservationsOwned' /\ BindingsSeparate'
      BY DEF MappingInv, ReservationsOwned, Reservation, HasPages, BindingsSeparate
    <2>4. TranslationsBacked'
      BY DEF MappingInv, TranslationsBacked, Backed, HasPages, Reservation
    <2>5. ReadyWritten'
      BY DEF MappingInv, ReadyWritten, Written, Entry, HasPages
    <2>6. CallProgress'
      BY DEF MappingInv, CallProgress, HasPages, Written, Entry, Cleared, Span
    <2> QED BY <2>1, <2>2, <2>3, <2>4, <2>5, <2>6 DEF MappingInv
  <1>2. CASE \E b \in Bindings, n \in Requests, al \in Alignments, m \in Buffers :
               BeginBind(b, n, al, m)
    BY <1>2, BeginBindKeeps
  <1>3. CASE \E b \in Bindings, m \in Buffers : BindUnusable(b, m)
    BY <1>3, BindUnusableKeeps
  <1>4. CASE BindRefused
    BY <1>4, BindRefusedKeeps
  <1>5. CASE \E ok, done \in BOOLEAN : WriteEntry(ok, done) \/ Invalidate(ok, done)
    BY <1>5, WriteEntryKeeps, InvalidateKeeps
  <1>6. CASE \E b \in Objects : BeginUnbind(b)
    BY <1>6, BeginUnbindKeeps
  <1>7. CASE \E ok \in BOOLEAN, upto \in 0 .. Size : ClearEntries(ok, upto)
    BY <1>7, ClearEntriesKeeps
  <1>8. CASE \E ok \in BOOLEAN : Transfer(ok)
    BY <1>8, TransferKeeps
  <1>9. CASE Complete \/ CompleteFails
    BY <1>9, CompleteKeeps, CompleteFailsKeeps
  <1>10. CASE \E b \in Bases, ok \in BOOLEAN : HostWindow(b, ok)
    BY <1>10, HostWindowKeeps
  <1>11. CASE \E h \in 1 .. Hubs, p \in Pages : Walk(h, p)
    BY <1>11, WalkKeeps
  <1>12. CASE Block \/ Reset
    BY <1>12, BlockKeeps, ResetKeeps
  <1> QED BY <1>1, <1>2, <1>3, <1>4, <1>5, <1>6, <1>7, <1>8, <1>9, <1>10, <1>11, <1>12
          DEF Next

-----------------------------------------------------------------------------
\* What a hub may have cached for a page of a ready binding is that page's entry.
LEMMA ReadyTranslates == MappingInv => AddressesTranslate
  <1> SUFFICES ASSUME MappingInv, NEW b \in Bindings, binding[b].ready,
                      NEW i \in 0 .. binding[b].size - 1
               PROVE  LET p == binding[b].mc + i - base
                          entry == [buffer |-> binding[b].buffer, page |-> i] IN
                      /\ p \in Pages /\ pte[p] = entry
                      /\ \A h \in 1 .. Hubs : tlb[h][p] \in {NoEntry, entry}
    BY DEF AddressesTranslate
  <1>1. HasPages(b) /\ Written(b, binding[b].size)
    BY DEF MappingInv, ReadyWritten
  <1>2. /\ binding[b].offset \in Nat /\ binding[b].offset + i \in Span(b)
        /\ Span(b) \subseteq Pages
    BY <1>1, SpanInside
  <1>3. base \in Nat /\ binding[b].mc = base + binding[b].offset
    BY <1>1, ApertureAssumption DEF MappingInv, TypeOK, ApertureTypeOK, BindingsSeparate
  <1>4. PICK p \in Pages : p = binding[b].offset + i /\ p \in Span(b)
    BY <1>2
  <1>5. binding[b].mc + i - base = p
    BY <1>2, <1>3, <1>4
  <1>6. pte[p] = Entry(b, i)
    BY <1>1, <1>4 DEF Written
  <1>7. ASSUME NEW h \in 1 .. Hubs PROVE tlb[h][p] \in {NoEntry, Entry(b, i)}
    <2> SUFFICES ASSUME tlb[h][p] # NoEntry PROVE tlb[h][p] = Entry(b, i)
      OBVIOUS
    <2>1. tlb[h][p] \in [buffer : Buffers, page : Nat]
      <3>1. tlb[h][p] \in Entries
        BY DEF MappingInv, TypeOK
      <3> QED BY <3>1 DEF Entries
    <2>2. PICK c \in Bindings :
            /\ HasPages(c) /\ binding[c].buffer = tlb[h][p].buffer
            /\ p = binding[c].offset + tlb[h][p].page /\ tlb[h][p].page < binding[c].size
      BY DEF MappingInv, TranslationsBacked, Backed
    <2>3. p \in Span(c) /\ binding[c].offset \in Nat
      BY <2>1, <2>2, SpanInside DEF Span
    <2>4. c = b
      BY <1>1, <1>4, <2>2, <2>3, SpansDisjoint
    <2>5. tlb[h][p].page = i
      BY <1>2, <1>4, <2>1, <2>2, <2>4
    <2>6. tlb[h][p] = [buffer |-> tlb[h][p].buffer, page |-> tlb[h][p].page]
      BY <2>1
    <2> QED BY <2>2, <2>4, <2>5, <2>6 DEF Entry
  <1> QED BY <1>4, <1>5, <1>6, <1>7 DEF Entry

\* The inductive invariant holds for every aperture, table size, set of buffers
\* and bindings and number of hubs.
THEOREM MappingSafe == Spec => []MappingInv
  <1> QED BY InitKeeps, NextKeeps, PTL DEF Spec

\* Whatever a hub has cached or may walk to is mapped memory of the binding
\* that reserved the page, at every failure of gart_bind_sysmem and gart_unbind.
THEOREM TranslationsSafe == Spec => []TranslationsBacked
  <1>1. MappingInv => TranslationsBacked
    BY DEF MappingInv
  <1> QED BY <1>1, MappingSafe, PTL

\* The address of a ready binding leads to its buffer on every hub.
THEOREM AddressesSafe == Spec => []AddressesTranslate
  <1> QED BY ReadyTranslates, MappingSafe, PTL

\* Reservations lie in the aperture and never share a page.
THEOREM ReservationsSafe == Spec => []ReservationsDisjoint
  <1>1. MappingInv => ReservationsDisjoint
    BY DEF MappingInv
  <1> QED BY <1>1, MappingSafe, PTL

\* The table of reservations is exactly what the bindings hold: nothing leaks.
THEOREM ReservationsExact == Spec => []ReservationsOwned
  <1>1. MappingInv => ReservationsOwned
    BY DEF MappingInv
  <1> QED BY <1>1, MappingSafe, PTL

\* In every state the bind paths reach, find() returns the lowest aligned hole of
\* the aperture and fails only when there is none or the table or the
\* identifiers are used up.
THEOREM SearchExact == Spec => []FindExact
  <1>1. MappingInv => TableOK
    BY DEF MappingInv, TypeOK, ReservationsDisjoint, TableOK
  <1> QED BY <1>1, TableFindExact, MappingSafe, PTL

\* Reservations, page tables, caches and bindings agree, at every step of
\* gart_bind_sysmem and gart_unbind and after every failure of one.
THEOREM MappingsSafe == Spec => []MappingsExact
  <1>1. MappingInv => TypeOK
    BY DEF MappingInv
  <1> QED BY <1>1, MappingSafe, TranslationsSafe, AddressesSafe, ReservationsSafe,
             ReservationsExact, PTL
          DEF MappingsExact
=============================================================================
