--------------------------- MODULE DataPathProofs ---------------------------
(***************************************************************************)
(* Proofs about buffers and the bytes the system moves and reads: staged   *)
(* transfers (StagedTransfer), copies and fills (RuntimeCopy), the walk    *)
(* through the discovery binary (Discovery), the buffer tables of the      *)
(* driver's clients (ClientBuffers), the payloads of a firmware file       *)
(* (FirmwareFiles) and the code objects of the runtime (CodeObjects).  For *)
(* each of them an inductive invariant and the theorems about the          *)
(* specification.                                                          *)
(***************************************************************************)
EXTENDS StagedTransfer, RuntimeCopy, Discovery, ClientBuffers, FirmwareFiles, CodeObjects,
        FiniteSetTheorems, WellFoundedInduction, TLAPS

-----------------------------------------------------------------------------
(* Staged transfers                                                        *)

\* Division with remainder by a positive number.
LEMMA DivMod ==
    ASSUME NEW n \in Nat, NEW d \in Nat \ {0}
    PROVE  /\ n \div d \in Nat /\ n % d \in 0 .. d - 1
           /\ n = d * (n \div d) + (n % d)
OBVIOUS

\* Of two multiples of d, one that is less than d beyond the other is not beyond it.
LEMMA MultiplesApart ==
    ASSUME NEW d \in Nat \ {0}, NEW i \in Nat, NEW j \in Nat, d * i < d * j + d
    PROVE  d * i <= d * j
<1>1. CASE i <= j
  BY <1>1
<1>2. CASE i >= j + 1
  <2>1. PICK k \in Nat : i = j + 1 + k
    BY <1>2
  <2>2. d * i = d * j + d + d * k /\ d * k \in Nat /\ d * j \in Nat
    BY <2>1
  <2> QED
    BY <2>2
<1> QED
  BY <1>1, <1>2

\* A number rounded up to a multiple of d.
RoundUp(n, d) == ((n + d - 1) \div d) * d

\* It is the multiple at or less than d beyond the number.
LEMMA RoundedUp ==
    ASSUME NEW n \in Nat, NEW d \in Nat \ {0}
    PROVE  /\ RoundUp(n, d) \in Nat /\ RoundUp(n, d) >= n /\ RoundUp(n, d) < n + d
           /\ \E k \in Nat : RoundUp(n, d) = d * k
<1> DEFINE q == (n + d - 1) \div d
<1>1. q \in Nat /\ (n + d - 1) % d \in 0 .. d - 1 /\ n + d - 1 = d * q + ((n + d - 1) % d)
  <2>1. n + d - 1 \in Nat
    OBVIOUS
  <2> QED
    BY <2>1, DivMod
<1>2. d * q \in Nat /\ RoundUp(n, d) = d * q
  BY <1>1 DEF RoundUp
<1> HIDE DEF q
<1>3. RoundUp(n, d) >= n /\ RoundUp(n, d) < n + d
  BY <1>1, <1>2
<1> QED
  BY <1>1, <1>2, <1>3

\* The transfer as asked for; how far it is; and the uploaded bytes, which are the caller's.
Transfers == {c \in [at : {"moving", "done", "failed", "readFailed", "writeFailed"}, upload : BOOLEAN, offset : 0 .. BufferBytes - 1,
                     bytes : 1 .. BufferBytes] : c.offset + c.bytes <= BufferBytes}

TransferTypes ==
    /\ call \in Transfers
    /\ moved \in 0 .. call.bytes
    /\ call.at # "done" => moved < call.bytes
    /\ content \in [0 .. BufferBytes - 1 -> Nat]
    /\ staged \in [0 .. ChunkBytes - 1 -> Nat]
    /\ userBytes \in [0 .. BufferBytes - 1 -> Nat]
    /\ call.upload => userBytes = Uploaded

\* The byte that byte j of the buffer is once what is moved is done, and with the piece underway too.
DoneByte(j) == IF call.upload /\ j >= call.offset /\ j < call.offset + moved
               THEN Uploaded[j - call.offset] ELSE OriginalContent[j]
PieceByte(j) == IF j >= call.offset + moved /\ j < call.offset + moved + PieceBytes
                THEN Uploaded[j - call.offset] ELSE DoneByte(j)

\* The first two parts of the property: what has been moved so far.
MovedSoFar ==
    /\ \A j \in 0 .. BufferBytes - 1 : content[j] = DoneByte(j) \/ (InFailedPiece(j) /\ content[j] = Uploaded[j - call.offset])
    /\ ~call.upload => \A k \in 0 .. moved - 1 : userBytes[k] = OriginalContent[call.offset + k]

\* What a copy out of the staging buffer that was reported as failed can still write.
FailedPieceStaged ==
    call.at = "writeFailed" => call.upload /\ \A i \in 0 .. DwordSpan - 1 : staged[i] = PieceByte(Aligned + i)

TransferInv == TransferTypes /\ MovedSoFar /\ FailedPieceStaged

\* The numbers of one piece: it makes progress, stays within what was asked for, fits the staging
\* buffer, and the dwords around it are in the buffer.
LEMMA PieceFits ==
    ASSUME TransferTypes, call.at # "done"
    PROVE  /\ Prefix \in Nat /\ Aligned \in Nat /\ PieceBytes \in Nat \ {0} /\ DwordSpan \in Nat
           /\ Aligned + Prefix = call.offset + moved
           /\ moved + PieceBytes <= call.bytes
           /\ Prefix + PieceBytes <= DwordSpan
           /\ DwordSpan <= ChunkBytes
           /\ Aligned + DwordSpan <= BufferBytes
<1> DEFINE o == call.offset + moved
<1>1. /\ call.offset \in Nat /\ call.bytes \in Nat /\ moved \in Nat /\ moved < call.bytes
      /\ call.offset + call.bytes <= BufferBytes /\ o \in Nat
  BY TransferAssumption DEF TransferTypes, Transfers
<1>2. Dword \in Nat \ {0} /\ ChunkBytes \in Nat \ {0} /\ BufferBytes \in Nat \ {0}
  BY TransferAssumption
<1>3. PICK c \in Nat : ChunkBytes = Dword * c
  <2>1. ChunkBytes \div Dword \in Nat /\ ChunkBytes = Dword * (ChunkBytes \div Dword) + (ChunkBytes % Dword)
    BY <1>2, DivMod
  <2>2. ChunkBytes = Dword * (ChunkBytes \div Dword)
    BY <1>2, <2>1, TransferAssumption
  <2> QED
    BY <2>1, <2>2
<1>4. PICK b \in Nat : BufferBytes = Dword * b
  <2>1. BufferBytes \div Dword \in Nat /\ BufferBytes = Dword * (BufferBytes \div Dword) + (BufferBytes % Dword)
    BY <1>2, DivMod
  <2>2. BufferBytes = Dword * (BufferBytes \div Dword)
    BY <1>2, <2>1, TransferAssumption
  <2> QED
    BY <2>1, <2>2
<1>5. PICK a \in Nat : Prefix \in 0 .. Dword - 1 /\ o = Dword * a + Prefix
  BY <1>1, <1>2, DivMod DEF Prefix
<1>6. Aligned = Dword * a /\ Aligned \in Nat /\ Aligned + Prefix = o
  BY <1>1, <1>2, <1>5 DEF Aligned
<1>7. Prefix < ChunkBytes
  <2>1. Dword * 1 < ChunkBytes + Dword
    BY <1>2
  <2>2. Dword * 1 <= Dword * c
    BY <1>2, <1>3, <2>1, MultiplesApart
  <2> QED
    BY <1>2, <1>3, <1>5, <2>2
<1>8. /\ PieceBytes \in Nat \ {0} /\ moved + PieceBytes <= call.bytes
      /\ Prefix + PieceBytes <= ChunkBytes
  BY <1>1, <1>2, <1>5, <1>7 DEF PieceBytes
<1>9. /\ DwordSpan \in Nat /\ DwordSpan >= Prefix + PieceBytes /\ DwordSpan < Prefix + PieceBytes + Dword
      /\ \E k \in Nat : DwordSpan = Dword * k
  <2>1. Prefix + PieceBytes \in Nat
    BY <1>2, <1>5, <1>8
  <2>2. DwordSpan = RoundUp(Prefix + PieceBytes, Dword)
    BY DEF DwordSpan, RoundUp
  <2> QED
    BY <1>2, <2>1, <2>2, RoundedUp
<1>10. PICK k \in Nat : DwordSpan = Dword * k
  BY <1>9
<1>11. DwordSpan <= ChunkBytes
  <2>1. Dword * k < Dword * c + Dword
    BY <1>2, <1>3, <1>5, <1>8, <1>9, <1>10
  <2> QED
    BY <1>2, <1>3, <1>10, <2>1, MultiplesApart
<1>12. Aligned + DwordSpan <= BufferBytes
  <2>1. Aligned + DwordSpan = Dword * (a + k) /\ a + k \in Nat
    BY <1>2, <1>6, <1>10
  <2>2. Dword * (a + k) < Dword * b + Dword
    <3> HIDE DEF o
    <3>1. Aligned + DwordSpan < Aligned + Prefix + PieceBytes + Dword
      BY <1>2, <1>5, <1>6, <1>8, <1>9
    <3>2. Aligned + Prefix + PieceBytes <= BufferBytes
      BY <1>1, <1>2, <1>5, <1>6, <1>8 DEF o
    <3> QED
      BY <1>2, <1>4, <1>5, <1>6, <1>8, <1>9, <2>1, <3>1, <3>2
  <2> QED
    BY <1>2, <1>4, <2>1, <2>2, MultiplesApart
<1> QED
  BY <1>5, <1>6, <1>8, <1>9, <1>11, <1>12

\* The staging buffer as a copy into it leaves it, and with the caller's bytes of the piece in it.
LEMMA StagedBytes ==
    ASSUME TransferInv, call.at = "moving"
    PROVE  /\ CopiedIn \in [0 .. ChunkBytes - 1 -> Nat]
           /\ \A i \in 0 .. ChunkBytes - 1 : CopiedIn[i] = IF ReadFirst /\ i < DwordSpan THEN content[Aligned + i] ELSE staged[i]
           /\ call.upload => /\ Patched \in [0 .. ChunkBytes - 1 -> Nat]
                             /\ \A i \in 0 .. DwordSpan - 1 : Patched[i] = PieceByte(Aligned + i)
<1>0. TransferTypes /\ call.at # "done"
  BY DEF TransferInv
<1>1. /\ Prefix \in Nat /\ Aligned \in Nat /\ PieceBytes \in Nat \ {0} /\ DwordSpan \in Nat
      /\ Aligned + Prefix = call.offset + moved
      /\ moved + PieceBytes <= call.bytes
      /\ Prefix + PieceBytes <= DwordSpan
      /\ DwordSpan <= ChunkBytes
      /\ Aligned + DwordSpan <= BufferBytes
  BY <1>0, PieceFits
<1>2. /\ call.offset \in Nat /\ call.bytes \in Nat /\ moved \in Nat
      /\ call.offset + call.bytes <= BufferBytes
      /\ BufferBytes \in Nat \ {0} /\ ChunkBytes \in Nat \ {0}
  BY <1>0, TransferAssumption DEF TransferTypes, Transfers
<1>3. /\ content \in [0 .. BufferBytes - 1 -> Nat] /\ staged \in [0 .. ChunkBytes - 1 -> Nat]
      /\ userBytes \in [0 .. BufferBytes - 1 -> Nat]
      /\ \A j \in 0 .. BufferBytes - 1 : content[j] = DoneByte(j)
  BY <1>0 DEF TransferInv, TransferTypes, MovedSoFar, InFailedPiece
<1>4. /\ CopiedIn \in [0 .. ChunkBytes - 1 -> Nat]
      /\ \A i \in 0 .. ChunkBytes - 1 : CopiedIn[i] = IF ReadFirst /\ i < DwordSpan THEN content[Aligned + i] ELSE staged[i]
  BY <1>1, <1>2, <1>3, SMTT(30) DEF CopiedIn
<1>5. ASSUME call.upload
      PROVE  /\ Patched \in [0 .. ChunkBytes - 1 -> Nat]
             /\ \A i \in 0 .. DwordSpan - 1 : Patched[i] = PieceByte(Aligned + i)
  <2>1. \A i \in 0 .. ChunkBytes - 1 : i >= Prefix /\ i < Prefix + PieceBytes => moved + i - Prefix \in 0 .. BufferBytes - 1
    BY <1>1, <1>2
  <2>2. /\ Patched \in [0 .. ChunkBytes - 1 -> Nat]
        /\ \A i \in 0 .. ChunkBytes - 1 : Patched[i] =
              IF i >= Prefix /\ i < Prefix + PieceBytes THEN userBytes[moved + i - Prefix] ELSE CopiedIn[i]
    BY <1>2, <1>3, <1>4, <2>1 DEF Patched
  <2>3. ASSUME NEW i \in 0 .. DwordSpan - 1
        PROVE  Patched[i] = PieceByte(Aligned + i)
    <3>0. i \in 0 .. ChunkBytes - 1 /\ Aligned + i \in 0 .. BufferBytes - 1
      BY <1>1, <1>2
    <3>1. CASE i >= Prefix /\ i < Prefix + PieceBytes
      <4>1. Patched[i] = userBytes[moved + i - Prefix] /\ userBytes = Uploaded
        BY <1>0, <1>5, <2>2, <3>0, <3>1 DEF TransferTypes
      <4>2. moved + i - Prefix = (Aligned + i) - call.offset
        BY <1>1, <1>2, <3>0
      <4>3. Aligned + i >= call.offset + moved /\ Aligned + i < call.offset + moved + PieceBytes
        BY <1>1, <1>2, <3>0, <3>1
      <4>4. PieceByte(Aligned + i) = Uploaded[(Aligned + i) - call.offset]
        BY <4>3 DEF PieceByte
      <4> QED
        BY <4>1, <4>2, <4>4
    <3>2. CASE ~(i >= Prefix /\ i < Prefix + PieceBytes)
      <4>1. ReadFirst
        BY <1>1, <3>2 DEF ReadFirst
      <4>2. Patched[i] = content[Aligned + i]
        BY <1>1, <1>4, <2>2, <3>0, <3>2, <4>1
      <4>3. ~(Aligned + i >= call.offset + moved /\ Aligned + i < call.offset + moved + PieceBytes)
        BY <1>1, <1>2, <3>0, <3>2
      <4> QED
        BY <1>3, <3>0, <4>2, <4>3 DEF PieceByte
    <3> QED
      BY <3>1, <3>2
  <2> QED
    BY <2>2, <2>3
<1> QED
  BY <1>4, <1>5

\* One piece of a transfer: the bytes around it in its first and last dword come back as they were.
LEMMA PieceKeeps ==
    ASSUME TransferInv, TransferPiece
    PROVE  TransferInv'
<1>0. TransferTypes /\ call.at = "moving"
  BY DEF TransferInv, TransferPiece
<1>1. /\ Prefix \in Nat /\ Aligned \in Nat /\ PieceBytes \in Nat \ {0} /\ DwordSpan \in Nat
      /\ Aligned + Prefix = call.offset + moved
      /\ moved + PieceBytes <= call.bytes
      /\ Prefix + PieceBytes <= DwordSpan
      /\ DwordSpan <= ChunkBytes
      /\ Aligned + DwordSpan <= BufferBytes
  BY <1>0, PieceFits
<1>2. /\ call.offset \in Nat /\ call.bytes \in Nat /\ moved \in Nat
      /\ call.offset + call.bytes <= BufferBytes
      /\ BufferBytes \in Nat \ {0} /\ ChunkBytes \in Nat \ {0}
  BY <1>0, TransferAssumption DEF TransferTypes, Transfers
<1>8. /\ call \in Transfers /\ call.upload \in BOOLEAN
      /\ content \in [0 .. BufferBytes - 1 -> Nat] /\ staged \in [0 .. ChunkBytes - 1 -> Nat]
      /\ userBytes \in [0 .. BufferBytes - 1 -> Nat]
  BY <1>0, TransferAssumption DEF TransferTypes, Transfers
<1>3. /\ call' \in Transfers /\ call'.offset = call.offset /\ call'.bytes = call.bytes /\ call'.upload = call.upload
      /\ call'.at = IF moved + PieceBytes = call.bytes THEN "done" ELSE "moving"
      /\ moved' = moved + PieceBytes
  <2>1. call' = [call EXCEPT !.at = IF moved + PieceBytes = call.bytes THEN "done" ELSE "moving"]
        /\ moved' = moved + PieceBytes
    BY DEF TransferPiece
  <2> QED
    BY <1>8, <2>1 DEF Transfers
<1>4. moved' \in 0 .. call'.bytes /\ (call'.at = "moving" => moved' < call'.bytes)
  BY <1>1, <1>2, <1>3
<1>5. /\ CopiedIn \in [0 .. ChunkBytes - 1 -> Nat]
      /\ \A i \in 0 .. ChunkBytes - 1 : CopiedIn[i] = IF ReadFirst /\ i < DwordSpan THEN content[Aligned + i] ELSE staged[i]
      /\ call.upload => /\ Patched \in [0 .. ChunkBytes - 1 -> Nat]
                        /\ \A i \in 0 .. DwordSpan - 1 : Patched[i] = PieceByte(Aligned + i)
  BY <1>0, StagedBytes
<1>9. \A j \in 0 .. BufferBytes - 1 : content[j] = DoneByte(j)
  BY <1>0 DEF TransferInv, MovedSoFar, InFailedPiece
<1>6. CASE call.upload
  <2>2. /\ staged' = Patched /\ userBytes' = userBytes /\ userBytes = Uploaded
        /\ content' = [j \in 0 .. BufferBytes - 1 |->
                          IF j >= Aligned /\ j < Aligned + DwordSpan THEN Patched[j - Aligned] ELSE content[j]]
    BY <1>0, <1>6 DEF TransferPiece, TransferTypes
  <2>3. ASSUME NEW j \in 0 .. BufferBytes - 1
        PROVE  content'[j] = PieceByte(j)
    <3>1. CASE j >= Aligned /\ j < Aligned + DwordSpan
      <4>1. j - Aligned \in 0 .. DwordSpan - 1 /\ Aligned + (j - Aligned) = j
        BY <1>1, <3>1
      <4>2. content'[j] = Patched[j - Aligned]
        BY <2>2, <3>1
      <4> QED
        BY <1>5, <1>6, <4>1, <4>2
    <3>2. CASE ~(j >= Aligned /\ j < Aligned + DwordSpan)
      <4>1. content'[j] = content[j]
        BY <2>2, <3>2
      <4>2. ~(j >= call.offset + moved /\ j < call.offset + moved + PieceBytes)
        BY <1>1, <1>2, <3>2
      <4> QED
        BY <1>9, <4>1, <4>2 DEF PieceByte
    <3> QED
      BY <3>1, <3>2
  <2>4. content' \in [0 .. BufferBytes - 1 -> Nat]
    <3>1. \A j \in 0 .. BufferBytes - 1 : j >= Aligned /\ j < Aligned + DwordSpan => j - Aligned \in 0 .. ChunkBytes - 1
      BY <1>1, <1>2
    <3> QED
      BY <1>5, <1>6, <1>8, <2>2, <3>1
  <2>5. TransferTypes'
    BY <1>5, <1>6, <1>8, <1>3, <1>4, <2>2, <2>4 DEF TransferTypes, Uploaded
  <2>6. MovedSoFar'
    <3>1. ASSUME NEW j \in 0 .. BufferBytes - 1
          PROVE  content'[j] = IF call'.upload /\ j >= call'.offset /\ j < call'.offset + moved'
                               THEN Uploaded[j - call'.offset] ELSE OriginalContent[j]
      <4>1. call'.upload /\ call'.offset = call.offset /\ call'.offset + moved' = call.offset + moved + PieceBytes
        BY <1>1, <1>2, <1>3, <1>6
      <4>3. PieceByte(j) = IF j >= call.offset /\ j < call.offset + moved + PieceBytes
                           THEN Uploaded[j - call.offset] ELSE OriginalContent[j]
        BY <1>1, <1>2, <1>6 DEF PieceByte, DoneByte
      <4> QED
        BY <2>3, <4>1, <4>3
    <3> QED
      BY <1>3, <1>6, <3>1 DEF MovedSoFar, DoneByte, Uploaded, OriginalContent
  <2>7. FailedPieceStaged'
    BY <1>3 DEF FailedPieceStaged
  <2> QED
    BY <2>5, <2>6, <2>7 DEF TransferInv
<1>7. CASE ~call.upload
  <2>1. /\ staged' = CopiedIn /\ UNCHANGED content
        /\ userBytes' = [j \in 0 .. BufferBytes - 1 |->
                         IF j >= moved /\ j < moved + PieceBytes THEN CopiedIn[Prefix + j - moved] ELSE userBytes[j]]
    BY <1>7 DEF TransferPiece
  <2>2. \A j \in 0 .. BufferBytes - 1 : j >= moved /\ j < moved + PieceBytes =>
            Prefix + j - moved \in 0 .. ChunkBytes - 1
    BY <1>1, <1>2
  <2>3. userBytes' \in [0 .. BufferBytes - 1 -> Nat]
    BY <1>5, <1>8, <2>1, <2>2
  <2>4. TransferTypes'
    BY <1>8, <1>3, <1>4, <1>5, <1>7, <2>1, <2>3 DEF TransferTypes
  <2>5. \A j \in 0 .. BufferBytes - 1 : content[j] = OriginalContent[j]
    BY <1>7, <1>9 DEF DoneByte
  <2>6. ASSUME NEW k \in 0 .. moved + PieceBytes - 1
        PROVE  userBytes'[k] = OriginalContent[call.offset + k]
    <3>0. k \in 0 .. BufferBytes - 1 /\ call.offset + k \in 0 .. BufferBytes - 1
      BY <1>1, <1>2
    <3>1. CASE k < moved
      <4>1. userBytes[k] = OriginalContent[call.offset + k]
        BY <1>2, <1>7, <3>1 DEF TransferInv, MovedSoFar
      <4> QED
        BY <1>2, <2>1, <3>0, <3>1, <4>1
    <3>2. CASE k >= moved
      <4>1. userBytes'[k] = CopiedIn[Prefix + k - moved]
        BY <1>1, <1>2, <2>1, <3>0, <3>2
      <4>2. Prefix + k - moved < DwordSpan /\ Prefix + k - moved \in 0 .. ChunkBytes - 1
        BY <1>1, <1>2, <3>2
      <4>3. CopiedIn[Prefix + k - moved] = content[Aligned + (Prefix + k - moved)]
        BY <1>5, <1>7, <4>2 DEF ReadFirst
      <4>4. Aligned + (Prefix + k - moved) = call.offset + k
        BY <1>1, <1>2
      <4> QED
        BY <2>5, <3>0, <4>1, <4>3, <4>4
    <3> QED
      BY <1>2, <3>1, <3>2
  <2>7. MovedSoFar'
    <3>1. \A j \in 0 .. BufferBytes - 1 : content'[j] =
              IF call'.upload /\ j >= call'.offset /\ j < call'.offset + moved'
              THEN Uploaded[j - call'.offset] ELSE OriginalContent[j]
      BY <1>3, <1>7, <2>1, <2>5
    <3>2. \A k \in 0 .. moved' - 1 : userBytes'[k] = OriginalContent[call'.offset + k]
      <4>1. moved' = moved + PieceBytes /\ call'.offset = call.offset
        BY <1>3
      <4> QED
        BY <1>1, <1>2, <2>6, <4>1
    <3> QED
      BY <1>3, <1>7, <3>1, <3>2 DEF MovedSoFar, DoneByte, Uploaded, OriginalContent
  <2>8. FailedPieceStaged'
    BY <1>3 DEF FailedPieceStaged
  <2> QED
    BY <2>4, <2>7, <2>8 DEF TransferInv
<1> QED
  BY <1>6, <1>7

\* A failure: what was copied out of the staging buffer is what the piece will hold.
LEMMA FailureKeeps ==
    ASSUME TransferInv, TransferFails
    PROVE  TransferInv'
<1>0. TransferTypes /\ call.at = "moving" /\ call \in Transfers
  BY DEF TransferInv, TransferTypes, TransferFails
<1>1. /\ CopiedIn \in [0 .. ChunkBytes - 1 -> Nat]
      /\ call.upload => /\ Patched \in [0 .. ChunkBytes - 1 -> Nat]
                        /\ \A i \in 0 .. DwordSpan - 1 : Patched[i] = PieceByte(Aligned + i)
  BY <1>0, StagedBytes
<1>2. PICK a \in {"failed", "readFailed", "writeFailed"} : call' = [call EXCEPT !.at = a]
  BY DEF TransferFails
<1>3. /\ call' \in Transfers /\ call'.offset = call.offset /\ call'.bytes = call.bytes
      /\ call'.upload = call.upload /\ call'.at = a /\ UNCHANGED <<moved, content, userBytes>>
  BY <1>0, <1>2 DEF TransferFails, Transfers
<1>4. a = "writeFailed" => call.upload /\ staged' = Patched
  BY <1>0, <1>3 DEF TransferFails, Transfers
<1>5. staged' \in [0 .. ChunkBytes - 1 -> Nat]
  BY <1>0, <1>1 DEF TransferFails, TransferTypes
<1>6. TransferTypes'
  BY <1>0, <1>3, <1>5 DEF TransferTypes, Uploaded
<1>7. MovedSoFar'
  BY <1>0, <1>3 DEF TransferInv, MovedSoFar, InFailedPiece, DoneByte, Uploaded, OriginalContent
<1>8. FailedPieceStaged'
  <2>1. DwordSpan' = DwordSpan /\ Aligned' = Aligned /\ PieceBytes' = PieceBytes
    BY <1>3 DEF DwordSpan, Aligned, PieceBytes, Prefix
  <2>2. \A j : PieceByte(j)' = PieceByte(j)
    BY <1>3, <2>1 DEF PieceByte, DoneByte, Uploaded, OriginalContent
  <2> QED
    BY <1>1, <1>3, <1>4, <2>1, <2>2 DEF FailedPieceStaged
<1> QED
  BY <1>6, <1>7, <1>8 DEF TransferInv

\* A failed copy that runs on writes nothing but the piece, and around it what was there.
LEMMA RunningOnKeeps ==
    ASSUME TransferInv, CopyRunsOn
    PROVE  TransferInv'
<1>0. TransferTypes /\ call.at \in {"readFailed", "writeFailed"} /\ UNCHANGED <<call, moved, userBytes>>
  BY DEF TransferInv, CopyRunsOn
<1>1. /\ Prefix \in Nat /\ Aligned \in Nat /\ PieceBytes \in Nat \ {0} /\ DwordSpan \in Nat
      /\ Aligned + Prefix = call.offset + moved
      /\ moved + PieceBytes <= call.bytes
      /\ Prefix + PieceBytes <= DwordSpan
      /\ DwordSpan <= ChunkBytes
      /\ Aligned + DwordSpan <= BufferBytes
  BY <1>0, PieceFits
<1>2. /\ Dword \in Nat \ {0} /\ BufferBytes \in Nat \ {0} /\ ChunkBytes \in Nat \ {0}
      /\ call.offset \in Nat /\ call.bytes \in Nat /\ moved \in Nat /\ call.offset + call.bytes <= BufferBytes
      /\ content \in [0 .. BufferBytes - 1 -> Nat] /\ staged \in [0 .. ChunkBytes - 1 -> Nat]
  BY <1>0, TransferAssumption DEF TransferTypes, Transfers
<1>3. PICK d \in {i \in 0 .. DwordSpan - 1 : i % Dword = 0} :
        \/ /\ call.at = "readFailed"
           /\ staged' = [i \in 0 .. ChunkBytes - 1 |-> IF i >= d /\ i < d + Dword THEN content[Aligned + i] ELSE staged[i]]
           /\ UNCHANGED content
        \/ /\ call.at = "writeFailed"
           /\ content' = [j \in 0 .. BufferBytes - 1 |->
                             IF j >= Aligned + d /\ j < Aligned + d + Dword THEN staged[j - Aligned] ELSE content[j]]
           /\ UNCHANGED staged
  BY DEF CopyRunsOn
<1>4. d + Dword <= DwordSpan /\ d \in Nat
  <2>1. Prefix + PieceBytes \in Nat
    BY <1>1
  <2>2. PICK k \in Nat : DwordSpan = Dword * k
    BY <1>2, <2>1, RoundedUp DEF DwordSpan, RoundUp
  <2>3. d \in Nat /\ d < DwordSpan /\ d % Dword = 0
    BY <1>1, <1>3
  <2>4. d \div Dword \in Nat /\ d = Dword * (d \div Dword)
    <3>1. d \div Dword \in Nat /\ d = Dword * (d \div Dword) + (d % Dword)
      BY <1>2, <2>3, DivMod
    <3> QED
      BY <1>2, <2>3, <3>1
  <2>5. PICK c \in Nat : d = Dword * c
    BY <2>4
  <2>6. Dword * (c + 1) = d + Dword /\ c + 1 \in Nat
    <3>1. \A n \in Nat : Dword * (n + 1) = Dword * n + Dword
      BY <1>2
    <3> QED
      BY <2>5, <3>1
  <2>7. Dword * (c + 1) < Dword * k + Dword
    <3>1. d + Dword < DwordSpan + Dword
      BY <1>1, <1>2, <2>3
    <3> QED
      BY <2>2, <2>6, <3>1
  <2>8. Dword * (c + 1) <= Dword * k
    BY <1>2, <2>6, <2>7, MultiplesApart
  <2> QED
    BY <2>2, <2>3, <2>6, <2>8
<1>5. DwordSpan' = DwordSpan /\ Aligned' = Aligned /\ PieceBytes' = PieceBytes
  BY <1>0 DEF DwordSpan, Aligned, PieceBytes, Prefix
<1>6. \A j : /\ DoneByte(j)' = DoneByte(j) /\ PieceByte(j)' = PieceByte(j)
             /\ InFailedPiece(j)' = InFailedPiece(j) /\ Uploaded' = Uploaded
  BY <1>0, <1>5 DEF PieceByte, DoneByte, Uploaded, OriginalContent, InFailedPiece
<1>7. CASE call.at = "readFailed"
  <2>1. /\ staged' = [i \in 0 .. ChunkBytes - 1 |-> IF i >= d /\ i < d + Dword THEN content[Aligned + i] ELSE staged[i]]
        /\ UNCHANGED content
    BY <1>3, <1>7
  <2>2. \A i \in 0 .. ChunkBytes - 1 : i >= d /\ i < d + Dword => Aligned + i \in 0 .. BufferBytes - 1
    BY <1>1, <1>2, <1>4
  <2>3. staged' \in [0 .. ChunkBytes - 1 -> Nat]
    BY <1>2, <2>1, <2>2
  <2>4. TransferTypes'
    BY <1>0, <2>1, <2>3 DEF TransferTypes, Uploaded
  <2>5. MovedSoFar'
    BY <1>0, <1>6, <2>1 DEF TransferInv, MovedSoFar, OriginalContent
  <2> QED
    BY <1>0, <1>7, <2>4, <2>5 DEF TransferInv, FailedPieceStaged
<1>8. CASE call.at = "writeFailed"
  <2>1. /\ content' = [j \in 0 .. BufferBytes - 1 |->
                          IF j >= Aligned + d /\ j < Aligned + d + Dword THEN staged[j - Aligned] ELSE content[j]]
        /\ UNCHANGED staged
    BY <1>3, <1>8
  <2>2. \A j \in 0 .. BufferBytes - 1 : j >= Aligned + d /\ j < Aligned + d + Dword =>
            j - Aligned \in 0 .. ChunkBytes - 1 /\ j - Aligned \in 0 .. DwordSpan - 1 /\ Aligned + (j - Aligned) = j
    BY <1>1, <1>2, <1>4
  <2>3. content' \in [0 .. BufferBytes - 1 -> Nat]
    BY <1>2, <2>1, <2>2
  <2>4. TransferTypes'
    BY <1>0, <2>1, <2>3 DEF TransferTypes, Uploaded
  <2>5. ASSUME NEW j \in 0 .. BufferBytes - 1
        PROVE  content'[j] = DoneByte(j) \/ (InFailedPiece(j) /\ content'[j] = Uploaded[j - call.offset])
    <3>1. CASE j >= Aligned + d /\ j < Aligned + d + Dword
      <4>1. content'[j] = PieceByte(j)
        BY <1>8, <2>1, <2>2, <3>1 DEF TransferInv, FailedPieceStaged
      <4>2. InFailedPiece(j) => PieceByte(j) = Uploaded[j - call.offset]
        BY DEF PieceByte, InFailedPiece
      <4>3. ~InFailedPiece(j) => PieceByte(j) = DoneByte(j)
        BY <1>8 DEF PieceByte, InFailedPiece
      <4> QED
        BY <4>1, <4>2, <4>3
    <3>2. CASE ~(j >= Aligned + d /\ j < Aligned + d + Dword)
      <4>1. content'[j] = content[j]
        BY <2>1, <3>2
      <4> QED
        BY <4>1 DEF TransferInv, MovedSoFar
    <3> QED
      BY <3>1, <3>2
  <2>6. MovedSoFar'
    BY <1>0, <1>6, <1>8, <2>5 DEF TransferInv, MovedSoFar, FailedPieceStaged, OriginalContent
  <2>7. FailedPieceStaged'
    BY <1>0, <1>5, <1>6, <2>1 DEF TransferInv, FailedPieceStaged
  <2> QED
    BY <2>4, <2>6, <2>7 DEF TransferInv
<1> QED
  BY <1>0, <1>7, <1>8

\* The invariant of a transfer holds of every behaviour (transfer of transport_iokit.cpp).
THEOREM TransferSafe == TransferSpec => []TransferInv
<1> USE TransferAssumption
<1>1. TransferInit => TransferInv
  <2> SUFFICES ASSUME TransferInit PROVE TransferInv
    OBVIOUS
  <2>1. call \in Transfers /\ moved = 0 /\ call.at = "moving" /\ call.bytes \in Nat \ {0} /\ call.offset \in Nat
    BY DEF TransferInit, Transfers
  <2>2. TransferTypes
    BY <2>1, SMTT(30) DEF TransferInit, TransferTypes, OriginalContent, Uploaded
  <2>3. MovedSoFar
    <3>1. \A j \in 0 .. BufferBytes - 1 : DoneByte(j) = OriginalContent[j]
      BY <2>1 DEF DoneByte
    <3> QED
      BY <2>1, <3>1 DEF TransferInit, MovedSoFar
  <2>4. FailedPieceStaged
    BY <2>1 DEF FailedPieceStaged
  <2> QED
    BY <2>2, <2>3, <2>4 DEF TransferInv
<1>2. TransferInv /\ [TransferNext]_transferVars => TransferInv'
  <2> SUFFICES ASSUME TransferInv, [TransferNext]_transferVars PROVE TransferInv'
    OBVIOUS
  <2>1. CASE UNCHANGED transferVars
    <3>1. TransferTypes'
      BY <2>1 DEF transferVars, TransferInv, TransferTypes, Uploaded
    <3>2. DwordSpan' = DwordSpan /\ Aligned' = Aligned /\ PieceBytes' = PieceBytes
      BY <2>1 DEF transferVars, DwordSpan, Aligned, PieceBytes, Prefix
    <3>3. MovedSoFar'
      BY <2>1, <3>2 DEF transferVars, TransferInv, MovedSoFar, DoneByte, InFailedPiece, Uploaded, OriginalContent
    <3>4. FailedPieceStaged'
      BY <2>1, <3>2 DEF transferVars, TransferInv, FailedPieceStaged, PieceByte, DoneByte, Uploaded, OriginalContent
    <3> QED
      BY <3>1, <3>3, <3>4 DEF TransferInv
  <2> QED
    BY <2>1, PieceKeeps, FailureKeeps, RunningOnKeeps DEF TransferNext
<1> QED
  BY <1>1, <1>2, PTL DEF TransferSpec

\* A transfer moves the caller's bytes and no others, and each driver copy is of whole dwords inside
\* both buffers: for every size of dword, staging buffer and GPU buffer, offset and length.
THEOREM TransfersExact == TransferSpec => []TransferExact
<1>1. TransferInv => TransferExact
  <2> SUFFICES ASSUME TransferInv PROVE TransferExact
    OBVIOUS
  <2>1. call.offset \in Nat /\ moved \in Nat
    BY TransferAssumption DEF TransferInv, TransferTypes, Transfers
  <2>2. \A j \in 0 .. BufferBytes - 1 :
          IF call.upload /\ j >= call.offset /\ j < call.offset + moved
          THEN content[j] = Uploaded[j - call.offset]
          ELSE \/ content[j] = OriginalContent[j]
               \/ InFailedPiece(j) /\ content[j] = Uploaded[j - call.offset]
    BY <2>1 DEF TransferInv, MovedSoFar, InFailedPiece, DoneByte
  <2>3. call.at # "done" => Aligned + DwordSpan <= BufferBytes /\ DwordSpan <= ChunkBytes
    BY PieceFits DEF TransferInv
  <2> QED
    BY <2>2, <2>3 DEF TransferInv, MovedSoFar, TransferExact
<1> QED
  BY <1>1, TransferSafe, PTL

-----------------------------------------------------------------------------
(* Copies and fills                                                        *)

Requests ==
    {r \in [op : {"copy", "fill"}, at : {"ready", "done", "failed"}, src : Buffers, srcOffset : 0 .. Length - 1,
            dst : Buffers, dstOffset : 0 .. Length - 1, size : 1 .. Length,
            on : [Buffers -> GPUNames \union {"host"}]] :
        /\ r.srcOffset + r.size <= Length /\ r.dstOffset + r.size <= Length
        /\ r.op = "fill" => r.src = r.dst /\ r.srcOffset = r.dstOffset}

\* The part of the destination that is done after c bytes: its beginning, or its end when the
\* pieces are taken from the back.
Done(i, c) ==
    LET from == request.dstOffset + (IF Backwards THEN request.size - c ELSE 0)
    IN  i >= from /\ i < from + c

\* The byte that belongs at place i of the destination.
Byte(i) == IF request.op = "copy" THEN Original[request.src][request.srcOffset + i - request.dstOffset] ELSE 0

\* The first c bytes are done, and everything else is as it was.
Reached(c) ==
    \A b \in Buffers, i \in 0 .. Length - 1 :
        contents[b][i] = IF b = request.dst /\ Done(i, c) THEN Byte(i) ELSE Original[b][i]

\* Nothing but the destination has changed.
OutsideKept ==
    \A b \in Buffers, i \in 0 .. Length - 1 :
        ~(b = request.dst /\ i >= request.dstOffset /\ i < request.dstOffset + request.size)
            => contents[b][i] = Original[b][i]

HostEnd == request.on[request.src] = "host" \/ request.on[request.dst] = "host"

CopyInv ==
    /\ request \in Requests
    /\ completed \in 0 .. request.size
    /\ contents \in [Buffers -> [0 .. Length - 1 -> Nat]]
    /\ request.at = "ready" => /\ completed < request.size /\ Reached(completed)
                               /\ HostEnd => completed = 0
    /\ request.at = "done" => Reached(request.size)
    /\ OutsideKept

\* The fields of a request and what they bound.
LEMMA RequestFields ==
    ASSUME request \in Requests
    PROVE  /\ Length \in Nat /\ Staging \in Nat \ {0} /\ MaxCopy \in Nat \ {0}
           /\ request.srcOffset \in Nat /\ request.dstOffset \in Nat /\ request.size \in Nat \ {0}
           /\ request.srcOffset + request.size <= Length /\ request.dstOffset + request.size <= Length
           /\ request.src \in Buffers /\ request.dst \in Buffers
           /\ request.op \in {"copy", "fill"} /\ request.at \in {"ready", "done", "failed"}
           /\ request.op = "fill" => request.src = request.dst /\ request.srcOffset = request.dstOffset
BY CopyAssumption DEF Requests

\* Only the outcome of a request changes.
LEMMA OutcomeOnly ==
    ASSUME request \in Requests, NEW outcome \in {"done", "failed"}, Finish(outcome) \/ UNCHANGED request
    PROVE  /\ request' \in Requests
           /\ request'.op = request.op /\ request'.on = request.on /\ request'.size = request.size
           /\ request'.src = request.src /\ request'.srcOffset = request.srcOffset
           /\ request'.dst = request.dst /\ request'.dstOffset = request.dstOffset
           /\ Finish(outcome) => request'.at = outcome
           /\ Backwards' <=> Backwards
           /\ HostEnd' <=> HostEnd
           /\ \A i, c : Done(i, c)' <=> Done(i, c)
           /\ \A i : Byte(i)' = Byte(i)
<1>1. /\ request' \in Requests
      /\ request'.op = request.op /\ request'.on = request.on /\ request'.size = request.size
      /\ request'.src = request.src /\ request'.srcOffset = request.srcOffset
      /\ request'.dst = request.dst /\ request'.dstOffset = request.dstOffset
      /\ Finish(outcome) => request'.at = outcome
  BY DEF Finish, Requests
<1>2. (Backwards' <=> Backwards) /\ (HostEnd' <=> HostEnd)
  BY <1>1 DEF Backwards, OneGPU, HostEnd
<1>3. \A i, c : Done(i, c)' <=> Done(i, c)
  BY <1>1, <1>2 DEF Done
<1>4. \A i : Byte(i)' = Byte(i)
  BY <1>1 DEF Byte, Original
<1> QED
  BY <1>1, <1>2, <1>3, <1>4

\* The contents after a driver call that has put n bytes right, `off` bytes into the destination.
PutRight(off, n) ==
    /\ contents' \in [Buffers -> [0 .. Length - 1 -> Nat]]
    /\ \A b \in Buffers, i \in 0 .. Length - 1 :
          contents'[b][i] = IF b = request.dst /\ i >= request.dstOffset + off /\ i < request.dstOffset + off + n
                            THEN Byte(i) ELSE contents[b][i]

\* A move of n bytes puts them right if the source still has its own bytes there.
LEMMA MoveIsRight ==
    ASSUME CopyInv, request.op = "copy", NEW off \in Nat, NEW n \in Nat, off + n <= request.size,
           contents' = Moved(contents, request.src, request.srcOffset + off, request.dst, request.dstOffset + off, n),
           \A i \in 0 .. Length - 1 : i >= request.dstOffset + off /\ i < request.dstOffset + off + n =>
               contents[request.src][request.srcOffset + i - request.dstOffset]
                   = Original[request.src][request.srcOffset + i - request.dstOffset]
    PROVE  PutRight(off, n)
<1>1. /\ Length \in Nat /\ request.srcOffset \in Nat /\ request.dstOffset \in Nat /\ request.size \in Nat
      /\ request.srcOffset + request.size <= Length /\ request.dstOffset + request.size <= Length
      /\ request.src \in Buffers /\ request.dst \in Buffers
  BY RequestFields DEF CopyInv
<1>2. contents \in [Buffers -> [0 .. Length - 1 -> Nat]]
  BY DEF CopyInv
<1> DEFINE g == [i \in 0 .. Length - 1 |->
                    IF i >= request.dstOffset + off /\ i < request.dstOffset + off + n
                    THEN contents[request.src][(request.srcOffset + off) + i - (request.dstOffset + off)]
                    ELSE contents[request.dst][i]]
<1>3. \A i \in 0 .. Length - 1 : i >= request.dstOffset + off /\ i < request.dstOffset + off + n =>
         /\ (request.srcOffset + off) + i - (request.dstOffset + off) = request.srcOffset + i - request.dstOffset
         /\ request.srcOffset + i - request.dstOffset \in 0 .. Length - 1
  BY <1>1
<1>4. /\ g \in [0 .. Length - 1 -> Nat]
      /\ \A i \in 0 .. Length - 1 : g[i] = IF i >= request.dstOffset + off /\ i < request.dstOffset + off + n
                                       THEN contents[request.src][request.srcOffset + i - request.dstOffset]
                                       ELSE contents[request.dst][i]
  BY <1>1, <1>2, <1>3
<1>5. contents' = [contents EXCEPT ![request.dst] = g]
  BY DEF Moved
<1> HIDE DEF g
<1>6. contents' \in [Buffers -> [0 .. Length - 1 -> Nat]]
  BY <1>1, <1>2, <1>4, <1>5
<1>7. ASSUME NEW b \in Buffers, NEW i \in 0 .. Length - 1
      PROVE  contents'[b][i] = IF b = request.dst /\ i >= request.dstOffset + off /\ i < request.dstOffset + off + n
                               THEN Byte(i) ELSE contents[b][i]
  <2>1. CASE b # request.dst
    BY <1>2, <1>5, <2>1
  <2>2. CASE b = request.dst
    <3>1. contents'[b] = g
      BY <1>1, <1>2, <1>5, <2>2
    <3>2. Byte(i) = Original[request.src][request.srcOffset + i - request.dstOffset]
      BY DEF Byte
    <3> QED
      BY <1>4, <2>2, <3>1, <3>2
  <2> QED
    BY <2>1, <2>2
<1> QED
  BY <1>6, <1>7 DEF PutRight

\* The next piece, at the front or at the back of what is left, keeps the invariant.
LEMMA PieceAdvances ==
    ASSUME CopyInv, request.at = "ready", NEW n \in Nat \ {0}, completed + n <= request.size,
           PutRight(IF Backwards THEN request.size - completed - n ELSE completed, n),
           completed' = completed + n,
           IF completed + n = request.size THEN Finish("done") ELSE UNCHANGED request,
           HostEnd => completed + n = request.size
    PROVE  CopyInv'
<1>1. /\ Length \in Nat /\ request.srcOffset \in Nat /\ request.dstOffset \in Nat /\ request.size \in Nat
      /\ request.dst \in Buffers /\ request.dstOffset + request.size <= Length /\ completed \in Nat
  BY RequestFields DEF CopyInv
<1>2. /\ request' \in Requests /\ request'.size = request.size
      /\ request'.dst = request.dst /\ request'.dstOffset = request.dstOffset
      /\ (HostEnd' <=> HostEnd)
      /\ (\A i, c : Done(i, c)' <=> Done(i, c))
      /\ (\A i : Byte(i)' = Byte(i))
      /\ Finish("done") => request'.at = "done"
  BY OutcomeOnly DEF CopyInv
<1> DEFINE off == IF Backwards THEN request.size - completed - n ELSE completed
<1>3. \A i \in 0 .. Length - 1 :
         Done(i, completed + n) <=> (Done(i, completed) \/ (i >= request.dstOffset + off /\ i < request.dstOffset + off + n))
  BY <1>1 DEF Done
<1>4. ASSUME NEW b \in Buffers, NEW i \in 0 .. Length - 1
      PROVE  contents'[b][i] = IF b = request.dst /\ Done(i, completed + n) THEN Byte(i) ELSE Original[b][i]
  <2>1. contents[b][i] = IF b = request.dst /\ Done(i, completed) THEN Byte(i) ELSE Original[b][i]
    BY DEF CopyInv, Reached
  <2>2. contents'[b][i] = IF b = request.dst /\ i >= request.dstOffset + off /\ i < request.dstOffset + off + n
                          THEN Byte(i) ELSE contents[b][i]
    BY DEF PutRight
  <2> HIDE DEF off
  <2> QED
    BY <1>3, <2>1, <2>2
<1>5. \A i \in 0 .. Length - 1 : Done(i, completed + n) => i >= request.dstOffset /\ i < request.dstOffset + request.size
  BY <1>1 DEF Done
<1>6. OutsideKept'
  BY <1>2, <1>4, <1>5 DEF OutsideKept, Original
<1>7. PICK c \in Nat : c = completed + n
  BY <1>1
<1>8. Reached(c)'
  <2>1. \A b \in Buffers, i \in 0 .. Length - 1 :
            contents'[b][i] = IF b = request'.dst /\ Done(i, c)' THEN Byte(i)' ELSE Original[b][i]
    BY <1>2, <1>4, <1>7
  <2> QED
    BY <2>1 DEF Reached, Original
<1>9. completed' = c /\ completed' \in 0 .. request'.size
  BY <1>1, <1>2, <1>7
<1>13. contents' \in [Buffers -> [0 .. Length - 1 -> Nat]]
  BY DEF PutRight
<1>10. Reached(completed)'
  BY <1>8, <1>9 DEF Reached, Done
<1>11. CASE c = request.size
  <2>1. request'.at = "done" /\ request'.size = c
    BY <1>2, <1>7, <1>11
  <2>2. Reached(request.size)'
    BY <1>8, <2>1 DEF Reached, Done
  <2> QED
    BY <1>2, <1>6, <1>9, <1>13, <2>1, <2>2 DEF CopyInv
<1>12. CASE c # request.size
  <2>1. request'.at = "ready" /\ ~HostEnd' /\ completed' < request'.size
    BY <1>1, <1>2, <1>7, <1>9, <1>12
  <2> QED
    BY <1>2, <1>6, <1>9, <1>10, <1>13, <2>1 DEF CopyInv
<1> QED
  BY <1>11, <1>12

\* A step that stops the request without touching the contents.
LEMMA StopKeeps ==
    ASSUME CopyInv, UNCHANGED <<completed, contents>>, NEW outcome \in {"done", "failed"}, Finish(outcome),
           outcome = "done" => Reached(request.size)
    PROVE  CopyInv'
<1>1. /\ request' \in Requests /\ request'.size = request.size
      /\ request'.dst = request.dst /\ request'.dstOffset = request.dstOffset
      /\ (Backwards' <=> Backwards)
      /\ (\A i : Byte(i)' = Byte(i))
      /\ request'.at = outcome
  BY OutcomeOnly DEF CopyInv
<1>2. OutsideKept'
  BY <1>1 DEF CopyInv, OutsideKept, Original
<1>3. Reached(request.size) => Reached(request.size)'
  BY <1>1 DEF Reached, Done, Original
<1> QED
  BY <1>1, <1>2, <1>3 DEF CopyInv

\* An end on the host: the bytes move at once.
LEMMA CopyWithHostKeeps ==
    ASSUME CopyInv, CopyWithHost
    PROVE  CopyInv'
<1>1. /\ Length \in Nat /\ request.srcOffset \in Nat /\ request.dstOffset \in Nat /\ request.size \in Nat \ {0}
      /\ request.srcOffset + request.size <= Length /\ request.dstOffset + request.size <= Length
      /\ request.src \in Buffers /\ request.dst \in Buffers
  BY RequestFields DEF CopyInv
<1>2. completed = 0 /\ Reached(0)
  BY DEF CopyWithHost, CopyInv, HostEnd
<1>3. \A b \in Buffers, i \in 0 .. Length - 1 : contents[b][i] = Original[b][i]
  <2>1. \A i \in 0 .. Length - 1 : ~Done(i, 0)
    BY <1>1 DEF Done
  <2> QED
    BY <1>2, <2>1 DEF Reached
<1>4. PutRight(0, request.size)
  <2>1. \A i \in 0 .. Length - 1 : i >= request.dstOffset + 0 /\ i < request.dstOffset + 0 + request.size =>
            contents[request.src][request.srcOffset + i - request.dstOffset]
                = Original[request.src][request.srcOffset + i - request.dstOffset]
    <3>1. \A i \in 0 .. Length - 1 : i >= request.dstOffset + 0 /\ i < request.dstOffset + 0 + request.size =>
             request.srcOffset + i - request.dstOffset \in 0 .. Length - 1
      BY <1>1
    <3> QED
      BY <1>1, <1>3, <3>1
  <2>2. /\ contents' = Moved(contents, request.src, request.srcOffset + 0, request.dst, request.dstOffset + 0, request.size)
        /\ request.op = "copy"
    BY <1>1 DEF CopyWithHost
  <2> QED
    BY <1>1, <2>1, <2>2, MoveIsRight
<1>5. /\ request' \in Requests /\ request'.size = request.size /\ request'.at = "done"
      /\ request'.dst = request.dst /\ request'.dstOffset = request.dstOffset
      /\ \A i : Byte(i)' = Byte(i)
  BY OutcomeOnly DEF CopyInv, CopyWithHost
<1>6. \A b \in Buffers, i \in 0 .. Length - 1 :
         contents'[b][i] = IF b = request.dst /\ i >= request.dstOffset /\ i < request.dstOffset + request.size
                           THEN Byte(i) ELSE Original[b][i]
  <2>1. request.dstOffset + 0 = request.dstOffset
    BY <1>1
  <2>2. \A b \in Buffers, i \in 0 .. Length - 1 :
           contents'[b][i] = IF b = request.dst /\ i >= request.dstOffset + 0 /\ i < request.dstOffset + 0 + request.size
                             THEN Byte(i) ELSE contents[b][i]
    BY <1>4, Zenon DEF PutRight
  <2> QED
    BY <1>3, <2>1, <2>2, Zenon
<1>7. Reached(request.size)'
  <2>1. \A i \in 0 .. Length - 1 :
            Done(i, request.size)' <=> (i >= request.dstOffset /\ i < request.dstOffset + request.size)
    BY <1>1, <1>5 DEF Done
  <2>2. \A b \in Buffers, i \in 0 .. Length - 1 :
            contents'[b][i] = IF b = request'.dst /\ Done(i, request.size)' THEN Byte(i)' ELSE Original[b][i]
    BY <1>5, <1>6, <2>1
  <2> QED
    BY <2>2 DEF Reached, Original
<1>8. OutsideKept'
  BY <1>5, <1>6 DEF OutsideKept, Original
<1> QED
  BY <1>4, <1>5, <1>7, <1>8 DEF CopyInv, CopyWithHost, PutRight

\* The same byte of the same buffer is where it belongs already.
LEMMA CopyOntoItselfKeeps ==
    ASSUME CopyInv, CopyOntoItself
    PROVE  CopyInv'
<1>1. /\ Length \in Nat /\ request.srcOffset \in Nat /\ request.dstOffset \in Nat
      /\ request.src = request.dst /\ request.srcOffset = request.dstOffset /\ request.op = "copy"
  BY RequestFields DEF CopyInv, CopyOntoItself
<1>2. \A i \in 0 .. Length - 1 : Byte(i) = Original[request.dst][i]
  <2>1. \A i \in 0 .. Length - 1 : request.srcOffset + i - request.dstOffset = i
    BY <1>1
  <2> QED
    BY <1>1, <2>1 DEF Byte
<1>3. Reached(completed)
  BY DEF CopyInv, CopyOntoItself
<1>4. Reached(request.size)
  BY <1>2, <1>3 DEF Reached
<1> QED
  BY <1>4, StopKeeps DEF CopyOntoItself

\* The length of a piece.
LEMMA SmallerPiece ==
    ASSUME CopyInv, request.at = "ready", NEW most \in Nat \ {0}
    PROVE  /\ Smaller(most, request.size - completed) \in Nat \ {0}
           /\ completed + Smaller(most, request.size - completed) <= request.size
BY RequestFields DEF CopyInv, Smaller

\* Disjoint ranges, front to back: what is left of the source is untouched.
LEMMA CopyInGPUKeeps ==
    ASSUME CopyInv, CopyInGPU
    PROVE  CopyInv'
<1>1. /\ Length \in Nat /\ request.srcOffset \in Nat /\ request.dstOffset \in Nat /\ request.size \in Nat \ {0}
      /\ request.srcOffset + request.size <= Length /\ request.dstOffset + request.size <= Length
      /\ request.src \in Buffers /\ request.dst \in Buffers /\ MaxCopy \in Nat \ {0} /\ completed \in Nat
  BY RequestFields DEF CopyInv
<1>2. PICK n \in Nat \ {0} : n = Smaller(MaxCopy, request.size - completed) /\ completed + n <= request.size
  BY <1>1, SmallerPiece DEF CopyInGPU
<1>3. request.op = "copy" /\ request.at = "ready" /\ ~HostEnd /\ ~Overlapping /\ ~Backwards
  BY <1>1 DEF CopyInGPU, OneGPU, HostEnd, Overlapping, Backwards
<1>4. /\ contents' = Moved(contents, request.src, request.srcOffset + completed, request.dst, request.dstOffset + completed, n)
      /\ completed' = completed + n
      /\ IF completed + n = request.size THEN Finish("done") ELSE UNCHANGED request
  BY <1>2 DEF CopyInGPU
<1>5. ASSUME NEW i \in 0 .. Length - 1, i >= request.dstOffset + completed, i < request.dstOffset + completed + n
      PROVE  contents[request.src][request.srcOffset + i - request.dstOffset]
                 = Original[request.src][request.srcOffset + i - request.dstOffset]
  <2>1. /\ request.srcOffset + i - request.dstOffset \in 0 .. Length - 1
        /\ request.srcOffset + i - request.dstOffset < request.srcOffset + request.size
    BY <1>1, <1>2, <1>5
  <2>2. request.src = request.dst => ~Done(request.srcOffset + i - request.dstOffset, completed)
    BY <1>1, <1>2, <1>3, <1>5, <2>1 DEF Done, Overlapping
  <2> QED
    BY <1>1, <1>3, <2>1, <2>2 DEF CopyInv, Reached
<1>6. PutRight(completed, n)
  BY <1>1, <1>2, <1>3, <1>4, <1>5, MoveIsRight
<1> QED
  BY <1>1, <1>2, <1>3, <1>4, <1>6, PieceAdvances

\* Two GPUs, or overlapping ranges from the end that is not overwritten first.
LEMMA CopyStagedKeeps ==
    ASSUME CopyInv, CopyStaged
    PROVE  CopyInv'
<1>1. /\ Length \in Nat /\ request.srcOffset \in Nat /\ request.dstOffset \in Nat /\ request.size \in Nat \ {0}
      /\ request.srcOffset + request.size <= Length /\ request.dstOffset + request.size <= Length
      /\ request.src \in Buffers /\ request.dst \in Buffers /\ Staging \in Nat \ {0} /\ completed \in Nat
  BY RequestFields DEF CopyInv
<1>2. PICK n \in Nat \ {0} : n = Smaller(Staging, request.size - completed) /\ completed + n <= request.size
  BY <1>1, SmallerPiece DEF CopyStaged
<1>3. request.op = "copy" /\ request.at = "ready" /\ ~HostEnd
  BY DEF CopyStaged, HostEnd
<1>4. PICK off \in Nat : off = (IF Backwards THEN request.size - completed - n ELSE completed) /\ off + n <= request.size
  BY <1>1, <1>2
<1>5. /\ contents' = Moved(contents, request.src, request.srcOffset + off, request.dst, request.dstOffset + off, n)
      /\ completed' = completed + n
      /\ IF completed + n = request.size THEN Finish("done") ELSE UNCHANGED request
  BY <1>2, <1>4 DEF CopyStaged
<1>6. request.src = request.dst => \/ Backwards /\ request.dstOffset > request.srcOffset
                                   \/ ~Backwards /\ request.dstOffset < request.srcOffset
  BY <1>1, <1>3 DEF CopyStaged, OneGPU, Overlapping, Backwards, HostEnd
<1>7. ASSUME NEW i \in 0 .. Length - 1, i >= request.dstOffset + off, i < request.dstOffset + off + n
      PROVE  contents[request.src][request.srcOffset + i - request.dstOffset]
                 = Original[request.src][request.srcOffset + i - request.dstOffset]
  <2>1. /\ request.srcOffset + i - request.dstOffset \in 0 .. Length - 1
    BY <1>1, <1>2, <1>4, <1>7
  <2>2. request.src = request.dst => ~Done(request.srcOffset + i - request.dstOffset, completed)
    BY <1>1, <1>2, <1>4, <1>6, <1>7, <2>1 DEF Done
  <2> QED
    BY <1>1, <1>3, <2>1, <2>2 DEF CopyInv, Reached
<1>8. PutRight(off, n)
  BY <1>1, <1>3, <1>4, <1>5, <1>7, MoveIsRight
<1> QED
  BY <1>1, <1>2, <1>3, <1>4, <1>5, <1>8, PieceAdvances

\* A fill writes one byte everywhere; nothing is read.
LEMMA FillKeeps ==
    ASSUME CopyInv, Fill
    PROVE  CopyInv'
<1>1. /\ Length \in Nat /\ request.srcOffset \in Nat /\ request.dstOffset \in Nat /\ request.size \in Nat \ {0}
      /\ request.srcOffset = request.dstOffset /\ request.dstOffset + request.size <= Length
      /\ request.src = request.dst /\ request.dst \in Buffers /\ Staging \in Nat \ {0} /\ completed \in Nat
      /\ request.op = "fill" /\ request.at = "ready"
  BY RequestFields DEF CopyInv, Fill
<1>2. ~Backwards /\ \A i : Byte(i) = 0
  BY <1>1 DEF Backwards, Byte
<1>3. HostEnd => completed = 0
  BY <1>1 DEF CopyInv
<1>4. PICK n \in Nat \ {0} :
         /\ n = (IF request.on[request.dst] = "host" THEN request.size ELSE Smaller(Staging, request.size - completed))
         /\ completed + n <= request.size
         /\ HostEnd => completed + n = request.size
  <2>1. CASE request.on[request.dst] = "host"
    BY <1>1, <1>3, <2>1 DEF HostEnd
  <2>2. CASE request.on[request.dst] # "host"
    BY <1>1, <2>2, SmallerPiece DEF HostEnd
  <2> QED
    BY <2>1, <2>2
<1>5. /\ contents' = Filled(contents, request.dst, request.dstOffset + completed, n)
      /\ completed' = completed + n
      /\ IF completed + n = request.size THEN Finish("done") ELSE UNCHANGED request
  <2>1. CASE request.on[request.dst] = "host"
    BY <1>4, <2>1 DEF Fill
  <2>2. CASE request.on[request.dst] # "host"
    BY <1>4, <2>2 DEF Fill
  <2> QED
    BY <2>1, <2>2
<1>6. PutRight(completed, n)
  <2>1. contents \in [Buffers -> [0 .. Length - 1 -> Nat]]
    BY DEF CopyInv
  <2> DEFINE g == [i \in 0 .. Length - 1 |->
                      IF i >= request.dstOffset + completed /\ i < request.dstOffset + completed + n THEN 0
                      ELSE contents[request.dst][i]]
  <2>2. g \in [0 .. Length - 1 -> Nat]
    BY <1>1, <2>1
  <2>3. contents' = [contents EXCEPT ![request.dst] = g]
    BY <1>5 DEF Filled
  <2>4. contents'[request.dst] = g /\ \A b \in Buffers : b # request.dst => contents'[b] = contents[b]
    BY <1>1, <2>1, <2>3
  <2>5. contents' \in [Buffers -> [0 .. Length - 1 -> Nat]]
    BY <1>1, <2>1, <2>2, <2>3
  <2>6. \A i \in 0 .. Length - 1 : g[i] =
            IF i >= request.dstOffset + completed /\ i < request.dstOffset + completed + n THEN 0
            ELSE contents[request.dst][i]
    OBVIOUS
  <2> HIDE DEF g
  <2>7. \A b \in Buffers, i \in 0 .. Length - 1 :
            contents'[b][i] = IF b = request.dst /\ i >= request.dstOffset + completed /\ i < request.dstOffset + completed + n
                              THEN Byte(i) ELSE contents[b][i]
    BY <1>2, <2>4, <2>6
  <2> QED
    BY <2>5, <2>7 DEF PutRight
<1>7. completed + n <= request.size /\ (HostEnd => completed + n = request.size)
  BY <1>4
<1>8. PutRight(IF Backwards THEN request.size - completed - n ELSE completed, n)
  BY <1>2, <1>6
<1> QED
  BY <1>1, <1>5, <1>7, <1>8, PieceAdvances

\* The invariant of copies and fills holds of every behaviour (memory.cpp).
THEOREM CopySafe == CopySpec => []CopyInv
<1>1. CopyInit => CopyInv
  <2> SUFFICES ASSUME CopyInit PROVE CopyInv
    OBVIOUS
  <2>1. request \in Requests /\ request.at = "ready" /\ completed = 0 /\ contents = Original
    BY DEF CopyInit, CopyRequests, Requests
  <2>2. /\ Length \in Nat /\ request.dstOffset \in Nat /\ request.size \in Nat \ {0}
    BY <2>1, RequestFields
  <2>3. contents \in [Buffers -> [0 .. Length - 1 -> Nat]]
    BY <2>1, <2>2 DEF Original
  <2>4. Reached(0)
    BY <2>1, <2>2 DEF Reached, Done
  <2> QED
    BY <2>1, <2>2, <2>3, <2>4 DEF CopyInv, OutsideKept
<1>2. CopyInv /\ [CopyNext]_copyVars => CopyInv'
  <2> SUFFICES ASSUME CopyInv, [CopyNext]_copyVars PROVE CopyInv'
    OBVIOUS
  <2>1. CASE UNCHANGED copyVars
    <3>1. UNCHANGED <<request, completed, contents>>
      BY <2>1 DEF copyVars
    <3>2. OutsideKept' = OutsideKept
      BY <3>1 DEF OutsideKept, Original
    <3>3. Reached(completed)' = Reached(completed)
      BY <3>1 DEF Reached, Done, Byte, Backwards, OneGPU, Original
    <3>4. Reached(request.size)' = Reached(request.size)
      BY <3>1 DEF Reached, Done, Byte, Backwards, OneGPU, Original
    <3>5. HostEnd' = HostEnd
      BY <3>1 DEF HostEnd
    <3> QED
      BY <3>1, <3>2, <3>3, <3>4, <3>5 DEF CopyInv
  <2>2. CASE DriverFails
    BY <2>2, StopKeeps DEF DriverFails
  <2> QED
    BY <2>1, <2>2, CopyWithHostKeeps, CopyOntoItselfKeeps, CopyInGPUKeeps, CopyStagedKeeps, FillKeeps DEF CopyNext
<1> QED
  BY <1>1, <1>2, PTL DEF CopySpec

\* A copy that reports success has moved the bytes as one memmove would have, and a failed one has
\* touched nothing outside its destination: for every buffer size, piece size, overlap and path.
THEOREM CopiesAreMemmove == CopySpec => []CopyIsMemmove
<1>1. ASSUME CopyInv PROVE CopyIsMemmove
  <2>1. /\ Length \in Nat /\ request.srcOffset \in Nat /\ request.dstOffset \in Nat /\ request.size \in Nat \ {0}
        /\ request.src \in Buffers /\ request.dst \in Buffers /\ request.op \in {"copy", "fill"}
    BY <1>1, RequestFields DEF CopyInv
  <2>2. contents \in [Buffers -> [0 .. Length - 1 -> Nat]] /\ Original \in [Buffers -> [0 .. Length - 1 -> Nat]]
    BY <1>1, <2>1 DEF CopyInv, Original
  <2>3. ASSUME request.at = "done"
        PROVE  contents = IF request.op = "copy"
                          THEN Moved(Original, request.src, request.srcOffset, request.dst, request.dstOffset, request.size)
                          ELSE Filled(Original, request.dst, request.dstOffset, request.size)
    <3> DEFINE g == [i \in 0 .. Length - 1 |->
                        IF i >= request.dstOffset /\ i < request.dstOffset + request.size THEN Byte(i)
                        ELSE Original[request.dst][i]]
    <3>1. \A b \in Buffers, i \in 0 .. Length - 1 :
              contents[b][i] = IF b = request.dst /\ i >= request.dstOffset /\ i < request.dstOffset + request.size
                               THEN Byte(i) ELSE Original[b][i]
      <4>1. \A i \in 0 .. Length - 1 :
                Done(i, request.size) <=> (i >= request.dstOffset /\ i < request.dstOffset + request.size)
        BY <2>1 DEF Done
      <4> QED
        BY <1>1, <2>3, <4>1 DEF CopyInv, Reached
    <3>2. contents[request.dst] = g
      <4>1. contents[request.dst] \in [0 .. Length - 1 -> Nat]
        BY <2>1, <2>2
      <4>2. \A i \in 0 .. Length - 1 : contents[request.dst][i] = g[i]
        BY <2>1, <3>1
      <4> QED
        BY <4>1, <4>2
    <3>3. \A b \in Buffers : b # request.dst => contents[b] = Original[b]
      <4> SUFFICES ASSUME NEW b \in Buffers, b # request.dst PROVE contents[b] = Original[b]
        OBVIOUS
      <4>1. contents[b] \in [0 .. Length - 1 -> Nat] /\ Original[b] \in [0 .. Length - 1 -> Nat]
        BY <2>2
      <4>2. \A i \in 0 .. Length - 1 : contents[b][i] = Original[b][i]
        BY <3>1
      <4>3. /\ contents[b] = [i \in 0 .. Length - 1 |-> contents[b][i]]
            /\ Original[b] = [i \in 0 .. Length - 1 |-> Original[b][i]]
        BY <4>1
      <4> QED
        BY <4>2, <4>3, Zenon
    <3>4. contents = [Original EXCEPT ![request.dst] = g]
      <4> HIDE DEF g
      <4> QED
        BY <2>1, <2>2, <3>2, <3>3
    <3>5. CASE request.op = "copy"
      <4>1. g = [i \in 0 .. Length - 1 |->
                    IF i >= request.dstOffset /\ i < request.dstOffset + request.size
                    THEN Original[request.src][request.srcOffset + i - request.dstOffset] ELSE Original[request.dst][i]]
        BY <3>5 DEF Byte
      <4> QED
        BY <3>4, <3>5, <4>1 DEF Moved
    <3>6. CASE request.op = "fill"
      <4>1. g = [i \in 0 .. Length - 1 |->
                    IF i >= request.dstOffset /\ i < request.dstOffset + request.size THEN 0 ELSE Original[request.dst][i]]
        BY <3>6 DEF Byte
      <4> QED
        BY <3>4, <3>6, <4>1 DEF Filled
    <3> QED
      BY <2>1, <3>5, <3>6
  <2>4. request.at = "failed" => \A b \in Buffers, i \in 0 .. Length - 1 :
            contents[b][i] # Original[b][i] =>
               b = request.dst /\ i >= request.dstOffset /\ i < request.dstOffset + request.size
    BY <1>1 DEF CopyInv, OutsideKept
  <2> QED
    BY <2>3, <2>4 DEF CopyIsMemmove
<1> QED
  BY <1>1, CopySafe, PTL

-----------------------------------------------------------------------------
(* IP discovery                                                            *)

Before == {"ifwi", "memsize", "signature", "header"}
Accepted == {"table", "die", "record", "done"}
Walks == [at : Before \cup Accepted \cup {"failed"}, pos : Nat, ips : Nat, dies : Nat, wide : BOOLEAN]

DiscoveryTypes ==
    /\ walk \in Walks /\ given \in Nat /\ declared \in Nat
    /\ ipds \in [from : Nat, to : Nat]

\* Nothing is read before the header; once it is accepted, the declared size is within what there
\* is and holds all that was read; the IPDS table is within the declared size, and the records
\* are those of a die that is still counted.
WalkInside ==
    /\ walk.at \in Before => touched = {} /\ given <= MaxBinary
    /\ walk.at \in Accepted => declared <= given /\ touched \subseteq 0 .. declared - 1
    /\ walk.at \in {"die", "record"} => ipds.from <= ipds.to /\ ipds.to <= declared
    /\ walk.at = "record" => walk.dies > 0

DiscoveryInv == DiscoveryTypes /\ WalkInside /\ DiscoveryInBounds

\* n bytes that begin at `from` and end at or before m.
LEMMA BytesInside ==
    ASSUME NEW from \in Nat, NEW n \in Nat, NEW m \in Nat, from + n <= m
    PROVE  Bytes(from, n) \subseteq 0 .. m - 1
BY DEF Bytes

\* A range that ends earlier.
LEMMA RangeInside ==
    ASSUME NEW m \in Nat, NEW n \in Nat, m <= n
    PROVE  0 .. m - 1 \subseteq 0 .. n - 1
OBVIOUS

\* Discovery begins with nothing read.
LEMMA DiscoveryInitInv == DiscoveryInit => DiscoveryInv
<1> SUFFICES ASSUME DiscoveryInit PROVE DiscoveryInv
  OBVIOUS
<1>1. walk \in Walks /\ walk.at \in {"ifwi", "header"}
  <2>1. WalkStart \in Walks /\ WalkStart.at = "ifwi"
    BY DEF WalkStart, Walks, Before, Accepted
  <2>2. [WalkStart EXCEPT !.at = "header"] \in Walks /\ [WalkStart EXCEPT !.at = "header"].at = "header"
    BY <2>1 DEF Walks, Before, Accepted
  <2> QED
    BY <2>1, <2>2 DEF DiscoveryInit
<1>2. given \in Nat /\ given <= MaxBinary /\ declared = 0 /\ touched = {} /\ ipTable = "old"
  BY DiscoveryAssumption DEF DiscoveryInit
<1>3. DiscoveryTypes
  BY <1>1, <1>2 DEF DiscoveryInit, DiscoveryTypes
<1>4. WalkInside /\ DiscoveryInBounds
  BY <1>1, <1>2 DEF WalkInside, DiscoveryInBounds, Accepted
<1> QED
  BY <1>3, <1>4 DEF DiscoveryInv

\* A refused binary: what was read is within what there is, and dev.ip is the old one.
LEMMA FailsInv ==
    ASSUME DiscoveryInv, Fails, walk.at # "done",
           given' \in Nat, declared' \in Nat, ipds' \in [from : Nat, to : Nat],
           touched' \subseteq 0 .. given' - 1, ipTable' = ipTable
    PROVE  DiscoveryInv'
<1> DEFINE w == walk
<1>1. w \in Walks /\ walk' = [w EXCEPT !.at = "failed"]
  BY DEF DiscoveryInv, DiscoveryTypes, Fails
<1> HIDE DEF w
<1>2. walk' \in Walks /\ walk'.at = "failed"
  BY <1>1 DEF Walks
<1>3. DiscoveryTypes'
  BY <1>2 DEF DiscoveryTypes
<1>4. WalkInside'
  BY <1>2 DEF WalkInside, Before, Accepted
<1>5. ipTable # "new"
  BY DEF DiscoveryInv, DiscoveryInBounds
<1>6. DiscoveryInBounds'
  BY <1>2, <1>5 DEF DiscoveryInBounds
<1> QED
  BY <1>3, <1>4, <1>6 DEF DiscoveryInv

\* The parse goes on: what was read is within the declared size.
LEMMA GoesOnInv ==
    ASSUME DiscoveryInv, walk.at # "done", NEW at \in Accepted, walk' \in Walks, walk'.at = at,
           given' = given, declared' \in Nat, declared' <= given, ipds' \in [from : Nat, to : Nat],
           touched' \subseteq 0 .. declared' - 1,
           at \in {"die", "record"} => ipds'.from <= ipds'.to /\ ipds'.to <= declared',
           at = "record" => walk'.pos \in ipds'.from .. ipds'.to /\ walk'.dies > 0,
           ipTable' = "new" <=> at = "done"
    PROVE  DiscoveryInv'
<1>1. given \in Nat
  BY DEF DiscoveryInv, DiscoveryTypes
<1>2. DiscoveryTypes'
  BY <1>1 DEF DiscoveryTypes
<1>3. touched' \subseteq 0 .. given - 1
  BY <1>1, RangeInside
<1>4. WalkInside'
  BY DEF WalkInside, Before, Accepted
<1>5. DiscoveryInBounds'
  BY <1>3 DEF DiscoveryInBounds
<1> QED
  BY <1>2, <1>4, <1>5 DEF DiscoveryInv

\* Before the header is accepted.
LEMMA BeforeHeaderInv ==
    ASSUME DiscoveryInv, WaitIFWI \/ ReadMemSize \/ ReadTMR
    PROVE  DiscoveryInv'
<1>1. walk.at \in Before /\ walk.at # "done" /\ touched = {} /\ touched' = {} /\ ipTable' = ipTable /\ ipTable # "new"
  BY DEF DiscoveryInv, WalkInside, DiscoveryInBounds, WaitIFWI, ReadMemSize, ReadTMR, Before, Unparsed
<1>2. /\ given' \in Nat /\ given' <= MaxBinary /\ declared' \in Nat /\ ipds' \in [from : Nat, to : Nat]
  BY <1>1, DiscoveryAssumption DEF DiscoveryInv, DiscoveryTypes, WalkInside, WaitIFWI, ReadMemSize, ReadTMR, Unparsed
<1>3. CASE Fails
  BY <1>1, <1>2, <1>3, FailsInv
<1>4. ASSUME NEW at \in Before, walk' = [walk EXCEPT !.at = at]
      PROVE  DiscoveryInv'
  <2> DEFINE w == walk
  <2>1. w \in Walks /\ walk' = [w EXCEPT !.at = at]
    BY <1>4 DEF DiscoveryInv, DiscoveryTypes
  <2> HIDE DEF w
  <2>2. walk' \in Walks /\ walk'.at = at
    BY <2>1 DEF Walks
  <2>3. walk'.at \notin Accepted /\ walk'.at \notin {"die", "record", "done"}
    BY <2>2 DEF Before, Accepted
  <2>4. DiscoveryTypes' /\ WalkInside'
    BY <1>1, <1>2, <2>2, <2>3 DEF DiscoveryTypes, WalkInside
  <2>5. DiscoveryInBounds'
    BY <1>1, <2>3 DEF DiscoveryInBounds
  <2> QED
    BY <2>4, <2>5 DEF DiscoveryInv
<1>5. Fails \/ \E at \in Before : walk' = [walk EXCEPT !.at = at]
  BY DEF WaitIFWI, ReadMemSize, ReadTMR, Before
<1> QED
  BY <1>3, <1>4, <1>5

\* The header is read, refused, or accepted with a size within what there is.
LEMMA ParseHeaderInv ==
    ASSUME DiscoveryInv, ParseHeader
    PROVE  DiscoveryInv'
<1>1. walk.at = "header" /\ UNCHANGED <<given, ipds, counted, ipTable>>
  BY DEF ParseHeader
<1>2. /\ walk \in Walks /\ given \in Nat /\ declared \in Nat /\ ipds \in [from : Nat, to : Nat]
      /\ touched = {} /\ ipTable # "new" /\ HeaderBytes = 2
  BY <1>1 DEF DiscoveryInv, DiscoveryTypes, WalkInside, DiscoveryInBounds, Before, HeaderBytes
<1>3. CASE Fails /\ UNCHANGED <<declared, touched>>
  BY <1>1, <1>2, <1>3, FailsInv
<1>4. CASE ~(given < HeaderBytes) /\ touched' = touched \cup Bytes(0, HeaderBytes) /\ Fails /\ UNCHANGED declared
  <2>1. touched' \subseteq 0 .. given - 1
    BY <1>2, <1>4, BytesInside
  <2> QED
    BY <1>1, <1>2, <1>4, <2>1, FailsInv
<1>5. ASSUME NEW d \in HeaderBytes .. given, declared' = d, touched' = touched \cup Bytes(0, d),
             Fails \/ walk' = [walk EXCEPT !.at = "table"]
      PROVE  DiscoveryInv'
  <2>1. d \in Nat /\ d <= given
    BY <1>2
  <2>2. touched' \subseteq 0 .. d - 1
    BY <1>2, <1>5, <2>1, BytesInside
  <2>3. touched' \subseteq 0 .. given - 1
    BY <1>2, <2>1, <2>2, RangeInside
  <2>4. CASE Fails
    BY <1>1, <1>2, <1>5, <2>1, <2>3, <2>4, FailsInv
  <2>5. CASE walk' = [walk EXCEPT !.at = "table"]
    <3> DEFINE w == walk
    <3>1. w \in Walks /\ walk' = [w EXCEPT !.at = "table"]
      BY <1>2, <2>5
    <3> HIDE DEF w
    <3>2. walk' \in Walks /\ walk'.at = "table"
      BY <3>1 DEF Walks, Accepted
    <3>3. "table" \in Accepted
      BY DEF Accepted
    <3> QED
      BY <1>1, <1>2, <1>5, <2>1, <2>2, <3>2, <3>3, GoesOnInv
  <2> QED
    BY <1>5, <2>4, <2>5
<1> QED
  BY <1>3, <1>4, <1>5 DEF ParseHeader

\* What holds while the tables are walked.
LEMMA WalkFacts ==
    ASSUME DiscoveryInv, walk.at \in {"table", "die", "record"}
    PROVE  /\ walk \in Walks /\ given \in Nat /\ declared \in Nat /\ ipds \in [from : Nat, to : Nat]
           /\ declared <= given /\ touched \subseteq 0 .. declared - 1 /\ ipTable # "new"
           /\ walk.at # "done"
           /\ walk.at \in {"die", "record"} => ipds.from <= ipds.to /\ ipds.to <= declared
           /\ walk.at = "record" => walk.pos \in ipds.from .. ipds.to /\ walk.dies > 0
BY DEF DiscoveryInv, DiscoveryTypes, WalkInside, DiscoveryInBounds, Accepted

\* A refusal while the tables are walked, after reading bytes within the declared size.
LEMMA RefusedInv ==
    ASSUME DiscoveryInv, walk.at \in {"table", "die", "record"}, Fails,
           UNCHANGED <<given, declared, ipTable>>, ipds' \in [from : Nat, to : Nat],
           \/ touched' = touched
           \/ \E from, n \in Nat : from + n <= declared /\ touched' = touched \cup Bytes(from, n)
    PROVE  DiscoveryInv'
<1>1. touched' \subseteq 0 .. declared - 1
  BY WalkFacts, BytesInside
<1>2. touched' \subseteq 0 .. given - 1
  BY <1>1, WalkFacts, RangeInside
<1> QED
  BY <1>2, WalkFacts, FailsInv

\* The IPDS table is accepted inside the declared size only.
LEMMA ParseTableInv ==
    ASSUME DiscoveryInv, ParseTable
    PROVE  DiscoveryInv'
<1>1. walk.at = "table" /\ UNCHANGED <<given, declared, ipTable>>
  BY DEF ParseTable
<1>2. TableBytes = 1 /\ \A p \in Positions : p \in Nat
  BY DiscoveryAssumption DEF TableBytes, Positions
<1>3. CASE Fails /\ UNCHANGED <<touched, ipds>>
  BY <1>1, <1>3, WalkFacts, RefusedInv
<1>4. ASSUME NEW from \in Positions, ~(from + TableBytes > declared), Fails,
             touched' = touched \cup Bytes(from, TableBytes), UNCHANGED ipds
      PROVE  DiscoveryInv'
  <2>1. from \in Nat /\ TableBytes \in Nat /\ from + TableBytes <= declared
    BY <1>1, <1>2, <1>4, WalkFacts
  <2> QED
    BY <1>1, <1>4, <2>1, WalkFacts, RefusedInv
<1>5. ASSUME NEW from \in Positions, NEW n \in 0 .. MaxBinary, NEW dies \in 0 .. MaxDies + 1, NEW wide \in BOOLEAN,
             ~(from + n > declared),
             touched' = touched \cup Bytes(from, n), ipds' = [from |-> from, to |-> from + n],
             Fails \/ walk' = [walk EXCEPT !.at = "die", !.dies = dies, !.wide = wide]
      PROVE  DiscoveryInv'
  <2>1. from \in Nat /\ n \in Nat /\ from + n <= declared /\ dies \in Nat
    BY <1>1, <1>2, <1>5, WalkFacts, DiscoveryAssumption
  <2>2. ipds' \in [from : Nat, to : Nat] /\ ipds'.from = from /\ ipds'.to = from + n
    BY <1>5, <2>1
  <2>3. CASE Fails
    BY <1>1, <1>5, <2>1, <2>2, <2>3, RefusedInv
  <2>4. CASE walk' = [walk EXCEPT !.at = "die", !.dies = dies, !.wide = wide]
    <3> DEFINE w == walk
    <3>1. w \in Walks /\ walk' = [w EXCEPT !.at = "die", !.dies = dies, !.wide = wide]
      BY <1>1, <2>4, WalkFacts
    <3> HIDE DEF w
    <3>2. walk' \in Walks /\ walk'.at = "die"
      BY <2>1, <3>1 DEF Walks, Accepted
    <3>3. touched' \subseteq 0 .. declared - 1
      BY <1>1, <1>5, <2>1, WalkFacts, BytesInside
    <3>4. "die" \in Accepted
      BY DEF Accepted
    <3>5. ipds'.from <= ipds'.to /\ ipds'.to <= declared
      BY <2>1, <2>2
    <3> QED
      BY <1>1, <2>2, <3>2, <3>3, <3>4, <3>5, WalkFacts, GoesOnInv
  <2> QED
    BY <1>5, <2>3, <2>4
<1> QED
  BY <1>3, <1>4, <1>5 DEF ParseTable

\* A die header is read inside the IPDS table only.
LEMMA ParseDieInv ==
    ASSUME DiscoveryInv, ParseDie
    PROVE  DiscoveryInv'
<1>1. walk.at = "die" /\ walk.dies > 0 /\ UNCHANGED <<given, declared, ipds, ipTable>>
  BY DEF ParseDie, Parsing
<1>2. TableBytes = 1 /\ DieBytes = 1 /\ \A p \in Positions : p \in Nat
  BY DiscoveryAssumption DEF TableBytes, DieBytes, Positions
<1>3. /\ walk \in Walks /\ ipds \in [from : Nat, to : Nat] /\ ipds.from \in Nat /\ ipds.to \in Nat /\ declared \in Nat
      /\ ipds.from <= ipds.to /\ ipds.to <= declared
  BY <1>1, WalkFacts
<1>4. CASE Fails /\ UNCHANGED <<counted, touched>>
  BY <1>1, <1>3, <1>4, RefusedInv
<1>5. ASSUME NEW p \in Positions, ~(p < ipds.from + TableBytes), ~(p + DieBytes > ipds.to),
             touched' = touched \cup Bytes(p, DieBytes),
             Fails \/ \E n \in 0 .. MaxRecords :
                         walk' = [walk EXCEPT !.at = "record", !.pos = p + DieBytes, !.ips = n]
      PROVE  DiscoveryInv'
  <2>1. p \in Nat /\ DieBytes \in Nat /\ p + DieBytes <= declared /\ p + DieBytes \in ipds.from .. ipds.to
    <3>1. p \in Nat /\ DieBytes \in Nat
      BY <1>2
    <3>2. ~(p < ipds.from + 1) /\ ~(p + 1 > ipds.to)
      BY <1>2, <1>5
    <3>3. p + 1 <= ipds.to /\ ipds.from <= p + 1 /\ p + 1 \in Nat
      BY <1>3, <3>1, <3>2
    <3>4. p + 1 <= declared /\ p + 1 \in ipds.from .. ipds.to
      BY <1>3, <3>3
    <3> QED
      BY <1>2, <3>1, <3>4
  <2>2. CASE Fails
    BY <1>1, <1>3, <1>5, <2>1, <2>2, RefusedInv
  <2>3. ASSUME NEW n \in 0 .. MaxRecords, walk' = [walk EXCEPT !.at = "record", !.pos = p + DieBytes, !.ips = n]
        PROVE  DiscoveryInv'
    <3> DEFINE w == walk
               q == p + DieBytes
    <3>1. w \in Walks /\ w.dies > 0 /\ walk' = [w EXCEPT !.at = "record", !.pos = q, !.ips = n] /\ q \in Nat /\ n \in Nat
      BY <1>1, <1>3, <2>1, <2>3, DiscoveryAssumption
    <3> HIDE DEF w, q
    <3>2. walk' \in Walks /\ walk'.at = "record" /\ walk'.pos = q /\ walk'.dies > 0
      BY <3>1 DEF Walks, Accepted
    <3>3. touched' \subseteq 0 .. declared - 1
      BY <1>1, <1>5, <2>1, WalkFacts, BytesInside
    <3>4. "record" \in Accepted
      BY DEF Accepted
    <3>5. walk'.pos \in ipds'.from .. ipds'.to
      BY <1>1, <2>1, <3>2 DEF q
    <3> QED
      BY <1>1, <1>3, <3>2, <3>3, <3>4, <3>5, WalkFacts, GoesOnInv
  <2> QED
    BY <1>5, <2>2, <2>3
<1> QED
  BY <1>4, <1>5 DEF ParseDie

\* A record is read only if it ends, with all its bases, inside the table.
LEMMA ParseRecordInv ==
    ASSUME DiscoveryInv, ParseRecord
    PROVE  DiscoveryInv'
<1>1. walk.at = "record" /\ walk.ips > 0 /\ UNCHANGED <<given, declared, ipds, ipTable>>
  BY DEF ParseRecord, Parsing
<1>2. RecordBytes = 1 /\ RecordBytes \in Nat
  BY DEF RecordBytes
<1>3. /\ walk \in Walks /\ ipds \in [from : Nat, to : Nat] /\ ipds.from \in Nat /\ ipds.to \in Nat /\ declared \in Nat
      /\ ipds.from <= ipds.to /\ ipds.to <= declared /\ walk.pos \in ipds.from .. ipds.to /\ walk.pos \in Nat
      /\ walk.ips \in Nat
  <2>1. walk \in Walks
    BY <1>1, WalkFacts
  <2> QED
    BY <1>1, <2>1, WalkFacts DEF Walks
<1>4. CASE Fails /\ touched' = touched
  BY <1>1, <1>3, <1>4, RefusedInv
<1>5. CASE /\ ~(walk.pos + RecordBytes > ipds.to) /\ Fails
           /\ touched' = touched \cup Bytes(walk.pos, RecordBytes)
  <2>1. walk.pos + RecordBytes <= declared
    BY <1>2, <1>3, <1>5
  <2> QED
    BY <1>1, <1>2, <1>3, <1>5, <2>1, RefusedInv
<1>6. ASSUME NEW bytes \in Nat, RecordFits(bytes), touched' = touched \cup Bytes(walk.pos, bytes),
             walk' = [walk EXCEPT !.pos = walk.pos + bytes, !.ips = walk.ips - 1]
      PROVE  DiscoveryInv'
  <2> DEFINE w == walk
             q == walk.pos + bytes
             k == walk.ips - 1
  <2>1. q \in Nat /\ q <= ipds.to /\ q \in ipds.from .. ipds.to /\ k \in Nat
    BY <1>1, <1>3, <1>6 DEF RecordFits
  <2>2. walk.pos + bytes <= declared
    BY <1>3, <1>6 DEF RecordFits
  <2>3. w \in Walks /\ w.at = "record" /\ w.dies > 0 /\ walk' = [w EXCEPT !.pos = q, !.ips = k]
    BY <1>1, <1>3, <1>6, WalkFacts
  <2>4. touched' \subseteq 0 .. declared - 1
    BY <1>1, <1>3, <1>6, <2>2, WalkFacts, BytesInside
  <2> HIDE DEF w, q, k
  <2>5. walk' \in Walks /\ walk'.at = "record" /\ walk'.pos = q /\ walk'.dies > 0
    BY <2>1, <2>3 DEF Walks, Accepted
  <2>6. "record" \in Accepted
    BY DEF Accepted
  <2>7. walk'.pos \in ipds'.from .. ipds'.to
    BY <1>1, <2>1, <2>5
  <2> QED
    BY <1>1, <1>3, <2>4, <2>5, <2>6, <2>7, WalkFacts, GoesOnInv
<1>7. \A n \in 0 .. MaxRecords : RecordBytes + n * (IF walk.wide THEN 2 ELSE 1) \in Nat
  <2>1. \A n \in 0 .. MaxRecords : n \in Nat /\ n * 2 \in Nat /\ n * 1 \in Nat
    BY DiscoveryAssumption
  <2> QED
    BY <1>2, <2>1
<1>8. \/ Fails /\ touched' = touched
      \/ ~(walk.pos + RecordBytes > ipds.to) /\ Fails /\ touched' = touched \cup Bytes(walk.pos, RecordBytes)
      \/ \E n \in 0 .. MaxRecords :
            LET bytes == RecordBytes + n * (IF walk.wide THEN 2 ELSE 1)
            IN  /\ RecordFits(bytes) /\ touched' = touched \cup Bytes(walk.pos, bytes)
                /\ walk' = [walk EXCEPT !.pos = walk.pos + bytes, !.ips = walk.ips - 1]
  BY DEF ParseRecord
<1> QED
  BY <1>4, <1>5, <1>6, <1>7, <1>8

\* The die is done: nothing is read.
LEMMA DieDoneInv ==
    ASSUME DiscoveryInv, DieDone
    PROVE  DiscoveryInv'
<1>1. walk.at = "record" /\ UNCHANGED <<given, declared, ipds, ipTable, touched>>
  BY DEF DieDone, Parsing
<1> DEFINE w == walk
           k == walk.dies - 1
<1>2. w \in Walks /\ walk' = [w EXCEPT !.at = "die", !.dies = k] /\ walk.dies > 0
  BY <1>1, WalkFacts DEF DieDone
<1>3. k \in Nat
  BY <1>2 DEF Walks
<1> HIDE DEF w, k
<1>4. walk' \in Walks /\ walk'.at = "die"
  BY <1>2, <1>3 DEF Walks, Accepted
<1>5. "die" \in Accepted
  BY DEF Accepted
<1> QED
  BY <1>1, <1>4, <1>5, WalkFacts, GoesOnInv

\* GC_INFO is read inside the declared size only, and dev.ip is replaced when all is accepted.
LEMMA ParseGCInfoInv ==
    ASSUME DiscoveryInv, ParseGCInfo
    PROVE  DiscoveryInv'
<1>1. walk.at = "die" /\ UNCHANGED <<given, declared, ipds>>
  BY DEF ParseGCInfo
<1>2. TableBytes = 1 /\ TableBytes \in Nat /\ \A p \in Positions : p \in Nat
  BY DiscoveryAssumption DEF TableBytes, Positions
<1>3. walk \in Walks /\ ipds \in [from : Nat, to : Nat] /\ declared \in Nat
  BY <1>1, WalkFacts
<1>4. ASSUME walk' = [walk EXCEPT !.at = "done"], ipTable' = "new", touched' \subseteq 0 .. declared - 1
      PROVE  DiscoveryInv'
  <2> DEFINE w == walk
  <2>1. w \in Walks /\ walk' = [w EXCEPT !.at = "done"]
    BY <1>3, <1>4
  <2> HIDE DEF w
  <2>2. walk' \in Walks /\ walk'.at = "done"
    BY <2>1 DEF Walks, Accepted
  <2>3. "done" \in Accepted
    BY DEF Accepted
  <2> QED
    BY <1>1, <1>3, <1>4, <2>2, <2>3, WalkFacts, GoesOnInv
<1>5. CASE ipTable' = "new" /\ walk' = [walk EXCEPT !.at = "done"] /\ UNCHANGED touched
  BY <1>1, <1>4, <1>5, WalkFacts
<1>6. CASE Fails /\ UNCHANGED <<touched, ipTable>>
  BY <1>1, <1>3, <1>6, RefusedInv
<1>7. ASSUME NEW from \in Positions, NEW n \in 0 .. MaxBinary,
             from <= declared, declared - from >= TableBytes,
             \/ touched' = touched \cup Bytes(from, TableBytes) /\ Fails /\ UNCHANGED ipTable
             \/ /\ n <= declared - from /\ touched' = touched \cup Bytes(from, n)
                /\ \/ ipTable' = "new" /\ walk' = [walk EXCEPT !.at = "done"]
                   \/ Fails /\ UNCHANGED ipTable
      PROVE  DiscoveryInv'
  <2>1. from \in Nat /\ n \in Nat
    BY <1>2, DiscoveryAssumption
  <2>2. from + TableBytes <= declared
    BY <1>2, <1>3, <1>7, <2>1
  <2>3. CASE touched' = touched \cup Bytes(from, TableBytes) /\ Fails /\ UNCHANGED ipTable
    BY <1>1, <1>2, <1>3, <2>1, <2>2, <2>3, RefusedInv
  <2>4. CASE n <= declared - from /\ touched' = touched \cup Bytes(from, n) /\ Fails /\ UNCHANGED ipTable
    <3>1. from + n <= declared
      BY <1>3, <2>1, <2>4
    <3> QED
      BY <1>1, <1>3, <2>1, <2>4, <3>1, RefusedInv
  <2>5. CASE /\ n <= declared - from /\ touched' = touched \cup Bytes(from, n)
             /\ ipTable' = "new" /\ walk' = [walk EXCEPT !.at = "done"]
    <3>1. from + n <= declared
      BY <1>3, <2>1, <2>5
    <3>2. touched' \subseteq 0 .. declared - 1
      BY <1>1, <1>3, <2>1, <2>5, <3>1, WalkFacts, BytesInside
    <3> QED
      BY <1>4, <2>5, <3>2
  <2> QED
    BY <1>7, <2>3, <2>4, <2>5
<1> QED
  BY <1>5, <1>6, <1>7 DEF ParseGCInfo

\* Every step of discovery keeps the invariant.
LEMMA DiscoveryNextInv == DiscoveryInv /\ [DiscoveryNext]_discoveryVars => DiscoveryInv'
<1> SUFFICES ASSUME DiscoveryInv, [DiscoveryNext]_discoveryVars PROVE DiscoveryInv'
  OBVIOUS
<1>1. CASE UNCHANGED discoveryVars
  BY <1>1 DEF discoveryVars, DiscoveryInv, DiscoveryTypes, WalkInside, DiscoveryInBounds
<1>2. CASE DiscoveryNext
  BY <1>2, BeforeHeaderInv, ParseHeaderInv, ParseTableInv, ParseDieInv, ParseRecordInv, DieDoneInv, ParseGCInfoInv
     DEF DiscoveryNext
<1> QED
  BY <1>1, <1>2

\* The invariant of discovery: types, where the header, the tables and the walk may be, and
\* DiscoveryInBounds, for a binary of any size and any lengths in it.
THEOREM DiscoverySafe == DiscoverySpec => []DiscoveryInv
BY DiscoveryInitInv, DiscoveryNextInv, PTL DEF DiscoverySpec

\* discovery_parse reads only bytes the caller has and the header declares, no record crosses the
\* end of its table, and dev.ip is replaced only by a binary that has been accepted as a whole.
THEOREM WalkStaysInside == DiscoverySpec => []DiscoveryInBounds
<1>1. DiscoveryInv => DiscoveryInBounds
  BY DEF DiscoveryInv
<1> QED
  BY <1>1, DiscoverySafe, PTL

-----------------------------------------------------------------------------
(***************************************************************************)
(* Buffer tables                                                           *)
(***************************************************************************)
Entry(p) == bo[p[1]][p[2]]

\* A shared buffer that somebody refers to has a token an importer can present.
SharesNamed == \A i \in Ids : shared[i].refs > 0 => shared[i].token \in Tokens

\* The slot's owner is attached: it had a buffer when it registered, and it forgets the slot when
\* it leaves.  So a reset, which nobody else survives, never uncovers a slot of another client.
SlotAttached == sq.owner # NoClient => sq.owner \in attached /\ life[sq.owner] = "open"

\* A client that is gone has left no page to its successor.
AbsentEmpty == \A c \in Clients : life[c] = "absent" => pages[c] = {}

\* References, ranges and tokens: what a call does to the entries of one client concerns those of
\* all others only here.
SharesExact == ReferencesExact /\ RangesOwned /\ TokensUnique /\ SharesNamed
ClientsExact == PagesExact /\ OwnersKnown /\ SlotBacked /\ SlotAttached /\ AbsentEmpty

BuffersInv == TypeOK /\ SharesExact /\ ClientsExact

\* The types of an entry, a shared entry and the profiling slot.
ShareStates == [token : Tokens \cup {NoToken}, block : Blocks \cup {NoBlock}, refs : 0 .. MaxReferences]
SlotStates == [owner : Clients \cup {NoClient}, handle : (0 .. MaxGeneration) \X Slots]

\* Slots and their pages.
LEMMA PageNumbers ==
    /\ 0 \in Slots
    /\ \A s \in Slots : PageOf(s) \in Pages
    /\ \A p \in Pages : p * PerPage \in Slots /\ PageOf(p * PerPage) = p
<1>1. MaxPages \in Nat \ {0} /\ PerPage \in Nat \ {0}
  BY SizeAssumption
<1>2. MaxPages * PerPage \in Nat /\ MaxPages * PerPage >= 1
  BY <1>1
<1>3. ASSUME NEW s \in Slots PROVE PageOf(s) \in Pages
  <2>1. s \in Nat /\ s < MaxPages * PerPage
    BY <1>2 DEF Slots
  <2> DEFINE q == s \div PerPage
  <2>2. q \in Nat /\ s % PerPage \in Nat /\ s = PerPage * q + (s % PerPage)
    BY <1>1, <2>1, DivMod
  <2>3. PerPage * q \in Nat /\ PerPage * q < MaxPages * PerPage
    BY <1>1, <1>2, <2>1, <2>2
  <2> HIDE DEF q
  <2>4. q < MaxPages
    <3>1. CASE q >= MaxPages
      <4>1. PICK k \in Nat : q = MaxPages + k
        BY <1>1, <2>2, <3>1
      <4>2. PerPage * q = MaxPages * PerPage + PerPage * k /\ PerPage * k \in Nat
        BY <1>1, <4>1
      <4> QED
        BY <2>3, <4>2, <1>2
    <3> QED
      BY <1>1, <2>2, <3>1
  <2> QED
    BY <1>1, <2>2, <2>4 DEF q, PageOf, Pages
<1>4. ASSUME NEW p \in Pages PROVE p * PerPage \in Slots /\ PageOf(p * PerPage) = p
  <2>1. p \in Nat /\ p < MaxPages
    BY <1>1 DEF Pages
  <2>2. PICK k \in Nat : MaxPages = p + 1 + k
    BY <1>1, <2>1
  <2>3. MaxPages * PerPage = p * PerPage + PerPage + k * PerPage /\ k * PerPage \in Nat /\ p * PerPage \in Nat
    BY <1>1, <2>1, <2>2
  <2>4. p * PerPage \in Slots
    BY <1>1, <1>2, <2>3 DEF Slots
  <2> DEFINE n == p * PerPage
             q == n \div PerPage
  <2>5. q \in Nat /\ n % PerPage \in 0 .. PerPage - 1 /\ n = PerPage * q + (n % PerPage)
    BY <1>1, <2>3, DivMod
  <2>6. q = p
    <3> DEFINE r == n % PerPage
    <3>1. p * PerPage = PerPage * q + r /\ r \in Nat /\ r < PerPage
      BY <1>1, <2>5
    <3> HIDE DEF q, r, n
    <3>2. q \in Nat
      BY <2>5
    <3>3. CASE q < p
      <4>1. PICK j \in Nat : p = q + 1 + j
        BY <2>1, <3>2, <3>3
      <4>2. p * PerPage = PerPage * q + PerPage + j * PerPage /\ j * PerPage \in Nat /\ PerPage * q \in Nat
        BY <1>1, <3>2, <4>1
      <4> QED
        BY <1>1, <3>1, <4>2
    <3>4. CASE q > p
      <4>1. PICK j \in Nat : q = p + 1 + j
        BY <2>1, <3>2, <3>4
      <4>2. PerPage * q = p * PerPage + PerPage + j * PerPage /\ j * PerPage \in Nat /\ p * PerPage \in Nat
        BY <1>1, <2>1, <4>1
      <4> QED
        BY <1>1, <3>1, <4>2
    <3> QED
      BY <2>1, <3>2, <3>3, <3>4
  <2> QED
    BY <2>4, <2>6 DEF PageOf
<1> QED
  BY <1>1, <1>2, <1>3, <1>4 DEF Slots

\* The filled slots of a set of clients, as pairs.
LEMMA SlotsOfPairs ==
    \A C : \A p : p \in SlotsOf(C) <=> p \in C \X Slots /\ Entry(p) # Free
BY DEF SlotsOf, InUse, Entry

\* There are finitely many slots, so that references can be counted.
LEMMA OwnedFinite ==
    /\ IsFiniteSet(Clients \X Slots)
    /\ \A D, i : D \subseteq Clients \X Slots => IsFiniteSet(Naming(D, i)) /\ Cardinality(Naming(D, i)) \in Nat
<1>1. IsFiniteSet(Slots)
  BY SizeAssumption, FS_Interval DEF Slots
<1>2. IsFiniteSet(Clients \X Slots)
  BY <1>1, ClientsAssumption, FS_Product
<1>3. ASSUME NEW D, NEW i, D \subseteq Clients \X Slots
      PROVE  IsFiniteSet(Naming(D, i)) /\ Cardinality(Naming(D, i)) \in Nat
  <2>1. Naming(D, i) \subseteq Clients \X Slots
    BY <1>3 DEF Naming
  <2> QED
    BY <1>2, <2>1, FS_Subset, FS_CardinalityType
<1> QED
  BY <1>2, <1>3

\* Owned is the set of all filled slots.
LEMMA OwnedPairs ==
    /\ \A p : p \in Owned <=> p \in Clients \X Slots /\ Entry(p) # Free
    /\ \A p : p \in Owned' <=> p \in Clients \X Slots /\ Entry(p)' # Free
BY DEF Owned, SlotsOf, InUse, Entry

\* The type of the entries.
LEMMA EntryTypes ==
    ASSUME bo \in [Clients -> [Slots -> Entries \cup {Free}]]
    PROVE  /\ Free \notin Entries /\ Free.domain \notin Domains /\ Free.id = 0
           /\ \A p \in Clients \X Slots : Entry(p) \in Entries \cup {Free}
           /\ \A p \in Owned : Entry(p) \in Entries
<1>1. Free \notin Entries /\ Free.domain \notin Domains /\ Free.id = 0
  BY DEF Free, Entries, Domains, VRAMDomains
<1>2. \A p \in Clients \X Slots : Entry(p) \in Entries \cup {Free}
  BY DEF Entry
<1> QED
  BY <1>1, <1>2, OwnedPairs

\* The slot that bo_find_free_slot picks is free, has a page number in range, and the next
\* generation fits.
LEMMA FreeSlotFacts ==
    ASSUME TypeOK, PagesExact, NEW c \in Clients, NEW s, s \in FreeSlots(c)
    PROVE  /\ s \in Slots /\ bo[c][s] = Free /\ PageOf(s) \in Pages
           /\ NextGen(c) = gen[c] + 1 /\ NextGen(c) \in 0 .. MaxGeneration /\ gen[c] \in Nat
<1>1. gen[c] \in 0 .. MaxGeneration /\ gen[c] # MaxGeneration
  BY DEF TypeOK, FreeSlots
<1>2. NextGen(c) = gen[c] + 1 /\ NextGen(c) \in 0 .. MaxGeneration /\ gen[c] \in Nat
  BY <1>1, SizeAssumption DEF NextGen
<1>3. s \in Slots /\ bo[c][s] = Free
  <2> DEFINE open == {r \in Slots \ InUse(c) : PageOf(r) \in pages[c]}
             missing == {p * PerPage : p \in Pages \ pages[c]}
  <2>1. s \in open \/ s \in missing
    BY <1>1 DEF FreeSlots
  <2>2. CASE s \in open
    BY <2>2 DEF InUse
  <2>3. CASE s \in missing
    <3>1. PICK p \in Pages \ pages[c] : s = p * PerPage
      BY <2>3
    <3>2. s \in Slots /\ PageOf(s) \notin pages[c]
      BY <3>1, PageNumbers
    <3> QED
      BY <3>2 DEF PagesExact, InUse
  <2> QED
    BY <2>1, <2>2, <2>3
<1> QED
  BY <1>2, <1>3, PageNumbers

\* Filling a slot: it alone changes, and pages and generations go with it.
LEMMA StoreFacts ==
    ASSUME TypeOK, PagesExact, NEW c \in Clients, NEW s, s \in FreeSlots(c), NEW e \in Entries, Store(c, s, e)
    PROVE  /\ gen' \in [Clients -> 0 .. MaxGeneration] /\ gen'[c] = NextGen(c)
           /\ pages' \in [Clients -> SUBSET Pages] /\ pages'[c] = pages[c] \cup {PageOf(s)}
           /\ bo' \in [Clients -> [Slots -> Entries \cup {Free}]] /\ bo'[c][s] = e
           /\ \A d \in Clients \ {c} : gen'[d] = gen[d] /\ pages'[d] = pages[d] /\ bo'[d] = bo[d]
           /\ \A r \in Slots \ {s} : bo'[c][r] = bo[c][r]
<1>1. /\ s \in Slots /\ bo[c][s] = Free /\ PageOf(s) \in Pages /\ NextGen(c) \in 0 .. MaxGeneration
  BY FreeSlotFacts
<1>2. /\ gen \in [Clients -> 0 .. MaxGeneration] /\ pages \in [Clients -> SUBSET Pages]
      /\ bo \in [Clients -> [Slots -> Entries \cup {Free}]]
  BY DEF TypeOK
<1>3. gen' \in [Clients -> 0 .. MaxGeneration] /\ gen'[c] = NextGen(c)
      /\ \A d \in Clients \ {c} : gen'[d] = gen[d]
  BY <1>1, <1>2 DEF Store
<1>4. pages' \in [Clients -> SUBSET Pages] /\ pages'[c] = pages[c] \cup {PageOf(s)}
      /\ \A d \in Clients \ {c} : pages'[d] = pages[d]
  BY <1>1, <1>2 DEF Store
<1>5. /\ bo' \in [Clients -> [Slots -> Entries \cup {Free}]] /\ bo'[c][s] = e
      /\ \A d \in Clients \ {c} : bo'[d] = bo[d]
      /\ \A r \in Slots \ {s} : bo'[c][r] = bo[c][r]
  <2> DEFINE k == [bo[c] EXCEPT ![s] = e]
  <2>1. k \in [Slots -> Entries \cup {Free}] /\ k[s] = e /\ \A r \in Slots \ {s} : k[r] = bo[c][r]
    BY <1>1, <1>2
  <2>2. bo' = [bo EXCEPT ![c] = k]
    BY <1>2 DEF Store
  <2> HIDE DEF k
  <2> QED
    BY <1>2, <2>1, <2>2
<1> QED
  BY <1>3, <1>4, <1>5

\* One more entry is owned, and all others are as they were.
LEMMA StoreOwned ==
    ASSUME TypeOK, PagesExact, NEW c \in Clients, NEW s, s \in FreeSlots(c), NEW e \in Entries, Store(c, s, e)
    PROVE  /\ <<c, s>> \in Clients \X Slots /\ <<c, s>> \notin Owned /\ Owned' = Owned \cup {<<c, s>>}
           /\ \A p \in Owned : Entry(p)' = Entry(p)
           /\ Entry(<<c, s>>)' = e
<1>1. s \in Slots /\ bo[c][s] = Free
  BY FreeSlotFacts
<1>2. bo \in [Clients -> [Slots -> Entries \cup {Free}]]
  BY DEF TypeOK
<1>5. /\ bo'[c][s] = e
      /\ \A d \in Clients \ {c} : bo'[d] = bo[d]
      /\ \A r \in Slots \ {s} : bo'[c][r] = bo[c][r]
  BY StoreFacts
<1>6. \A p \in Clients \X Slots : Entry(p)' = IF p = <<c, s>> THEN e ELSE Entry(p)
  <2> SUFFICES ASSUME NEW d \in Clients, NEW r \in Slots
               PROVE  bo'[d][r] = IF d = c /\ r = s THEN e ELSE bo[d][r]
    BY DEF Entry
  <2> QED
    BY <1>5
<1>7. Entry(<<c, s>>) = Free /\ <<c, s>> \in Clients \X Slots /\ e # Free
  BY <1>1, <1>2, EntryTypes DEF Entry
<1>8. <<c, s>> \notin Owned
  BY <1>7, OwnedPairs
<1>9. Owned' = Owned \cup {<<c, s>>}
  BY <1>6, <1>7, OwnedPairs
<1> QED
  BY <1>6, <1>7, <1>8, <1>9, OwnedPairs

\* What filling a slot means for the clients' side: pages stay exact, and the sample slot's buffer
\* is another one.
LEMMA StoreKeepsClients ==
    ASSUME BuffersInv, NEW c \in Clients, NEW s, s \in FreeSlots(c), NEW e \in Entries,
           Store(c, s, e), Admitted(c), UNCHANGED sq
    PROVE  ClientsExact'
<1>1. s \in Slots /\ bo[c][s] = Free /\ e # Free
  BY FreeSlotFacts, EntryTypes DEF BuffersInv, TypeOK, ClientsExact
<1>2. /\ \A d \in Clients \ {c} : bo'[d] = bo[d] /\ pages'[d] = pages[d]
      /\ \A r \in Slots \ {s} : bo'[c][r] = bo[c][r]
      /\ bo'[c][s] = e /\ pages'[c] = pages[c] \cup {PageOf(s)}
  <2>1. TypeOK /\ PagesExact
    BY DEF BuffersInv, ClientsExact
  <2> QED
    BY <2>1, StoreFacts
<1>3. life[c] = "open" /\ ~blocked /\ attached' = attached \cup {c} /\ life' = life
  BY DEF Admitted
<1>4. PagesExact'
  <2> SUFFICES ASSUME NEW d \in Clients
               PROVE  /\ \A r \in Slots : bo'[d][r] # Free => PageOf(r) \in pages'[d]
                      /\ life'[d] = "open" => \A p \in pages'[d] : \E r \in InPage(p) : bo'[d][r] # Free
    BY DEF PagesExact, InUse
  <2>1. /\ \A r \in Slots : bo[d][r] # Free => PageOf(r) \in pages[d]
        /\ life[d] = "open" => \A p \in pages[d] : \E r \in InPage(p) : bo[d][r] # Free
    BY DEF BuffersInv, ClientsExact, PagesExact, InUse
  <2>2. CASE d # c
    BY <1>2, <1>3, <2>1, <2>2
  <2>3. CASE d = c
    <3>1. \A r \in Slots : bo[c][r] # Free => bo'[c][r] # Free
      BY <1>1, <1>2
    <3>2. s \in InPage(PageOf(s)) /\ \A p : InPage(p) \subseteq Slots
      BY <1>1 DEF InPage
    <3> QED
      BY <1>1, <1>2, <1>3, <2>1, <2>3, <3>1, <3>2
  <2> QED
    BY <2>2, <2>3
<1>5. OwnersKnown'
  BY <1>1, <1>2, <1>3 DEF BuffersInv, ClientsExact, OwnersKnown, InUse
<1>6. SlotAttached' /\ AbsentEmpty'
  BY <1>2, <1>3 DEF BuffersInv, ClientsExact, SlotAttached, AbsentEmpty
<1>7. SlotBacked'
  <2> SUFFICES ASSUME sq.owner # NoClient
               PROVE  /\ life[sq.owner] = "open" /\ sq.handle[2] \in Slots
                      /\ PageOf(sq.handle[2]) \in pages'[sq.owner]
                      /\ bo'[sq.owner][sq.handle[2]] # Free
                      /\ bo'[sq.owner][sq.handle[2]].gen = sq.handle[1]
                      /\ bo'[sq.owner][sq.handle[2]].domain = "GTT"
    BY <1>3 DEF SlotBacked, Resolves
  <2>1. sq.owner \in Clients
    BY DEF BuffersInv, TypeOK
  <2>2. /\ life[sq.owner] = "open" /\ sq.handle[2] \in Slots
        /\ PageOf(sq.handle[2]) \in pages[sq.owner]
        /\ bo[sq.owner][sq.handle[2]] # Free
        /\ bo[sq.owner][sq.handle[2]].gen = sq.handle[1]
        /\ bo[sq.owner][sq.handle[2]].domain = "GTT"
    BY <1>3 DEF BuffersInv, ClientsExact, SlotBacked, Resolves
  <2> QED
    BY <1>1, <1>2, <2>1, <2>2
<1> QED
  BY <1>4, <1>5, <1>6, <1>7 DEF ClientsExact

\* The parts of SharesExact, of entries as pairs.
LEMMA RangesPairs ==
    ASSUME RangesOwned
    PROVE  /\ \A p \in Owned : Entry(p).domain \in VRAMDomains => Entry(p).block \in pool[Entry(p).domain]
           /\ \A p, q \in Owned : /\ Entry(p).domain \in VRAMDomains /\ p # q
                                  /\ Entry(q).domain = Entry(p).domain /\ Entry(q).block = Entry(p).block
                                  => Entry(p).id # 0 /\ Entry(q).id = Entry(p).id
           /\ \A d \in VRAMDomains : \A b \in pool[d] :
                 \E p \in Owned : Entry(p).domain = d /\ Entry(p).block = b
BY DEF RangesOwned, Entry

\* And back, in the next state.
LEMMA RangesFromPairs ==
    ASSUME \A p \in Owned' : Entry(p)'.domain \in VRAMDomains => Entry(p)'.block \in pool'[Entry(p)'.domain],
           \A p, q \in Owned' : /\ Entry(p)'.domain \in VRAMDomains /\ p # q
                                /\ Entry(q)'.domain = Entry(p)'.domain /\ Entry(q)'.block = Entry(p)'.block
                                => Entry(p)'.id # 0 /\ Entry(q)'.id = Entry(p)'.id,
           \A d \in VRAMDomains : \A b \in pool'[d] :
                 \E p \in Owned' : Entry(p)'.domain = d /\ Entry(p)'.block = b
    PROVE  RangesOwned'
BY DEF RangesOwned, Entry

\* Tokens, likewise.
LEMMA TokensPairs ==
    /\ TokensUnique <=>
        /\ \A i, j \in Ids : i # j /\ shared[i].refs > 0 => shared[i].token # shared[j].token
        /\ \A p \in Owned : Entry(p).id # 0 =>
               Entry(p).domain = "Device" /\ Entry(p).block = shared[Entry(p).id].block
    /\ TokensUnique' <=>
        /\ \A i, j \in Ids : i # j /\ shared'[i].refs > 0 => shared'[i].token # shared'[j].token
        /\ \A p \in Owned' : Entry(p)'.id # 0 =>
               Entry(p)'.domain = "Device" /\ Entry(p)'.block = shared'[Entry(p)'.id].block
BY DEF TokensUnique, Entry

\* The slots of D that name shared buffer i.
LEMMA NamingPairs ==
    /\ \A D, i : \A p : p \in Naming(D, i) <=> p \in D /\ Entry(p).id = i
    /\ \A D, i : \A p : p \in Naming(D, i)' <=> p \in D' /\ Entry(p)'.id = i'
BY DEF Naming, Entry

\* A call that leaves the shared buffers and the pools alone, and of entries touches only those of
\* host memory: it may mark one partial or drop it.
LEMMA HostCallKeepsShares ==
    ASSUME TypeOK, SharesExact, UNCHANGED <<shared, pool>>, Owned' \subseteq Owned,
           \A p \in Owned' : \/ Entry(p)' = Entry(p)
                             \/ /\ Entry(p).id = 0 /\ Entry(p)'.id = 0
                                /\ Entry(p).domain \notin VRAMDomains /\ Entry(p)'.domain \notin VRAMDomains,
           \A p \in Owned \ Owned' : Entry(p).domain \notin VRAMDomains /\ Entry(p).id = 0
    PROVE  SharesExact'
<1>1. ReferencesExact'
  <2> SUFFICES ASSUME NEW i \in Ids PROVE shared'[i].refs = Cardinality({p \in Owned' : Entry(p)'.id = i})
    BY DEF ReferencesExact, Naming, Entry
  <2>1. i # 0
    BY SizeAssumption DEF Ids
  <2>2. {p \in Owned' : Entry(p)'.id = i} = Naming(Owned, i)
    BY <2>1, NamingPairs
  <2> QED
    BY <2>2 DEF SharesExact, ReferencesExact
<1>2. RangesOwned'
  <2>1. \A p \in Owned' : Entry(p)'.domain \in VRAMDomains => p \in Owned /\ Entry(p)' = Entry(p)
    OBVIOUS
  <2>2. \A p \in Owned : Entry(p).domain \in VRAMDomains => p \in Owned' /\ Entry(p)' = Entry(p)
    OBVIOUS
  <2>3. RangesOwned
    BY DEF SharesExact
  <2> HIDE DEF Owned
  <2>4. \A p \in Owned' : Entry(p)'.domain \in VRAMDomains => Entry(p)'.block \in pool'[Entry(p)'.domain]
    BY <2>1, <2>3, RangesPairs
  <2>5. \A d \in VRAMDomains : \A b \in pool'[d] :
                 \E p \in Owned' : Entry(p)'.domain = d /\ Entry(p)'.block = b
    BY <2>2, <2>3, RangesPairs
  <2>6. ASSUME NEW p \in Owned', NEW q \in Owned', Entry(p)'.domain \in VRAMDomains, p # q,
               Entry(q)'.domain = Entry(p)'.domain, Entry(q)'.block = Entry(p)'.block
        PROVE  Entry(p)'.id # 0 /\ Entry(q)'.id = Entry(p)'.id
    <3>1. p \in Owned /\ q \in Owned /\ Entry(p)' = Entry(p) /\ Entry(q)' = Entry(q)
      BY <2>1, <2>6
    <3> QED
      BY <2>3, <2>6, <3>1, RangesPairs
  <2> QED
    BY <2>4, <2>5, <2>6, RangesFromPairs
<1>3. TokensUnique'
  <2>1. TokensUnique
    BY DEF SharesExact
  <2> QED
    BY <2>1, TokensPairs
<1>4. SharesNamed'
  BY DEF SharesExact, SharesNamed
<1> QED
  BY <1>1, <1>2, <1>3, <1>4 DEF SharesExact

\* A new entry of its own: a range nobody has, or host memory.
LEMMA OwnEntryKeepsShares ==
    ASSUME TypeOK, SharesExact, NEW n \in Clients \X Slots, n \notin Owned, Owned' = Owned \cup {n},
           \A p \in Owned : Entry(p)' = Entry(p),
           Entry(n)'.id = 0, UNCHANGED shared,
           \/ Entry(n)'.domain \notin VRAMDomains /\ UNCHANGED pool
           \/ \E d \in VRAMDomains : /\ Entry(n)'.domain = d /\ Entry(n)'.block \notin pool[d]
                                     /\ pool' = [pool EXCEPT ![d] = @ \cup {Entry(n)'.block}]
    PROVE  SharesExact'
<1>1. ReferencesExact'
  <2> SUFFICES ASSUME NEW i \in Ids PROVE shared'[i].refs = Cardinality({p \in Owned' : Entry(p)'.id = i})
    BY DEF ReferencesExact, Naming, Entry
  <2>1. i # 0
    BY SizeAssumption DEF Ids
  <2>2. {p \in Owned' : Entry(p)'.id = i} = Naming(Owned, i)
    BY <2>1, NamingPairs
  <2> QED
    BY <2>2 DEF SharesExact, ReferencesExact
<1>2. RangesOwned'
  <2>1. RangesOwned /\ pool \in [VRAMDomains -> SUBSET Blocks]
    BY DEF SharesExact, TypeOK
  <2>2. CASE Entry(n)'.domain \notin VRAMDomains /\ UNCHANGED pool
    <3>1. \A p \in Owned' : Entry(p)'.domain \in VRAMDomains => p \in Owned /\ Entry(p)' = Entry(p)
      BY <2>2
    <3>2. \A p \in Owned' : Entry(p)'.domain \in VRAMDomains => Entry(p)'.block \in pool'[Entry(p)'.domain]
      BY <2>1, <2>2, <3>1, RangesPairs
    <3>3. \A d \in VRAMDomains : \A b \in pool'[d] :
                 \E p \in Owned' : Entry(p)'.domain = d /\ Entry(p)'.block = b
      BY <2>1, <2>2, RangesPairs
    <3>4. ASSUME NEW p \in Owned', NEW q \in Owned', Entry(p)'.domain \in VRAMDomains, p # q,
                 Entry(q)'.domain = Entry(p)'.domain, Entry(q)'.block = Entry(p)'.block
          PROVE  Entry(p)'.id # 0 /\ Entry(q)'.id = Entry(p)'.id
      <4>1. p \in Owned /\ q \in Owned /\ Entry(p)' = Entry(p) /\ Entry(q)' = Entry(q)
        BY <3>1, <3>4
      <4> QED
        BY <2>1, <3>4, <4>1, RangesPairs
    <3> QED
      BY <3>2, <3>3, <3>4, RangesFromPairs
  <2>3. ASSUME NEW d \in VRAMDomains, Entry(n)'.domain = d, Entry(n)'.block \notin pool[d],
               pool' = [pool EXCEPT ![d] = @ \cup {Entry(n)'.block}]
        PROVE  RangesOwned'
    <3> DEFINE b0 == Entry(n)'.block
    <3>1. pool'[d] = pool[d] \cup {b0} /\ \A e \in VRAMDomains \ {d} : pool'[e] = pool[e]
      BY <2>1, <2>3
    <3>2. \A p \in Owned : ~(Entry(p).domain = d /\ Entry(p).block = b0)
      BY <2>1, <2>3, RangesPairs
    <3> HIDE DEF b0
    <3>3. n \in Owned' /\ Entry(n)'.domain = d /\ Entry(n)'.block = b0
      BY <2>3 DEF b0
    <3>4. \A p \in Owned' : p = n \/ (p \in Owned /\ Entry(p)' = Entry(p))
      OBVIOUS
    <3>5. \A p \in Owned' : Entry(p)'.domain \in VRAMDomains => Entry(p)'.block \in pool'[Entry(p)'.domain]
      BY <2>1, <3>1, <3>3, <3>4, RangesPairs
    <3>6. \A e \in VRAMDomains : \A b \in pool'[e] :
                 \E p \in Owned' : Entry(p)'.domain = e /\ Entry(p)'.block = b
      BY <2>1, <3>1, <3>3, RangesPairs
    <3>7. ASSUME NEW p \in Owned', NEW q \in Owned', Entry(p)'.domain \in VRAMDomains, p # q,
                 Entry(q)'.domain = Entry(p)'.domain, Entry(q)'.block = Entry(p)'.block
          PROVE  Entry(p)'.id # 0 /\ Entry(q)'.id = Entry(p)'.id
      <4>1. p \in Owned /\ q \in Owned /\ Entry(p)' = Entry(p) /\ Entry(q)' = Entry(q)
        BY <3>2, <3>3, <3>4, <3>7
      <4> QED
        BY <2>1, <3>7, <4>1, RangesPairs
    <3> QED
      BY <3>5, <3>6, <3>7, RangesFromPairs
  <2> QED
    BY <2>2, <2>3
<1>3. TokensUnique'
  <2>1. TokensUnique
    BY DEF SharesExact
  <2> QED
    BY <2>1, TokensPairs
<1>4. SharesNamed'
  BY DEF SharesExact, SharesNamed
<1> QED
  BY <1>1, <1>2, <1>3, <1>4 DEF SharesExact

\* Counting one more or less: the slots that name a shared buffer.
LEMMA CountOneMore ==
    ASSUME NEW S, NEW n, IsFiniteSet(S), n \notin S
    PROVE  Cardinality(S \cup {n}) = Cardinality(S) + 1
BY FS_AddElement

\* BOImport: one more entry for shared buffer i, with a reference of its own.
LEMMA ImportKeepsShares ==
    ASSUME TypeOK, SharesExact, NEW n \in Clients \X Slots, n \notin Owned, Owned' = Owned \cup {n},
           \A p \in Owned : Entry(p)' = Entry(p), UNCHANGED pool,
           NEW i \in Ids, shared[i].refs \in 1 .. MaxReferences - 1,
           shared' = [shared EXCEPT ![i].refs = @ + 1],
           Entry(n)'.domain = "Device", Entry(n)'.block = shared[i].block, Entry(n)'.id = i
    PROVE  SharesExact' /\ shared' \in [Ids -> ShareStates]
<1>1. shared \in [Ids -> ShareStates]
  BY DEF TypeOK, ShareStates
<1>2. /\ shared' \in [Ids -> ShareStates] /\ shared'[i].refs = shared[i].refs + 1
      /\ \A j \in Ids \ {i} : shared'[j] = shared[j]
      /\ \A j \in Ids : shared'[j].token = shared[j].token /\ shared'[j].block = shared[j].block
      /\ \A j \in Ids : shared'[j].refs > 0 => shared[j].refs > 0
  <2> DEFINE k == [shared[i] EXCEPT !.refs = @ + 1]
  <2>1. k \in ShareStates /\ k.refs = shared[i].refs + 1 /\ k.token = shared[i].token /\ k.block = shared[i].block
    BY <1>1, SizeAssumption DEF ShareStates
  <2>2. shared' = [shared EXCEPT ![i] = k]
    BY <1>1
  <2> HIDE DEF k
  <2> QED
    BY <1>1, <2>1, <2>2
<1>3. i # 0
  BY SizeAssumption DEF Ids
<1>4. \A p \in Owned' : p = n \/ (p \in Owned /\ Entry(p)' = Entry(p))
  OBVIOUS
<1>5. Owned \subseteq Clients \X Slots
  BY OwnedPairs
<1>6. ReferencesExact'
  <2> SUFFICES ASSUME NEW j \in Ids PROVE shared'[j].refs = Cardinality({p \in Owned' : Entry(p)'.id = j})
    BY DEF ReferencesExact, Naming, Entry
  <2>1. shared[j].refs = Cardinality(Naming(Owned, j))
    BY DEF SharesExact, ReferencesExact
  <2>2. CASE j # i
    <3>1. {p \in Owned' : Entry(p)'.id = j} = Naming(Owned, j)
      BY <1>4, <2>2, NamingPairs
    <3> QED
      BY <1>2, <2>1, <2>2, <3>1
  <2>3. CASE j = i
    <3>1. {p \in Owned' : Entry(p)'.id = j} = Naming(Owned, j) \cup {n}
      BY <1>4, <2>3, NamingPairs
    <3>2. IsFiniteSet(Naming(Owned, j)) /\ n \notin Naming(Owned, j)
      BY <1>5, OwnedFinite, NamingPairs
    <3> QED
      BY <1>2, <2>1, <2>3, <3>1, <3>2, CountOneMore
  <2> QED
    BY <2>2, <2>3
<1>7. PICK q0 \in Owned : Entry(q0).id = i
  <2>1. shared[i].refs = Cardinality(Naming(Owned, i)) /\ shared[i].refs # 0
    BY DEF SharesExact, ReferencesExact
  <2>2. Naming(Owned, i) # {}
    BY <2>1, FS_EmptySet
  <2> QED
    BY <2>2, NamingPairs
<1>8. Entry(q0).domain = "Device" /\ Entry(q0).block = shared[i].block
  BY <1>3, <1>7, TokensPairs DEF SharesExact
<1>9. RangesOwned'
  <2>1. RangesOwned
    BY DEF SharesExact
  <2>2. \A p \in Owned' : Entry(p)'.domain \in VRAMDomains => Entry(p)'.block \in pool'[Entry(p)'.domain]
    BY <1>4, <1>7, <1>8, <2>1, RangesPairs
  <2>3. \A d \in VRAMDomains : \A b \in pool'[d] :
                 \E p \in Owned' : Entry(p)'.domain = d /\ Entry(p)'.block = b
    BY <2>1, RangesPairs
  <2>4. \A q \in Owned : Entry(q).domain = "Device" /\ Entry(q).block = shared[i].block => Entry(q).id = i
    BY <1>7, <1>8, <2>1, RangesPairs DEF VRAMDomains
  <2>5. ASSUME NEW p \in Owned', NEW q \in Owned', Entry(p)'.domain \in VRAMDomains, p # q,
               Entry(q)'.domain = Entry(p)'.domain, Entry(q)'.block = Entry(p)'.block
        PROVE  Entry(p)'.id # 0 /\ Entry(q)'.id = Entry(p)'.id
    <3>1. CASE p = n
      <4>1. q \in Owned /\ Entry(q)' = Entry(q)
        BY <1>4, <2>5, <3>1
      <4> QED
        BY <1>3, <2>4, <2>5, <3>1, <4>1
    <3>2. CASE q = n
      <4>1. p \in Owned /\ Entry(p)' = Entry(p)
        BY <1>4, <2>5, <3>2
      <4> QED
        BY <1>3, <2>4, <2>5, <3>2, <4>1
    <3>3. CASE p # n /\ q # n
      <4>1. p \in Owned /\ q \in Owned /\ Entry(p)' = Entry(p) /\ Entry(q)' = Entry(q)
        BY <1>4, <3>3
      <4> QED
        BY <2>1, <2>5, <4>1, RangesPairs
    <3> QED
      BY <3>1, <3>2, <3>3
  <2> QED
    BY <2>2, <2>3, <2>5, RangesFromPairs
<1>10. TokensUnique'
  <2>1. \A p \in Owned : Entry(p).id # 0 => Entry(p).id \in Ids
    <3>1. \A p \in Owned : Entry(p) \in Entries
      BY EntryTypes DEF TypeOK
    <3> QED
      BY <3>1, SizeAssumption DEF Entries, Ids
  <2>2. TokensUnique
    BY DEF SharesExact
  <2>3. \A j, k \in Ids : j # k /\ shared'[j].refs > 0 => shared'[j].token # shared'[k].token
    BY <1>2, <2>2, TokensPairs
  <2>4. \A p \in Owned' : Entry(p)'.id # 0 =>
               Entry(p)'.domain = "Device" /\ Entry(p)'.block = shared'[Entry(p)'.id].block
    BY <1>2, <1>4, <2>1, <2>2, TokensPairs
  <2> QED
    BY <2>3, <2>4, TokensPairs
<1>11. SharesNamed'
  BY <1>2 DEF SharesExact, SharesNamed
<1> QED
  BY <1>2, <1>6, <1>9, <1>10, <1>11 DEF SharesExact

\* BOExport: an entry not shared before becomes the one reference of an unused shared buffer.
LEMMA ExportKeepsShares ==
    ASSUME TypeOK, SharesExact, NEW n \in Owned, Owned' = Owned, UNCHANGED pool,
           \A p \in Owned \ {n} : Entry(p)' = Entry(p),
           NEW i \in Ids, shared[i].refs = 0, NEW t \in Tokens, t \notin {shared[j].token : j \in Ids},
           shared' = [shared EXCEPT ![i] = [token |-> t, block |-> Entry(n).block, refs |-> 1]],
           Entry(n).domain = "Device", Entry(n).id = 0,
           Entry(n)'.domain = "Device", Entry(n)'.block = Entry(n).block, Entry(n)'.id = i
    PROVE  SharesExact' /\ shared' \in [Ids -> ShareStates]
<1>1. shared \in [Ids -> ShareStates] /\ Entry(n) \in Entries /\ \A p \in Owned : Entry(p) \in Entries
  BY EntryTypes DEF TypeOK, ShareStates
<1>2. /\ shared' \in [Ids -> ShareStates]
      /\ shared'[i].refs = 1 /\ shared'[i].token = t /\ shared'[i].block = Entry(n).block
      /\ \A j \in Ids \ {i} : shared'[j] = shared[j]
  <2> DEFINE k == [token |-> t, block |-> Entry(n).block, refs |-> 1]
  <2>1. k \in ShareStates /\ k.refs = 1 /\ k.token = t /\ k.block = Entry(n).block
    BY <1>1, SizeAssumption DEF ShareStates, Entries
  <2> HIDE DEF k
  <2>2. shared' = [shared EXCEPT ![i] = k]
    BY DEF k
  <2> QED
    BY <1>1, <2>1, <2>2
<1>3. i # 0
  BY SizeAssumption DEF Ids
<1>4. Owned \subseteq Clients \X Slots
  BY OwnedPairs
<1>5. \A p \in Owned : Entry(p).id # i
  <2>1. Cardinality(Naming(Owned, i)) = 0
    BY DEF SharesExact, ReferencesExact
  <2>2. Naming(Owned, i) = {}
    BY <1>4, <2>1, OwnedFinite, FS_EmptySet
  <2> QED
    BY <2>2, NamingPairs
<1>6. ReferencesExact'
  <2> SUFFICES ASSUME NEW j \in Ids PROVE shared'[j].refs = Cardinality({p \in Owned' : Entry(p)'.id = j})
    BY DEF ReferencesExact, Naming, Entry
  <2>1. shared[j].refs = Cardinality(Naming(Owned, j)) /\ j # 0
    BY SizeAssumption DEF SharesExact, ReferencesExact, Ids
  <2>2. CASE j # i
    <3>1. {p \in Owned' : Entry(p)'.id = j} = Naming(Owned, j)
      BY <2>1, <2>2, NamingPairs
    <3> QED
      BY <1>2, <2>1, <2>2, <3>1
  <2>3. CASE j = i
    <3>1. {p \in Owned' : Entry(p)'.id = j} = {n}
      BY <1>5, <2>3
    <3>2. Cardinality({n}) = 1
      BY FS_Singleton
    <3>3. shared'[j].refs = 1
      BY <1>2, <2>3
    <3> QED
      BY <3>1, <3>2, <3>3
  <2> QED
    BY <2>2, <2>3
<1>7. RangesOwned'
  <2>1. RangesOwned
    BY DEF SharesExact
  <2>2. \A p \in Owned : Entry(p)'.domain = Entry(p).domain /\ Entry(p)'.block = Entry(p).block
    OBVIOUS
  <2>3. \A q \in Owned : q # n /\ Entry(q).domain = "Device" => Entry(q).block # Entry(n).block
    BY <2>1, RangesPairs DEF VRAMDomains
  <2>4. \A p \in Owned' : Entry(p)'.domain \in VRAMDomains => Entry(p)'.block \in pool'[Entry(p)'.domain]
    BY <2>1, <2>2, RangesPairs
  <2>5. \A d \in VRAMDomains : \A b \in pool'[d] :
                 \E p \in Owned' : Entry(p)'.domain = d /\ Entry(p)'.block = b
    BY <2>1, <2>2, RangesPairs
  <2>6. ASSUME NEW p \in Owned', NEW q \in Owned', Entry(p)'.domain \in VRAMDomains, p # q,
               Entry(q)'.domain = Entry(p)'.domain, Entry(q)'.block = Entry(p)'.block
        PROVE  Entry(p)'.id # 0 /\ Entry(q)'.id = Entry(p)'.id
    <3>1. p # n /\ q # n
      BY <2>2, <2>3, <2>6
    <3>2. p \in Owned /\ q \in Owned /\ Entry(p)' = Entry(p) /\ Entry(q)' = Entry(q)
      BY <3>1
    <3> QED
      BY <2>1, <2>6, <3>2, RangesPairs
  <2> QED
    BY <2>4, <2>5, <2>6, RangesFromPairs
<1>8. TokensUnique'
  <2>1. TokensUnique
    BY DEF SharesExact
  <2>2. \A j \in Ids : shared[j].token # t
    OBVIOUS
  <2>3. \A j, k \in Ids : j # k /\ shared'[j].refs > 0 => shared'[j].token # shared'[k].token
    BY <1>2, <2>1, <2>2, TokensPairs
  <2>4. \A p \in Owned : Entry(p).id # 0 => Entry(p).id \in Ids
    BY <1>1, SizeAssumption DEF Entries, Ids
  <2>5. \A p \in Owned' : Entry(p)'.id # 0 =>
               Entry(p)'.domain = "Device" /\ Entry(p)'.block = shared'[Entry(p)'.id].block
    BY <1>2, <1>5, <2>1, <2>4, TokensPairs
  <2> QED
    BY <2>3, <2>5, TokensPairs
<1>9. SharesNamed'
  BY <1>2 DEF SharesExact, SharesNamed
<1> QED
  BY <1>2, <1>6, <1>7, <1>8, <1>9 DEF SharesExact

\* What Release does to a shared entry: the references of D go, and an entry nobody refers to any
\* more is forgotten.
LEMMA ReleaseFacts ==
    ASSUME TypeOK, ReferencesExact, NEW D \in SUBSET Owned, Release(D)
    PROVE  /\ shared' \in [Ids -> ShareStates]
           /\ \A i \in Ids : /\ Naming(D, i) \subseteq Naming(Owned, i)
                             /\ shared'[i].refs = shared[i].refs - Cardinality(Naming(D, i))
                             /\ shared'[i].refs = Cardinality(Naming(Owned, i) \ Naming(D, i))
                             /\ shared'[i].refs # 0 => /\ shared'[i].token = shared[i].token
                                                       /\ shared'[i].block = shared[i].block
                                                       /\ shared[i].refs > 0
                             /\ shared'[i] = shared[i] \/ shared'[i].refs > 0 \/ shared'[i] = Unshared
<1>1. shared \in [Ids -> ShareStates] /\ Unshared \in ShareStates /\ Unshared.refs = 0
  BY SizeAssumption DEF TypeOK, ShareStates, Unshared
<1>2. Owned \subseteq Clients \X Slots
  BY OwnedPairs
<1> DEFINE new(i) == IF Naming(D, i) = {} THEN shared[i]
                     ELSE IF Left(D, i) = 0 THEN Unshared
                     ELSE [shared[i] EXCEPT !.refs = Left(D, i)]
<1>3. ASSUME NEW i \in Ids
      PROVE  /\ Naming(D, i) \subseteq Naming(Owned, i)
             /\ Left(D, i) = shared[i].refs - Cardinality(Naming(D, i))
             /\ Left(D, i) = Cardinality(Naming(Owned, i) \ Naming(D, i))
             /\ Left(D, i) \in 0 .. MaxReferences /\ Left(D, i) <= shared[i].refs
             /\ Naming(D, i) = {} => Left(D, i) = shared[i].refs
  <2> DEFINE A == Naming(Owned, i)
             B == Naming(D, i)
  <2>1. B \subseteq A
    BY NamingPairs
  <2>2. IsFiniteSet(A) /\ Cardinality(A) \in Nat /\ IsFiniteSet(B) /\ Cardinality(B) \in Nat
    BY <1>2, OwnedFinite
  <2>3. shared[i].refs = Cardinality(A) /\ shared[i].refs \in 0 .. MaxReferences
    BY <1>1 DEF ReferencesExact, ShareStates
  <2>4. Left(D, i) = shared[i].refs - Cardinality(B)
    BY DEF Left
  <2> HIDE DEF A, B
  <2>5. Cardinality(A \ B) = Cardinality(A) - Cardinality(A \cap B)
    BY <2>2, FS_Difference
  <2>6. A \cap B = B /\ IsFiniteSet(A \ B)
    BY <2>1, <2>2, FS_Difference
  <2>7. Cardinality(A \ B) \in Nat
    BY <2>6, FS_CardinalityType
  <2>8. B = {} => Cardinality(B) = 0
    BY FS_EmptySet
  <2>9. Left(D, i) = Cardinality(A \ B)
    BY <2>3, <2>4, <2>5, <2>6
  <2>10. Left(D, i) \in 0 .. MaxReferences /\ Left(D, i) <= shared[i].refs
    BY <2>2, <2>3, <2>4, <2>7, <2>9, SizeAssumption
  <2>11. B = {} => Left(D, i) = shared[i].refs
    BY <2>3, <2>4, <2>8
  <2> QED
    BY <2>1, <2>4, <2>9, <2>10, <2>11 DEF A, B
<1>4. ASSUME NEW i \in Ids
      PROVE  /\ new(i) \in ShareStates /\ new(i).refs = Left(D, i)
             /\ new(i).refs # 0 => /\ new(i).token = shared[i].token /\ new(i).block = shared[i].block
             /\ new(i) = shared[i] \/ new(i).refs > 0 \/ new(i) = Unshared
  <2>1. shared[i] \in ShareStates
    BY <1>1
  <2>2. CASE Naming(D, i) = {}
    BY <1>3, <2>1, <2>2
  <2>3. CASE Naming(D, i) # {} /\ Left(D, i) = 0
    BY <1>1, <2>3
  <2>4. CASE Naming(D, i) # {} /\ Left(D, i) # 0
    <3> DEFINE k == [shared[i] EXCEPT !.refs = Left(D, i)]
    <3>1. Left(D, i) \in 0 .. MaxReferences
      BY <1>3
    <3>2. k \in ShareStates /\ k.refs = Left(D, i) /\ k.token = shared[i].token /\ k.block = shared[i].block
      BY <2>1, <3>1 DEF ShareStates
    <3>3. new(i) = k
      BY <2>4
    <3>4. k.refs > 0
      BY <2>4, <3>1, <3>2, SizeAssumption
    <3> HIDE DEF k, new
    <3> QED
      BY <3>2, <3>3, <3>4
  <2> QED
    BY <2>2, <2>3, <2>4
<1>5. shared' = [i \in Ids |-> new(i)]
  BY DEF Release
<1> HIDE DEF new
<1>6. shared' \in [Ids -> ShareStates] /\ \A i \in Ids : shared'[i] = new(i)
  BY <1>4, <1>5
<1>7. \A i \in Ids : shared'[i].refs # 0 => shared[i].refs > 0
  <2> SUFFICES ASSUME NEW i \in Ids, shared'[i].refs # 0 PROVE shared[i].refs > 0
    OBVIOUS
  <2>1. shared'[i].refs = Left(D, i)
    BY <1>4, <1>6
  <2>2. shared[i].refs \in Nat
    BY <1>1, SizeAssumption DEF ShareStates
  <2>3. Left(D, i) \in 0 .. MaxReferences /\ Left(D, i) <= shared[i].refs
    BY <1>3
  <2> QED
    BY <2>1, <2>2, <2>3, SizeAssumption
<1> QED
  BY <1>3, <1>4, <1>6, <1>7

\* The end of the entries in D, with the ranges that no entry outside D needs.
LEMMA ReleaseKeepsShares ==
    ASSUME TypeOK, SharesExact, NEW D \in SUBSET Owned, Release(D),
           Owned' = Owned \ D, \A p \in Owned' : Entry(p)' = Entry(p),
           pool' = [d \in VRAMDomains |-> pool[d] \ Returned(D, d)]
    PROVE  SharesExact' /\ shared' \in [Ids -> ShareStates] /\ pool' \in [VRAMDomains -> SUBSET Blocks]
<1>1. ReferencesExact /\ RangesOwned /\ TokensUnique /\ SharesNamed
  BY DEF SharesExact
<1>2. shared' \in [Ids -> ShareStates]
  BY <1>1, ReleaseFacts
<1>3. ASSUME NEW i \in Ids
      PROVE  /\ Naming(D, i) \subseteq Naming(Owned, i)
             /\ shared'[i].refs = shared[i].refs - Cardinality(Naming(D, i))
             /\ shared'[i].refs = Cardinality(Naming(Owned, i) \ Naming(D, i))
             /\ shared'[i].refs # 0 => /\ shared'[i].token = shared[i].token
                                       /\ shared'[i].block = shared[i].block
                                       /\ shared[i].refs > 0
             /\ shared'[i] = shared[i] \/ shared'[i].refs > 0 \/ shared'[i] = Unshared
  BY <1>1, ReleaseFacts
<1>4. \A p \in Owned' : p \in Owned /\ p \notin D /\ Entry(p)' = Entry(p)
  OBVIOUS
<1>5. \A p \in Owned : Entry(p) \in Entries /\ (Entry(p).id # 0 => Entry(p).id \in Ids)
  <2>1. \A p \in Owned : Entry(p) \in Entries
    BY EntryTypes DEF TypeOK
  <2> QED
    BY <2>1, SizeAssumption DEF Entries, Ids
<1>6. ReferencesExact'
  <2> SUFFICES ASSUME NEW i \in Ids PROVE shared'[i].refs = Cardinality({p \in Owned' : Entry(p)'.id = i})
    BY DEF ReferencesExact, Naming, Entry
  <2>1. {p \in Owned' : Entry(p)'.id = i} = Naming(Owned, i) \ Naming(D, i)
    BY <1>4, NamingPairs
  <2> QED
    BY <1>3, <2>1
<1>6a. \A i \in Ids : shared'[i].refs \in Nat /\ (shared'[i].refs > 0 <=> shared'[i].refs # 0)
  <2>1. \A i \in Ids : shared'[i].refs \in Nat
    BY <1>2, SizeAssumption DEF ShareStates
  <2> QED
    BY <2>1
\* An entry that stays and names a shared buffer keeps it, with its token's block.
<1>7. ASSUME NEW p \in Owned', Entry(p).id # 0
      PROVE  shared'[Entry(p).id].refs # 0
  <2> DEFINE i == Entry(p).id
  <2>1. i \in Ids /\ p \in Naming(Owned, i) \ Naming(D, i)
    BY <1>4, <1>5, <1>7, NamingPairs
  <2>2. IsFiniteSet(Naming(Owned, i))
    BY OwnedPairs, OwnedFinite
  <2> HIDE DEF i
  <2>3. IsFiniteSet(Naming(Owned, i) \ Naming(D, i))
    BY <2>2, FS_Difference
  <2>4. Cardinality(Naming(Owned, i) \ Naming(D, i)) # 0
    BY <2>1, <2>3, FS_EmptySet
  <2> QED
    BY <1>3, <2>1, <2>4 DEF i
<1>8. \A p \in Owned' : Entry(p).id # 0 => Left(D, Entry(p).id) # 0
  <2> SUFFICES ASSUME NEW p \in Owned', Entry(p).id # 0 PROVE Left(D, Entry(p).id) # 0
    OBVIOUS
  <2>1. Entry(p).id \in Ids
    BY <1>4, <1>5
  <2> QED
    BY <1>3, <1>7, <2>1 DEF Left
<1>9. \A d \in VRAMDomains : pool'[d] = pool[d] \ Returned(D, d)
  OBVIOUS
<1>10. pool' \in [VRAMDomains -> SUBSET Blocks]
  BY DEF TypeOK
<1>11. \A d, b : b \in Returned(D, d) <=>
          \E q \in D : Entry(q).domain = d /\ Entry(q).block = b /\ (Entry(q).id = 0 \/ Left(D, Entry(q).id) = 0)
  BY DEF Returned, Entry
<1>12. RangesOwned'
  <2>1. ASSUME NEW p \in Owned', Entry(p)'.domain \in VRAMDomains
        PROVE  Entry(p)'.block \in pool'[Entry(p)'.domain]
    <3>1. p \in Owned /\ p \notin D /\ Entry(p)' = Entry(p)
      BY <1>4
    <3>2. Entry(p).block \in pool[Entry(p).domain]
      BY <1>1, <2>1, <3>1, RangesPairs
    <3>3. Entry(p).block \notin Returned(D, Entry(p).domain)
      <4> SUFFICES ASSUME NEW q \in D, Entry(q).domain = Entry(p).domain, Entry(q).block = Entry(p).block,
                          Entry(q).id = 0 \/ Left(D, Entry(q).id) = 0
                   PROVE  FALSE
        BY <1>11
      <4>1. q \in Owned /\ p # q
        BY <3>1
      <4>2. Entry(p).id # 0 /\ Entry(q).id = Entry(p).id
        BY <1>1, <2>1, <3>1, <4>1, RangesPairs
      <4> QED
        BY <1>8, <4>2
    <3> QED
      BY <1>9, <2>1, <3>1, <3>2, <3>3
  <2>2. ASSUME NEW p \in Owned', NEW q \in Owned', Entry(p)'.domain \in VRAMDomains, p # q,
               Entry(q)'.domain = Entry(p)'.domain, Entry(q)'.block = Entry(p)'.block
        PROVE  Entry(p)'.id # 0 /\ Entry(q)'.id = Entry(p)'.id
    <3>1. p \in Owned /\ q \in Owned /\ Entry(p)' = Entry(p) /\ Entry(q)' = Entry(q)
      BY <1>4
    <3> QED
      BY <1>1, <2>2, <3>1, RangesPairs
  <2>3. ASSUME NEW d \in VRAMDomains, NEW b \in pool'[d]
        PROVE  \E p \in Owned' : Entry(p)'.domain = d /\ Entry(p)'.block = b
    <3>1. b \in pool[d] /\ b \notin Returned(D, d)
      BY <1>9, <2>3
    <3>2. PICK p \in Owned : Entry(p).domain = d /\ Entry(p).block = b
      BY <1>1, <3>1, RangesPairs
    <3>3. CASE p \notin D
      BY <1>4, <3>2, <3>3
    <3>4. CASE p \in D
      <4> DEFINE i == Entry(p).id
      <4>1. i # 0 /\ Left(D, i) # 0
        BY <1>11, <3>1, <3>2, <3>4
      <4>2. i \in Ids /\ Entry(p).domain = "Device" /\ Entry(p).block = shared[i].block
        BY <1>1, <1>5, <4>1, TokensPairs
      <4> HIDE DEF i
      <4>3. Cardinality(Naming(Owned, i) \ Naming(D, i)) # 0
        BY <1>3, <4>1, <4>2 DEF Left
      <4>4. PICK q : q \in Naming(Owned, i) /\ q \notin Naming(D, i)
        BY <4>3, FS_EmptySet
      <4>5. q \in Owned /\ q \notin D /\ Entry(q).id = i
        BY <4>4, NamingPairs
      <4>6. Entry(q).domain = "Device" /\ Entry(q).block = shared[i].block
        BY <1>1, <4>1, <4>5, TokensPairs
      <4> QED
        BY <1>4, <3>2, <4>2, <4>5, <4>6
    <3> QED
      BY <3>3, <3>4
  <2> QED
    BY <2>1, <2>2, <2>3, RangesFromPairs
<1>13. TokensUnique'
  <2>1. ASSUME NEW j \in Ids, NEW k \in Ids, j # k, shared'[j].refs > 0
        PROVE  shared'[j].token # shared'[k].token
    <3>1. shared'[j].token = shared[j].token /\ shared[j].refs > 0
      BY <1>3, <1>6a, <2>1
    <3>2. shared[j].token # shared[k].token /\ shared[j].token \in Tokens
      BY <1>1, <2>1, <3>1, TokensPairs DEF SharesNamed
    <3>3. shared'[k].token = shared[k].token \/ shared'[k] = Unshared
      BY <1>3, <1>6a
    <3>4. Unshared.token \notin Tokens
      BY NullAssumption DEF Unshared
    <3> QED
      BY <3>1, <3>2, <3>3, <3>4
  <2>2. ASSUME NEW p \in Owned', Entry(p)'.id # 0
        PROVE  Entry(p)'.domain = "Device" /\ Entry(p)'.block = shared'[Entry(p)'.id].block
    <3>1. p \in Owned /\ Entry(p)' = Entry(p) /\ Entry(p).id \in Ids /\ shared'[Entry(p).id].refs # 0
      BY <1>4, <1>5, <1>7, <2>2
    <3>2. Entry(p).domain = "Device" /\ Entry(p).block = shared[Entry(p).id].block
      BY <1>1, <2>2, <3>1, TokensPairs
    <3> QED
      BY <1>3, <3>1, <3>2
  <2> QED
    BY <2>1, <2>2, TokensPairs
<1>14. SharesNamed'
  <2> SUFFICES ASSUME NEW i \in Ids, shared'[i].refs > 0 PROVE shared'[i].token \in Tokens
    BY DEF SharesNamed
  <2> QED
    BY <1>1, <1>3, <1>6a DEF SharesNamed
<1> QED
  BY <1>2, <1>6, <1>10, <1>12, <1>13, <1>14 DEF SharesExact

\* A reset with the pools built anew: it is enough that every entry is released.
LEMMA ResetKeepsShares ==
    ASSUME TypeOK, SharesExact, Release(Owned), Owned' = {}, pool' = NoPool
    PROVE  SharesExact' /\ shared' \in [Ids -> ShareStates] /\ pool' \in [VRAMDomains -> SUBSET Blocks]
<1>1. ReferencesExact
  BY DEF SharesExact
<1>2. shared' \in [Ids -> ShareStates]
  BY <1>1, ReleaseFacts
<1>3. \A i \in Ids : shared'[i].refs = Cardinality(Naming(Owned, i) \ Naming(Owned, i))
  BY <1>1, ReleaseFacts
<1>4. \A i \in Ids : shared'[i].refs = 0
  <2>1. \A i : Naming(Owned, i) \ Naming(Owned, i) = {}
    OBVIOUS
  <2> QED
    BY <1>3, <2>1, FS_EmptySet
<1>5. ReferencesExact'
  <2> SUFFICES ASSUME NEW i \in Ids PROVE shared'[i].refs = Cardinality({p \in Owned' : Entry(p)'.id = i})
    BY DEF ReferencesExact, Naming, Entry
  <2>1. {p \in Owned' : Entry(p)'.id = i} = {}
    OBVIOUS
  <2> QED
    BY <1>4, <2>1, FS_EmptySet
<1>6. RangesOwned'
  <2>1. \A d \in VRAMDomains : pool'[d] = {}
    BY DEF NoPool
  <2> QED
    BY <2>1, RangesFromPairs
<1>7. TokensUnique' /\ SharesNamed'
  BY <1>4, TokensPairs DEF SharesNamed
<1>8. pool' \in [VRAMDomains -> SUBSET Blocks]
  BY DEF NoPool
<1> QED
  BY <1>2, <1>5, <1>6, <1>7, <1>8 DEF SharesExact

\* The variables a call of a client or its end sets, in the types of TypeOK.
LEMMA TypesNamed ==
    /\ TypeOK <=> /\ life \in [Clients -> {"absent", "open", "quarantined"}]
                  /\ attached \in SUBSET Clients /\ pciOpen \in BOOLEAN /\ blocked \in BOOLEAN
                  /\ gen \in [Clients -> 0 .. MaxGeneration] /\ pages \in [Clients -> SUBSET Pages]
                  /\ bo \in [Clients -> [Slots -> Entries \cup {Free}]]
                  /\ shared \in [Ids -> ShareStates] /\ pool \in [VRAMDomains -> SUBSET Blocks]
                  /\ sq \in SlotStates
    /\ TypeOK' <=> /\ life' \in [Clients -> {"absent", "open", "quarantined"}]
                   /\ attached' \in SUBSET Clients /\ pciOpen' \in BOOLEAN /\ blocked' \in BOOLEAN
                   /\ gen' \in [Clients -> 0 .. MaxGeneration] /\ pages' \in [Clients -> SUBSET Pages]
                   /\ bo' \in [Clients -> [Slots -> Entries \cup {Free}]]
                   /\ shared' \in [Ids -> ShareStates] /\ pool' \in [VRAMDomains -> SUBSET Blocks]
                   /\ sq' \in SlotStates
BY DEF TypeOK, ShareStates, SlotStates

\* The tables of one client, spelled out.
LEMMA ClientTables ==
    /\ PagesExact <=> \A d \in Clients :
          /\ \A r \in Slots : bo[d][r] # Free => PageOf(r) \in pages[d]
          /\ life[d] = "open" => \A p \in pages[d] : \E r \in InPage(p) : bo[d][r] # Free
    /\ PagesExact' <=> \A d \in Clients :
          /\ \A r \in Slots : bo'[d][r] # Free => PageOf(r) \in pages'[d]
          /\ life'[d] = "open" => \A p \in pages'[d] : \E r \in InPage(p) : bo'[d][r] # Free
    /\ OwnersKnown <=> \A d \in Clients : \A r \in Slots :
          bo[d][r] # Free => d \in attached \/ life[d] = "quarantined"
    /\ OwnersKnown' <=> \A d \in Clients : \A r \in Slots :
          bo'[d][r] # Free => d \in attached' \/ life'[d] = "quarantined"
BY DEF PagesExact, OwnersKnown, InUse

\* The sample slot's buffer.
Sampled(owner, h) ==
    /\ h[2] \in Slots /\ PageOf(h[2]) \in pages[owner] /\ bo[owner][h[2]] # Free
    /\ bo[owner][h[2]].gen = h[1] /\ bo[owner][h[2]].domain = "GTT"

\* SlotBacked with SlotAttached, of the state and of the next one.
LEMMA SampledFacts ==
    /\ ClientsExact /\ ~blocked /\ sq.owner # NoClient => Sampled(sq.owner, sq.handle)
    /\ (SlotAttached' /\ (~blocked' /\ sq'.owner # NoClient =>
            /\ sq'.handle[2] \in Slots /\ PageOf(sq'.handle[2]) \in pages'[sq'.owner]
            /\ bo'[sq'.owner][sq'.handle[2]] # Free
            /\ bo'[sq'.owner][sq'.handle[2]].gen = sq'.handle[1]
            /\ bo'[sq'.owner][sq'.handle[2]].domain = "GTT")) => SlotBacked'
BY DEF ClientsExact, SlotBacked, SlotAttached, Resolves, Sampled

\* Whatever leaves entries, shared buffers and pools alone keeps what relates them.
LEMMA SameShares == SharesExact /\ UNCHANGED <<bo, shared, pool>> => SharesExact'
BY SMTT(30) DEF SharesExact, ReferencesExact, RangesOwned, TokensUnique, SharesNamed, Owned, SlotsOf, InUse, Naming

\* A client that opens finds an empty table.
LEMMA OpenClientKeeps ==
    ASSUME BuffersInv, NEW c \in Clients, OpenClient(c)
    PROVE  BuffersInv'
<1>1. life \in [Clients -> {"absent", "open", "quarantined"}] /\ gen \in [Clients -> 0 .. MaxGeneration]
      /\ sq \in SlotStates
  BY TypesNamed DEF BuffersInv
<1>2. life[c] = "absent" /\ life' = [life EXCEPT ![c] = "open"] /\ gen' = [gen EXCEPT ![c] = 0]
      /\ UNCHANGED <<attached, pciOpen, blocked, pages, bo, shared, pool, sq>>
  BY DEF OpenClient
<1>3. TypeOK'
  <2>1. life' \in [Clients -> {"absent", "open", "quarantined"}] /\ gen' \in [Clients -> 0 .. MaxGeneration]
    BY <1>1, <1>2, SizeAssumption
  <2> QED
    BY <1>2, <2>1, TypesNamed DEF BuffersInv
<1>4. life'[c] = "open" /\ \A d \in Clients \ {c} : life'[d] = life[d]
  BY <1>1, <1>2
<1>5. PagesExact'
  <2>1. pages[c] = {} /\ PagesExact
    BY <1>2 DEF BuffersInv, ClientsExact, AbsentEmpty
  <2> QED
    BY <1>2, <1>4, <2>1, ClientTables
<1>6. OwnersKnown'
  <2>1. OwnersKnown
    BY DEF BuffersInv, ClientsExact
  <2> QED
    BY <1>2, <1>4, <2>1, ClientTables
<1>7. SlotAttached' /\ AbsentEmpty'
  BY <1>1, <1>2, <1>4 DEF BuffersInv, ClientsExact, SlotAttached, AbsentEmpty, SlotStates
<1>8. SlotBacked'
  BY <1>2, <1>7, SampledFacts DEF BuffersInv, Sampled
<1> QED
  BY <1>2, <1>3, <1>5, <1>6, <1>7, <1>8, SameShares DEF BuffersInv, ClientsExact

\* BOAlloc from a pool and of host memory, and BOImport.
LEMMA FillEntryKeeps ==
    ASSUME BuffersInv, NEW c \in Clients,
           \/ \E d \in VRAMDomains, b \in Blocks : BOAllocVRAM(c, d, b)
           \/ \E ok \in BOOLEAN : BOAllocGTT(c, ok)
           \/ \E i \in Ids : BOImport(c, i)
    PROVE  BuffersInv'
<1>1. TypeOK /\ SharesExact /\ ClientsExact /\ PagesExact
  BY DEF BuffersInv, ClientsExact
<1>2. Admitted(c) /\ UNCHANGED sq /\ blocked' \in BOOLEAN
  BY <1>1, TypesNamed DEF BOAllocVRAM, BOAllocGTT, BOImport
<1>3. UNCHANGED life /\ attached' \in SUBSET Clients /\ pciOpen' \in BOOLEAN
  BY <1>1, <1>2, TypesNamed DEF Admitted
<1>4. ASSUME NEW s, s \in FreeSlots(c), NEW e \in Entries, Store(c, s, e)
      PROVE  /\ ClientsExact'
             /\ shared' \in [Ids -> ShareStates] /\ pool' \in [VRAMDomains -> SUBSET Blocks] => TypeOK'
  <2>1. ClientsExact'
    BY <1>2, <1>4, StoreKeepsClients
  <2>2. gen' \in [Clients -> 0 .. MaxGeneration] /\ pages' \in [Clients -> SUBSET Pages]
        /\ bo' \in [Clients -> [Slots -> Entries \cup {Free}]]
    BY <1>1, <1>4, StoreFacts
  <2> QED
    BY <1>1, <1>2, <1>3, <2>1, <2>2, TypesNamed
<1>5. ASSUME NEW d \in VRAMDomains, NEW b \in Blocks, BOAllocVRAM(c, d, b) PROVE BuffersInv'
  <2>1. PICK s \in FreeSlots(c) : Store(c, s, [domain |-> d, gen |-> NextGen(c), block |-> b, id |-> 0])
    BY <1>5 DEF BOAllocVRAM
  <2> DEFINE e == [domain |-> d, gen |-> NextGen(c), block |-> b, id |-> 0]
  <2>2. NextGen(c) \in 0 .. MaxGeneration
    BY <1>1, FreeSlotFacts
  <2>3. e \in Entries /\ e.id = 0 /\ e.domain = d /\ e.block = b
    BY <2>2, SizeAssumption DEF Entries, Domains
  <2>4. pool' = [pool EXCEPT ![d] = @ \cup {b}] /\ b \notin pool[d] /\ UNCHANGED shared
    BY <1>5 DEF BOAllocVRAM
  <2>5. Store(c, s, e)
    BY <2>1
  <2> HIDE DEF e
  <2> DEFINE n == <<c, s>>
  <2>6. /\ n \in Clients \X Slots /\ n \notin Owned /\ Owned' = Owned \cup {n}
        /\ \A p \in Owned : Entry(p)' = Entry(p)
        /\ Entry(n)' = e
    BY <1>1, <2>3, <2>5, StoreOwned
  <2> HIDE DEF n
  <2>7. SharesExact'
    BY <1>1, <2>3, <2>4, <2>6, OwnEntryKeepsShares
  <2>8. shared' \in [Ids -> ShareStates] /\ pool' \in [VRAMDomains -> SUBSET Blocks]
    BY <1>1, <2>4, TypesNamed
  <2> QED
    BY <1>4, <2>3, <2>5, <2>7, <2>8 DEF BuffersInv
<1>6. ASSUME NEW ok \in BOOLEAN, BOAllocGTT(c, ok) PROVE BuffersInv'
  <2>1. PICK s \in FreeSlots(c) :
            Store(c, s, [domain |-> IF ok THEN "GTT" ELSE "partial",
                         gen |-> NextGen(c), block |-> NoBlock, id |-> 0])
    BY <1>6 DEF BOAllocGTT
  <2> DEFINE e == [domain |-> IF ok THEN "GTT" ELSE "partial", gen |-> NextGen(c), block |-> NoBlock, id |-> 0]
  <2>2. NextGen(c) \in 0 .. MaxGeneration
    BY <1>1, FreeSlotFacts
  <2>3. e \in Entries /\ e.id = 0 /\ e.domain \notin VRAMDomains
    BY <2>2, SizeAssumption DEF Entries, Domains, VRAMDomains
  <2>4. UNCHANGED <<shared, pool>>
    BY <1>6 DEF BOAllocGTT
  <2>5. Store(c, s, e)
    BY <2>1
  <2> HIDE DEF e
  <2> DEFINE n == <<c, s>>
  <2>6. /\ n \in Clients \X Slots /\ n \notin Owned /\ Owned' = Owned \cup {n}
        /\ \A p \in Owned : Entry(p)' = Entry(p)
        /\ Entry(n)' = e
    BY <1>1, <2>3, <2>5, StoreOwned
  <2> HIDE DEF n
  <2>7. SharesExact'
    BY <1>1, <2>3, <2>4, <2>6, OwnEntryKeepsShares
  <2>8. shared' \in [Ids -> ShareStates] /\ pool' \in [VRAMDomains -> SUBSET Blocks]
    BY <1>1, <2>4, TypesNamed
  <2> QED
    BY <1>4, <2>3, <2>5, <2>7, <2>8 DEF BuffersInv
<1>7. ASSUME NEW i \in Ids, BOImport(c, i) PROVE BuffersInv'
  <2>1. PICK s \in FreeSlots(c) :
            Store(c, s, [domain |-> "Device", gen |-> NextGen(c), block |-> shared[i].block, id |-> i])
    BY <1>7 DEF BOImport
  <2> DEFINE e == [domain |-> "Device", gen |-> NextGen(c), block |-> shared[i].block, id |-> i]
  <2>2. NextGen(c) \in 0 .. MaxGeneration
    BY <1>1, FreeSlotFacts
  <2>3. e \in Entries /\ e.id = i /\ e.domain = "Device" /\ e.block = shared[i].block
    <3>1. shared[i].block \in Blocks \cup {NoBlock} /\ i \in 0 .. Capacity
      BY <1>1, TypesNamed, SizeAssumption DEF ShareStates, Ids
    <3> QED
      BY <2>2, <3>1 DEF Entries, Domains, VRAMDomains
  <2>4. UNCHANGED pool /\ shared[i].refs \in 1 .. MaxReferences - 1 /\ shared' = [shared EXCEPT ![i].refs = @ + 1]
    BY <1>7 DEF BOImport
  <2>5. Store(c, s, e)
    BY <2>1
  <2> HIDE DEF e
  <2> DEFINE n == <<c, s>>
  <2>6. /\ n \in Clients \X Slots /\ n \notin Owned /\ Owned' = Owned \cup {n}
        /\ \A p \in Owned : Entry(p)' = Entry(p)
        /\ Entry(n)' = e
    BY <1>1, <2>3, <2>5, StoreOwned
  <2> HIDE DEF n
  <2>7. SharesExact' /\ shared' \in [Ids -> ShareStates]
    BY <1>1, <2>3, <2>4, <2>6, ImportKeepsShares
  <2>8. pool' \in [VRAMDomains -> SUBSET Blocks]
    BY <1>1, <2>4, TypesNamed
  <2> QED
    BY <1>4, <2>3, <2>5, <2>7, <2>8 DEF BuffersInv
<1> QED
  BY <1>5, <1>6, <1>7

\* A call that changes the table of its own client only, keeps its pages exact and, unless the
\* session is blocked, the buffer the sample slot names.
LEMMA CallKeepsClients ==
    ASSUME BuffersInv, NEW c \in Clients, Admitted(c),
           \A d \in Clients \ {c} : bo'[d] = bo[d] /\ pages'[d] = pages[d],
           \A r \in Slots : bo'[c][r] # Free => PageOf(r) \in pages'[c],
           \A p \in pages'[c] : \E r \in InPage(p) : bo'[c][r] # Free,
           sq' = sq \/ sq' = NoSlot,
           ~blocked' /\ sq' = sq /\ sq.owner = c =>
               \/ bo'[c][sq.handle[2]] = bo[c][sq.handle[2]]
               \/ /\ bo'[c][sq.handle[2]].domain = "GTT" /\ bo'[c][sq.handle[2]] # Free
                  /\ bo'[c][sq.handle[2]].gen = bo[c][sq.handle[2]].gen
    PROVE  ClientsExact'
<1>1. life[c] = "open" /\ ~blocked /\ attached' = attached \cup {c} /\ life' = life
  BY DEF Admitted
<1>2. PagesExact /\ OwnersKnown /\ SlotBacked /\ SlotAttached /\ AbsentEmpty /\ ClientsExact
  BY DEF BuffersInv, ClientsExact
<1>3. PagesExact'
  BY <1>1, <1>2, ClientTables
<1>4. OwnersKnown'
  BY <1>1, <1>2, ClientTables
<1>5. SlotAttached' /\ AbsentEmpty'
  BY <1>1, <1>2 DEF SlotAttached, AbsentEmpty, NoSlot
<1>6. SlotBacked'
  <2>1. SUFFICES ASSUME ~blocked', sq'.owner # NoClient
                 PROVE  /\ sq'.handle[2] \in Slots /\ PageOf(sq'.handle[2]) \in pages'[sq'.owner]
                        /\ bo'[sq'.owner][sq'.handle[2]] # Free
                        /\ bo'[sq'.owner][sq'.handle[2]].gen = sq'.handle[1]
                        /\ bo'[sq'.owner][sq'.handle[2]].domain = "GTT"
    BY <1>5, SampledFacts
  <2>2. sq' = sq
    BY <2>1 DEF NoSlot
  <2>3. Sampled(sq.owner, sq.handle)
    BY <1>1, <1>2, <2>1, <2>2, SampledFacts
  <2>4. sq.owner \in Clients
    BY <2>1, <2>2 DEF BuffersInv, TypeOK
  <2>5. CASE sq.owner # c
    BY <2>2, <2>3, <2>4, <2>5 DEF Sampled
  <2>6. CASE sq.owner = c
    BY <2>1, <2>2, <2>3, <2>6 DEF Sampled
  <2> QED
    BY <2>5, <2>6
<1> QED
  BY <1>3, <1>4, <1>5, <1>6 DEF ClientsExact

\* The page that bo_trim_page may take away.
LEMMA TrimFacts ==
    ASSUME pages \in [Clients -> SUBSET Pages], NEW c \in Clients, NEW s \in Slots, NEW t, Trim(c, s, t)
    PROVE  /\ pages' \in [Clients -> SUBSET Pages] /\ \A d \in Clients \ {c} : pages'[d] = pages[d]
           /\ \A p \in pages'[c] : p \in pages[c] /\ (p = PageOf(s) => \E r \in InPage(p) : t[r] # Free)
           /\ \A p \in pages[c] : p \in pages'[c] \/ \A r \in InPage(p) : t[r] = Free
BY DEF Trim

\* A BOAlloc that fails spends a generation and no more.
LEMMA AllocFailsKeeps ==
    ASSUME BuffersInv, NEW c \in Clients, BOAllocFails(c)
    PROVE  BuffersInv'
<1>1. TypeOK /\ SharesExact /\ PagesExact
  BY DEF BuffersInv, ClientsExact
<1>2. /\ Admitted(c) /\ gen' = [gen EXCEPT ![c] = NextGen(c)]
      /\ UNCHANGED <<blocked, bo, shared, pool, sq>>
  BY DEF BOAllocFails
<1>3. PICK s \in FreeSlots(c) : Trim(c, s, bo[c])
  BY DEF BOAllocFails
<1>4. s \in Slots /\ NextGen(c) \in 0 .. MaxGeneration
  BY <1>1, FreeSlotFacts
<1>5. /\ pages' \in [Clients -> SUBSET Pages] /\ \A d \in Clients \ {c} : pages'[d] = pages[d]
      /\ \A p \in pages'[c] : p \in pages[c] /\ (p = PageOf(s) => \E r \in InPage(p) : bo[c][r] # Free)
      /\ \A p \in pages[c] : p \in pages'[c] \/ \A r \in InPage(p) : bo[c][r] = Free
  BY <1>1, <1>3, <1>4, TypesNamed, TrimFacts
<1>6. /\ life[c] = "open" /\ UNCHANGED life /\ attached' \in SUBSET Clients /\ pciOpen' \in BOOLEAN
  BY <1>1, <1>2, TypesNamed DEF Admitted
<1>7. TypeOK'
  BY <1>1, <1>2, <1>4, <1>5, <1>6, TypesNamed
<1>8. \A r \in Slots : r \in InPage(PageOf(r))
  BY DEF InPage
<1>9. ClientsExact'
  <2>1. \A r \in Slots : bo'[c][r] # Free => PageOf(r) \in pages'[c]
    BY <1>1, <1>2, <1>5, <1>8, ClientTables
  <2>2. \A p \in pages'[c] : \E r \in InPage(p) : bo'[c][r] # Free
    BY <1>1, <1>2, <1>5, <1>6, ClientTables
  <2> QED
    BY <1>2, <1>5, <2>1, <2>2, CallKeepsClients
<1> QED
  BY <1>1, <1>2, <1>7, <1>9, SameShares DEF BuffersInv

\* The first BOExport of a buffer.
LEMMA ExportKeeps ==
    ASSUME BuffersInv, NEW c \in Clients, NEW s \in Slots, NEW i \in Ids, NEW t \in Tokens, BOExport(c, s, i, t)
    PROVE  BuffersInv'
<1>1. TypeOK /\ SharesExact /\ ClientsExact /\ PagesExact
  BY DEF BuffersInv, ClientsExact
<1>2. /\ Admitted(c) /\ bo[c][s] # Free /\ bo[c][s].domain = "Device" /\ bo[c][s].id = 0
      /\ t \notin {shared[j].token : j \in Ids} /\ shared[i].refs = 0
      /\ shared' = [shared EXCEPT ![i] = [token |-> t, block |-> bo[c][s].block, refs |-> 1]]
      /\ UNCHANGED <<blocked, gen, pages, pool, sq>>
  BY DEF BOExport, InUse
<1> DEFINE e == [bo[c][s] EXCEPT !.id = i]
<1>3. bo \in [Clients -> [Slots -> Entries \cup {Free}]] /\ bo[c][s] \in Entries
  BY <1>1, <1>2, TypesNamed
<1>4. e \in Entries /\ e.id = i /\ e.domain = "Device" /\ e.block = bo[c][s].block /\ e # Free
  BY <1>2, <1>3, SizeAssumption DEF Entries, Ids, Free
<1>5. bo' = [bo EXCEPT ![c][s] = e]
  BY <1>3 DEF BOExport
<1> HIDE DEF e
<1>6. /\ bo' \in [Clients -> [Slots -> Entries \cup {Free}]] /\ bo'[c][s] = e
      /\ \A d \in Clients \ {c} : bo'[d] = bo[d]
      /\ \A r \in Slots \ {s} : bo'[c][r] = bo[c][r]
  <2> DEFINE k == [bo[c] EXCEPT ![s] = e]
  <2>1. k \in [Slots -> Entries \cup {Free}] /\ k[s] = e /\ \A r \in Slots \ {s} : k[r] = bo[c][r]
    BY <1>3, <1>4
  <2>2. bo' = [bo EXCEPT ![c] = k]
    BY <1>3, <1>5
  <2> HIDE DEF k
  <2> QED
    BY <1>3, <2>1, <2>2
<1> DEFINE n == <<c, s>>
<1>7. \A p \in Clients \X Slots : Entry(p)' = IF p = n THEN e ELSE Entry(p)
  <2> SUFFICES ASSUME NEW d \in Clients, NEW r \in Slots
               PROVE  bo'[d][r] = IF d = c /\ r = s THEN e ELSE bo[d][r]
    BY DEF Entry
  <2> QED
    BY <1>6
<1>8. n \in Clients \X Slots /\ Entry(n) = bo[c][s]
  BY DEF Entry
<1> HIDE DEF n
<1>9. n \in Owned /\ Owned' = Owned
  BY <1>2, <1>4, <1>7, <1>8, OwnedPairs
<1>10. Entry(n)' = e /\ \A p \in Owned \ {n} : Entry(p)' = Entry(p)
  BY <1>7, <1>8, OwnedPairs
<1>11. SharesExact' /\ shared' \in [Ids -> ShareStates]
  BY <1>1, <1>2, <1>4, <1>8, <1>9, <1>10, ExportKeepsShares
<1>12. /\ life[c] = "open" /\ UNCHANGED life /\ attached' \in SUBSET Clients /\ pciOpen' \in BOOLEAN
  BY <1>1, <1>2, TypesNamed DEF Admitted
<1>13. TypeOK'
  BY <1>1, <1>2, <1>6, <1>11, <1>12, TypesNamed
<1>14. ClientsExact'
  <2>1. \A r \in Slots : bo'[c][r] # Free <=> bo[c][r] # Free
    BY <1>2, <1>4, <1>6
  <2>2. \A r \in Slots : bo'[c][r] # Free => PageOf(r) \in pages'[c]
    BY <1>1, <1>2, <2>1, ClientTables
  <2>3. \A p \in pages'[c] : \E r \in InPage(p) : bo'[c][r] # Free
    <3>1. \A p : InPage(p) \subseteq Slots
      BY DEF InPage
    <3> QED
      BY <1>1, <1>2, <1>12, <2>1, <3>1, ClientTables
  <2>4. sq.owner = c => bo'[c][sq.handle[2]] = bo[c][sq.handle[2]]
    <3> SUFFICES ASSUME sq.owner = c PROVE bo'[c][sq.handle[2]] = bo[c][sq.handle[2]]
      OBVIOUS
    <3>1. sq.owner # NoClient /\ ~blocked
      BY <1>2, NullAssumption DEF Admitted
    <3>2. Sampled(sq.owner, sq.handle)
      BY <1>1, <3>1, SampledFacts
    <3>3. sq.handle[2] \in Slots /\ sq.handle[2] # s
      BY <1>2, <3>2 DEF Sampled
    <3> QED
      BY <1>6, <3>3
  <2> QED
    BY <1>2, <1>6, <2>2, <2>3, <2>4, CallKeepsClients
<1> QED
  BY <1>11, <1>13, <1>14 DEF BuffersInv

\* RegisterSqSlot names a buffer the caller has.
LEMMA RegisterKeeps ==
    ASSUME BuffersInv, NEW c \in Clients, NEW s \in Slots, RegisterSqSlot(c, s)
    PROVE  BuffersInv'
<1>1. TypeOK /\ SharesExact /\ ClientsExact /\ PagesExact /\ OwnersKnown /\ AbsentEmpty
  BY DEF BuffersInv, ClientsExact
<1>2. /\ life[c] = "open" /\ ~blocked /\ bo[c][s] # Free /\ bo[c][s].domain = "GTT"
      /\ sq' = [owner |-> c, handle |-> <<bo[c][s].gen, s>>]
      /\ UNCHANGED <<life, attached, pciOpen, blocked, gen, pages, bo, shared, pool>>
  BY DEF RegisterSqSlot, InUse, sessionVars, tableVars
<1>3. bo[c][s].gen \in 0 .. MaxGeneration
  <2>1. bo[c][s] \in Entries
    BY <1>1, <1>2, TypesNamed
  <2> QED
    BY <2>1 DEF Entries
<1>4. sq' \in SlotStates /\ sq'.owner = c /\ sq'.handle[1] = bo[c][s].gen /\ sq'.handle[2] = s
  BY <1>2, <1>3 DEF SlotStates
<1>5. TypeOK'
  BY <1>1, <1>2, <1>4, TypesNamed
<1>6. c \in attached /\ PageOf(s) \in pages[c]
  BY <1>1, <1>2, ClientTables
<1>7. SlotAttached' /\ AbsentEmpty' /\ PagesExact' /\ OwnersKnown'
  BY <1>1, <1>2, <1>4, <1>6, ClientTables DEF SlotAttached, AbsentEmpty
<1>8. SlotBacked'
  BY <1>2, <1>4, <1>6, <1>7, SampledFacts
<1> QED
  BY <1>1, <1>2, <1>5, <1>7, <1>8, SameShares DEF BuffersInv, ClientsExact

\* A blocked session, and a reset that failed.
LEMMA BlockKeeps ==
    ASSUME BuffersInv, Block \/ \E c \in Clients, open \in BOOLEAN : ShutdownFails(c, open)
    PROVE  BuffersInv'
<1>1. TypeOK /\ SharesExact /\ ClientsExact /\ PagesExact /\ OwnersKnown /\ AbsentEmpty /\ SlotAttached
  BY DEF BuffersInv, ClientsExact
<1>2. blocked' = TRUE /\ UNCHANGED <<life, gen, pages, bo, shared, pool, sq>>
      /\ attached \subseteq attached' /\ attached' \in SUBSET Clients /\ pciOpen' \in BOOLEAN
  BY <1>1, TypesNamed DEF Block, ShutdownFails, tableVars
<1>3. TypeOK'
  BY <1>1, <1>2, TypesNamed
<1>4. SlotAttached' /\ AbsentEmpty' /\ PagesExact' /\ OwnersKnown'
  BY <1>1, <1>2, ClientTables DEF SlotAttached, AbsentEmpty
<1>5. SlotBacked'
  BY <1>2, <1>4, SampledFacts
<1> QED
  BY <1>1, <1>2, <1>3, <1>4, <1>5, SameShares DEF BuffersInv, ClientsExact

\* BOFree that succeeds: the entry, its reference or its range, and the slot that named it go.
LEMMA FreedKeeps ==
    ASSUME BuffersInv, NEW c \in Clients, NEW s \in Slots, BOFree(c, s, TRUE)
    PROVE  BuffersInv'
<1> DEFINE table == [bo[c] EXCEPT ![s] = Free]
           n == <<c, s>>
<1>1. TypeOK /\ SharesExact /\ ClientsExact /\ PagesExact
  BY DEF BuffersInv, ClientsExact
<1>2. /\ Admitted(c) /\ bo[c][s] # Free /\ blocked' = FALSE
      /\ Release({n}) /\ pool' = [d \in VRAMDomains |-> pool[d] \ Returned({n}, d)]
      /\ ForgetSlot(c, s) /\ bo' = [bo EXCEPT ![c] = table] /\ Trim(c, s, table) /\ UNCHANGED gen
  BY DEF BOFree, InUse
<1>3. bo \in [Clients -> [Slots -> Entries \cup {Free}]]
  BY <1>1, TypesNamed
<1>4. table \in [Slots -> Entries \cup {Free}] /\ table[s] = Free /\ \A r \in Slots \ {s} : table[r] = bo[c][r]
  BY <1>3
<1>5. /\ pages' \in [Clients -> SUBSET Pages] /\ \A d \in Clients \ {c} : pages'[d] = pages[d]
      /\ \A p \in pages'[c] : p \in pages[c] /\ (p = PageOf(s) => \E r \in InPage(p) : table[r] # Free)
      /\ \A p \in pages[c] : p \in pages'[c] \/ \A r \in InPage(p) : table[r] = Free
  <2>1. pages \in [Clients -> SUBSET Pages] /\ Trim(c, s, table)
    BY <1>1, <1>2, TypesNamed
  <2> HIDE DEF table
  <2> QED
    BY <2>1, TrimFacts
<1> HIDE DEF table
<1>6. /\ bo' \in [Clients -> [Slots -> Entries \cup {Free}]] /\ bo'[c] = table
      /\ \A d \in Clients \ {c} : bo'[d] = bo[d]
  BY <1>2, <1>3, <1>4
<1>7. \A p \in Clients \X Slots : Entry(p)' = IF p = n THEN Free ELSE Entry(p)
  <2> SUFFICES ASSUME NEW d \in Clients, NEW r \in Slots
               PROVE  bo'[d][r] = IF d = c /\ r = s THEN Free ELSE bo[d][r]
    BY DEF Entry
  <2> QED
    BY <1>4, <1>6
<1>8. n \in Clients \X Slots /\ Entry(n) = bo[c][s]
  BY DEF Entry
<1> HIDE DEF n
<1>9. n \in Owned /\ Owned' = Owned \ {n} /\ \A p \in Owned' : Entry(p)' = Entry(p)
  BY <1>2, <1>7, <1>8, OwnedPairs
<1>10. SharesExact' /\ shared' \in [Ids -> ShareStates] /\ pool' \in [VRAMDomains -> SUBSET Blocks]
  <2>1. {n} \in SUBSET Owned
    BY <1>9
  <2> QED
    BY <1>1, <1>2, <1>9, <2>1, ReleaseKeepsShares
<1>11. life[c] = "open" /\ UNCHANGED life /\ attached' \in SUBSET Clients /\ pciOpen' \in BOOLEAN
  BY <1>1, <1>2, TypesNamed DEF Admitted
<1>12. sq' = sq \/ sq' = NoSlot
  BY <1>2 DEF ForgetSlot
<1>13. TypeOK'
  <2>1. NoSlot \in SlotStates
    BY PageNumbers, SizeAssumption DEF NoSlot, SlotStates
  <2>2. sq' \in SlotStates
    BY <1>1, <1>12, <2>1, TypesNamed
  <2> QED
    BY <1>1, <1>2, <1>5, <1>6, <1>10, <1>11, <2>2, TypesNamed
<1>14. ClientsExact'
  <2>1. \A p : InPage(p) \subseteq Slots
    BY DEF InPage
  <2>2. \A r \in Slots : r \in InPage(PageOf(r))
    BY DEF InPage
  <2>3. \A r \in Slots : bo'[c][r] # Free => PageOf(r) \in pages'[c]
    <3> SUFFICES ASSUME NEW r \in Slots, bo'[c][r] # Free PROVE PageOf(r) \in pages'[c]
      OBVIOUS
    <3>1. r # s /\ bo[c][r] # Free /\ table[r] # Free
      BY <1>4, <1>6
    <3>2. PageOf(r) \in pages[c]
      BY <1>1, <3>1, ClientTables
    <3> QED
      BY <1>5, <2>2, <3>1, <3>2
  <2>4. \A p \in pages'[c] : \E r \in InPage(p) : bo'[c][r] # Free
    <3> SUFFICES ASSUME NEW p \in pages'[c] PROVE \E r \in InPage(p) : table[r] # Free
      BY <1>6
    <3>1. CASE p = PageOf(s)
      BY <1>5, <3>1
    <3>2. CASE p # PageOf(s)
      <4>1. PICK r \in InPage(p) : bo[c][r] # Free
        BY <1>1, <1>5, <1>11, ClientTables
      <4>2. r # s /\ r \in Slots
        BY <3>2 DEF InPage
      <4> QED
        BY <1>4, <4>1, <4>2
    <3> QED
      BY <3>1, <3>2
  <2>5. sq' = sq /\ sq.owner = c => bo'[c][sq.handle[2]] = bo[c][sq.handle[2]]
    <3> SUFFICES ASSUME sq' = sq, sq.owner = c PROVE bo'[c][sq.handle[2]] = bo[c][sq.handle[2]]
      OBVIOUS
    <3>1. sq.owner # NoClient /\ ~blocked
      BY <1>2, NullAssumption DEF Admitted
    <3>2. Sampled(sq.owner, sq.handle)
      BY <1>1, <3>1, SampledFacts
    <3>3. sq.handle[2] \in Slots /\ bo[c][sq.handle[2]].gen = sq.handle[1]
      BY <3>2 DEF Sampled
    <3>4. sq \in SlotStates /\ sq # NoSlot
      BY <1>1, <3>1, TypesNamed DEF NoSlot
    <3>5. sq # [owner |-> c, handle |-> <<bo[c][s].gen, s>>]
      BY <1>2, <3>4 DEF ForgetSlot
    <3>6. sq.handle[2] # s
      <4> SUFFICES ASSUME sq.handle[2] = s PROVE FALSE
        OBVIOUS
      <4>1. sq.handle = <<bo[c][s].gen, s>>
        BY <3>3, <3>4 DEF SlotStates
      <4>2. sq = [owner |-> sq.owner, handle |-> sq.handle]
        BY <3>4 DEF SlotStates
      <4> QED
        BY <3>5, <4>1, <4>2
    <3> QED
      BY <1>4, <1>6, <3>3, <3>6
  <2> QED
    BY <1>2, <1>5, <1>6, <1>12, <2>3, <2>4, <2>5, CallKeepsClients
<1> QED
  BY <1>10, <1>13, <1>14 DEF BuffersInv

\* BOFree whose page-table entries could not all be cleared: the buffer stays, the session blocks.
LEMMA FreeFailsKeeps ==
    ASSUME BuffersInv, NEW c \in Clients, NEW s \in Slots, BOFree(c, s, FALSE)
    PROVE  BuffersInv'
<1>1. TypeOK /\ SharesExact /\ ClientsExact /\ PagesExact
  BY DEF BuffersInv, ClientsExact
<1>2. /\ Admitted(c) /\ bo[c][s] # Free /\ bo[c][s].domain \notin VRAMDomains /\ blocked' = TRUE
      /\ bo' = [bo EXCEPT ![c][s].domain = "partial"] /\ UNCHANGED <<shared, pool, sq, pages, gen>>
  BY DEF BOFree, InUse
<1> DEFINE e == [bo[c][s] EXCEPT !.domain = "partial"]
           k == [bo[c] EXCEPT ![s] = e]
           n == <<c, s>>
<1>3. bo \in [Clients -> [Slots -> Entries \cup {Free}]] /\ bo[c][s] \in Entries
  BY <1>1, <1>2, TypesNamed
<1>4. n \in Clients \X Slots /\ Entry(n) = bo[c][s] /\ n \in Owned
  BY <1>2, OwnedPairs DEF Entry
<1>5. bo[c][s].id = 0
  <2>1. TokensUnique
    BY <1>1 DEF SharesExact
  <2> QED
    BY <1>2, <1>4, <2>1, TokensPairs DEF VRAMDomains
<1>6. e \in Entries /\ e.id = 0 /\ e.domain = "partial" /\ e # Free /\ e.domain \notin VRAMDomains
  BY <1>3, <1>5 DEF Entries, Domains, VRAMDomains, Free
<1>7. bo' = [bo EXCEPT ![c] = k]
  BY <1>2, <1>3
<1> HIDE DEF e
<1>8. k \in [Slots -> Entries \cup {Free}] /\ k[s] = e /\ \A r \in Slots \ {s} : k[r] = bo[c][r]
  BY <1>3, <1>6
<1> HIDE DEF k
<1>9. /\ bo' \in [Clients -> [Slots -> Entries \cup {Free}]] /\ bo'[c] = k
      /\ \A d \in Clients \ {c} : bo'[d] = bo[d]
  BY <1>3, <1>7, <1>8
<1>10. \A p \in Clients \X Slots : Entry(p)' = IF p = n THEN e ELSE Entry(p)
  <2> SUFFICES ASSUME NEW d \in Clients, NEW r \in Slots
               PROVE  bo'[d][r] = IF d = c /\ r = s THEN e ELSE bo[d][r]
    BY DEF Entry
  <2> QED
    BY <1>8, <1>9
<1> HIDE DEF n
<1>11. Owned' = Owned
  BY <1>4, <1>6, <1>10, OwnedPairs
<1>12. \A p \in Owned' : Entry(p)' = IF p = n THEN e ELSE Entry(p)
  BY <1>10, OwnedPairs
<1>13. SharesExact'
  BY <1>1, <1>2, <1>4, <1>5, <1>6, <1>11, <1>12, HostCallKeepsShares
<1>14. life[c] = "open" /\ UNCHANGED life /\ attached' \in SUBSET Clients /\ pciOpen' \in BOOLEAN
  BY <1>1, <1>2, TypesNamed DEF Admitted
<1>15. TypeOK'
  BY <1>1, <1>2, <1>9, <1>14, TypesNamed
<1>16. ClientsExact'
  <2>1. \A r \in Slots : bo'[c][r] # Free <=> bo[c][r] # Free
    BY <1>2, <1>6, <1>8, <1>9
  <2>2. \A r \in Slots : bo'[c][r] # Free => PageOf(r) \in pages'[c]
    BY <1>1, <1>2, <2>1, ClientTables
  <2>3. \A p \in pages'[c] : \E r \in InPage(p) : bo'[c][r] # Free
    <3>1. \A p : InPage(p) \subseteq Slots
      BY DEF InPage
    <3> QED
      BY <1>1, <1>2, <1>14, <2>1, <3>1, ClientTables
  <2> QED
    BY <1>2, <1>9, <2>2, <2>3, CallKeepsClients
<1> QED
  BY <1>13, <1>15, <1>16 DEF BuffersInv

\* The end of a client, for the clients' side: the slot goes with it, and what it leaves behind is
\* nothing, or is kept in quarantine.
LEMMA LeaveKeepsClients ==
    ASSUME BuffersInv, NEW c \in Clients, Leave(c), ~blocked' => ~blocked,
           NEW x \in {"absent", "quarantined"}, life' = [life EXCEPT ![c] = x],
           \A d \in Clients \ {c} : bo'[d] = bo[d] /\ pages'[d] = pages[d],
           \A r \in Slots : bo'[c][r] # Free => PageOf(r) \in pages'[c],
           x = "absent" => pages'[c] = {}
    PROVE  ClientsExact'
<1>1. PagesExact /\ OwnersKnown /\ SlotAttached /\ AbsentEmpty /\ ClientsExact /\ TypeOK
  BY DEF BuffersInv, ClientsExact
<1>2. /\ life[c] = "open" /\ attached' = attached \ {c}
      /\ sq' = IF sq.owner = c THEN NoSlot ELSE sq
  BY DEF Leave
<1>3. life'[c] = x /\ \A d \in Clients \ {c} : life'[d] = life[d]
  BY <1>1, TypesNamed
<1>4. PagesExact'
  BY <1>1, <1>3, ClientTables
<1>5. OwnersKnown'
  BY <1>1, <1>2, <1>3, ClientTables
<1>6. AbsentEmpty'
  BY <1>1, <1>3 DEF AbsentEmpty
<1>7. sq'.owner # NoClient => sq' = sq /\ sq.owner \in Clients \ {c}
  <2>1. sq.owner \in Clients \cup {NoClient}
    BY <1>1, TypesNamed DEF SlotStates
  <2> QED
    BY <1>2, <2>1 DEF NoSlot
<1>8. SlotAttached'
  BY <1>1, <1>2, <1>3, <1>7 DEF SlotAttached
<1>9. SlotBacked'
  <2>1. SUFFICES ASSUME ~blocked', sq'.owner # NoClient
                 PROVE  /\ sq'.handle[2] \in Slots /\ PageOf(sq'.handle[2]) \in pages'[sq'.owner]
                        /\ bo'[sq'.owner][sq'.handle[2]] # Free
                        /\ bo'[sq'.owner][sq'.handle[2]].gen = sq'.handle[1]
                        /\ bo'[sq'.owner][sq'.handle[2]].domain = "GTT"
    BY <1>8, SampledFacts
  <2>2. sq' = sq /\ sq.owner \in Clients \ {c}
    BY <1>7, <2>1
  <2>3. Sampled(sq.owner, sq.handle)
    BY <1>1, <2>1, <2>2, SampledFacts
  <2> QED
    BY <2>2, <2>3 DEF Sampled
<1> QED
  BY <1>4, <1>5, <1>6, <1>8, <1>9 DEF ClientsExact

\* The types of what leaving sets.
LEMMA LeaveTypes ==
    ASSUME TypeOK, NEW c \in Clients, Leave(c)
    PROVE  attached' \in SUBSET Clients /\ sq' \in SlotStates /\ gen' \in [Clients -> 0 .. MaxGeneration]
<1>1. NoSlot \in SlotStates
  BY PageNumbers, SizeAssumption DEF NoSlot, SlotStates
<1> QED
  BY <1>1, TypesNamed DEF Leave

\* Storage that a client gives back in full, by an orderly retirement or because nothing can reach it.
LEMMA LeaveReleasedKeeps ==
    ASSUME BuffersInv, NEW c \in Clients, Leave(c), ReleaseAll({c}), ~blocked' => ~blocked,
           life' = [life EXCEPT ![c] = "absent"], blocked' \in BOOLEAN, UNCHANGED pciOpen
    PROVE  BuffersInv'
<1>1. TypeOK /\ SharesExact
  BY DEF BuffersInv
<1> DEFINE D == SlotsOf({c})
<1>2. /\ Release(D) /\ pool' = [d \in VRAMDomains |-> pool[d] \ Returned(D, d)] /\ Emptied({c})
  BY DEF ReleaseAll
<1>3. /\ bo' \in [Clients -> [Slots -> Entries \cup {Free}]] /\ pages' \in [Clients -> SUBSET Pages]
      /\ \A r \in Slots : bo'[c][r] = Free
      /\ pages'[c] = {}
      /\ \A d \in Clients \ {c} : bo'[d] = bo[d] /\ pages'[d] = pages[d]
  BY <1>1, <1>2, TypesNamed DEF Emptied, Empty
<1>4. \A p : p \in D <=> p \in Owned /\ p[1] = c
  BY SlotsOfPairs, OwnedPairs
<1> HIDE DEF D
<1>5. Owned' = Owned \ D /\ \A p \in Owned' : Entry(p)' = Entry(p)
  <2>1. \A p \in Clients \X Slots : p[1] # c => Entry(p)' = Entry(p)
    BY <1>3 DEF Entry
  <2>2. \A p \in Clients \X Slots : p[1] = c => Entry(p)' = Free
    BY <1>3 DEF Entry
  <2> QED
    BY <1>4, <2>1, <2>2, OwnedPairs
<1>6. SharesExact' /\ shared' \in [Ids -> ShareStates] /\ pool' \in [VRAMDomains -> SUBSET Blocks]
  <2>1. D \in SUBSET Owned
    BY <1>4
  <2> QED
    BY <1>1, <1>2, <1>5, <2>1, ReleaseKeepsShares
<1>7. TypeOK'
  <2>1. life' \in [Clients -> {"absent", "open", "quarantined"}]
    BY <1>1, TypesNamed
  <2>2. attached' \in SUBSET Clients /\ sq' \in SlotStates /\ gen' \in [Clients -> 0 .. MaxGeneration]
    BY <1>1, LeaveTypes
  <2> QED
    BY <1>1, <1>3, <1>6, <2>1, <2>2, TypesNamed
<1>8. ClientsExact'
  BY <1>3, LeaveKeepsClients
<1> QED
  BY <1>6, <1>7, <1>8 DEF BuffersInv

\* Storage kept in quarantine: all of it, or what an interrupted retirement has not unbound.
LEMMA LeaveQuarantinedKeeps ==
    ASSUME BuffersInv, NEW c \in Clients, Leave(c), blocked' = TRUE, pciOpen' \in BOOLEAN,
           life' = [life EXCEPT ![c] = "quarantined"], UNCHANGED <<pages, shared, pool>>,
           bo' \in [Clients -> [Slots -> Entries \cup {Free}]],
           \A d \in Clients \ {c} : bo'[d] = bo[d],
           \A r \in Slots : \/ bo'[c][r] = bo[c][r]
                            \/ /\ bo[c][r] # Free /\ bo[c][r].domain \notin VRAMDomains
                               /\ bo'[c][r] = Free \/ bo'[c][r] = [bo[c][r] EXCEPT !.domain = "partial"]
    PROVE  BuffersInv'
<1>1. TypeOK /\ SharesExact /\ PagesExact
  BY DEF BuffersInv, ClientsExact
<1>2. \A p \in Owned : Entry(p) \in Entries /\ (Entry(p).domain \notin VRAMDomains => Entry(p).id = 0)
  <2>1. TokensUnique
    BY <1>1 DEF SharesExact
  <2> QED
    BY <1>1, <2>1, EntryTypes, TypesNamed, TokensPairs DEF VRAMDomains
<1>3. \A p \in Clients \X Slots :
          \/ Entry(p)' = Entry(p)
          \/ /\ Entry(p) # Free /\ Entry(p).domain \notin VRAMDomains
             /\ Entry(p)' = Free \/ Entry(p)' = [Entry(p) EXCEPT !.domain = "partial"]
  BY DEF Entry
<1>4. Owned' \subseteq Owned
  BY <1>3, OwnedPairs
<1>5. \A p \in Owned' : \/ Entry(p)' = Entry(p)
                        \/ /\ Entry(p).id = 0 /\ Entry(p)'.id = 0
                           /\ Entry(p).domain \notin VRAMDomains /\ Entry(p)'.domain \notin VRAMDomains
  <2> SUFFICES ASSUME NEW p \in Owned', Entry(p)' # Entry(p)
               PROVE  /\ Entry(p).id = 0 /\ Entry(p)'.id = 0
                      /\ Entry(p).domain \notin VRAMDomains /\ Entry(p)'.domain \notin VRAMDomains
    OBVIOUS
  <2>1. p \in Owned /\ p \in Clients \X Slots /\ Entry(p)' # Free
    BY <1>4, OwnedPairs
  <2>2. Entry(p)' = [Entry(p) EXCEPT !.domain = "partial"] /\ Entry(p).domain \notin VRAMDomains
    BY <1>3, <2>1
  <2>3. Entry(p) \in Entries /\ Entry(p).id = 0
    BY <1>2, <2>1, <2>2
  <2> QED
    BY <2>2, <2>3 DEF Entries, VRAMDomains
<1>6. \A p \in Owned \ Owned' : Entry(p).domain \notin VRAMDomains /\ Entry(p).id = 0
  BY <1>2, <1>3, OwnedPairs
<1>7. SharesExact'
  BY <1>1, <1>4, <1>5, <1>6, HostCallKeepsShares
<1>8. TypeOK'
  <2>1. life' \in [Clients -> {"absent", "open", "quarantined"}]
    BY <1>1, TypesNamed
  <2>2. attached' \in SUBSET Clients /\ sq' \in SlotStates /\ gen' \in [Clients -> 0 .. MaxGeneration]
    BY <1>1, LeaveTypes
  <2> QED
    BY <1>1, <2>1, <2>2, TypesNamed
<1>9. ClientsExact'
  <2>1. \A r \in Slots : bo'[c][r] # Free => PageOf(r) \in pages'[c]
    BY <1>1, ClientTables
  <2> QED
    BY <2>1, LeaveKeepsClients
<1> QED
  BY <1>7, <1>8, <1>9 DEF BuffersInv

\* Every FinishStop that resets nothing.
LEMMA ClientStopKeeps ==
    ASSUME BuffersInv, NEW c \in Clients,
           \/ FinishStopLast(c, FALSE)
           \/ FinishStopQuarantines(c)
           \/ \E unbound \in SUBSET Slots : FinishStopRetires(c, unbound)
           \/ FinishStopDetached(c)
    PROVE  BuffersInv'
<1>1. /\ bo \in [Clients -> [Slots -> Entries \cup {Free}]] /\ blocked \in BOOLEAN /\ pciOpen \in BOOLEAN
  BY TypesNamed DEF BuffersInv
<1>2. CASE FinishStopLast(c, FALSE)
  <2>1. /\ Leave(c) /\ blocked' = TRUE /\ pciOpen' \in BOOLEAN /\ life' = [life EXCEPT ![c] = "quarantined"]
        /\ UNCHANGED <<pages, bo, shared, pool>>
    BY <1>2 DEF FinishStopLast
  <2> QED
    BY <1>1, <2>1, LeaveQuarantinedKeeps
<1>3. CASE FinishStopQuarantines(c)
  <2>1. /\ Leave(c) /\ blocked' = TRUE /\ pciOpen' \in BOOLEAN /\ life' = [life EXCEPT ![c] = "quarantined"]
        /\ UNCHANGED <<pages, bo, shared, pool>>
    BY <1>1, <1>3 DEF FinishStopQuarantines
  <2> QED
    BY <1>1, <2>1, LeaveQuarantinedKeeps
<1>4. ASSUME NEW unbound \in SUBSET Slots, FinishStopRetires(c, unbound)
      PROVE  BuffersInv'
  <2> DEFINE gtt == {s \in InUse(c) : bo[c][s].domain \in {"GTT", "partial"}}
  <2>1. /\ Leave(c) /\ ~blocked /\ UNCHANGED pciOpen /\ unbound \subseteq gtt /\ blocked' = (unbound # gtt)
    BY <1>4 DEF FinishStopRetires
  <2>2. \A r \in gtt : r \in Slots /\ bo[c][r] # Free /\ bo[c][r].domain \notin VRAMDomains
    BY DEF InUse, VRAMDomains
  <2>3. CASE unbound = gtt
    <3>1. ReleaseAll({c}) /\ life' = [life EXCEPT ![c] = "absent"] /\ blocked' = FALSE
      BY <1>4, <2>3 DEF FinishStopRetires
    <3> QED
      BY <2>1, <3>1, LeaveReleasedKeeps
  <2>4. CASE unbound # gtt
    <3>1. life' = [life EXCEPT ![c] = "quarantined"] /\ UNCHANGED <<pages, shared, pool>>
      BY <1>4, <2>4 DEF FinishStopRetires
    <3>2. PICK f \in gtt \ unbound :
              bo' = [bo EXCEPT ![c] = [s \in Slots |->
                            IF s \in unbound THEN Free
                            ELSE IF s = f THEN [bo[c][s] EXCEPT !.domain = "partial"]
                            ELSE bo[c][s]]]
      BY <1>4, <2>4 DEF FinishStopRetires
    <3> DEFINE k == [s \in Slots |-> IF s \in unbound THEN Free
                                     ELSE IF s = f THEN [bo[c][s] EXCEPT !.domain = "partial"]
                                     ELSE bo[c][s]]
    <3> HIDE DEF gtt
    <3>3. bo[c][f] \in Entries /\ [bo[c][f] EXCEPT !.domain = "partial"] \in Entries
      <4>1. bo[c][f] \in Entries
        BY <1>1, <2>2, <3>2
      <4> QED
        BY <4>1 DEF Entries, Domains
    <3>4. \A s \in Slots : k[s] \in Entries \cup {Free}
      BY <1>1, <3>3
    <3>5. \A r \in Slots : \/ k[r] = bo[c][r]
                           \/ /\ bo[c][r] # Free /\ bo[c][r].domain \notin VRAMDomains
                              /\ k[r] = Free \/ k[r] = [bo[c][r] EXCEPT !.domain = "partial"]
      BY <2>1, <2>2, <3>2
    <3>6. k \in [Slots -> Entries \cup {Free}]
      BY <3>4
    <3>7. bo' = [bo EXCEPT ![c] = k]
      BY <3>2
    <3> HIDE DEF k
    <3>8. /\ bo' \in [Clients -> [Slots -> Entries \cup {Free}]] /\ bo'[c] = k
          /\ \A d \in Clients \ {c} : bo'[d] = bo[d]
      BY <1>1, <3>6, <3>7
    <3>9. blocked' = TRUE /\ pciOpen' \in BOOLEAN
      BY <1>1, <2>1, <2>4
    <3> QED
      BY <2>1, <3>1, <3>5, <3>8, <3>9, LeaveQuarantinedKeeps
  <2> QED
    BY <2>3, <2>4
<1>5. CASE FinishStopDetached(c)
  <2>1. Leave(c) /\ ReleaseAll({c}) /\ life' = [life EXCEPT ![c] = "absent"] /\ UNCHANGED <<pciOpen, blocked>>
    BY <1>5 DEF FinishStopDetached
  <2> QED
    BY <1>1, <2>1, LeaveReleasedKeeps
<1> QED
  BY <1>2, <1>3, <1>4, <1>5

\* A reset: nobody but the caller is attached, so the quarantined and the caller own all there is.
LEMMA ResetKeeps ==
    ASSUME BuffersInv, NEW c \in Clients, attached \subseteq {c}, attached' = {}, pciOpen' = FALSE,
           blocked' \in BOOLEAN, NEW x \in {"open", "absent"},
           life' \in [Clients -> {"absent", "open", "quarantined"}],
           \A d \in Clients : life'[d] = IF d \in Quarantined THEN "absent" ELSE IF d = c THEN x ELSE life[d],
           sq' = IF sq.owner = c THEN NoSlot ELSE sq,
           Release(SlotsOf(Quarantined \cup {c})), Emptied(Quarantined \cup {c}),
           pool' = NoPool, UNCHANGED gen
    PROVE  BuffersInv'
<1>1. TypeOK /\ SharesExact /\ PagesExact /\ OwnersKnown /\ SlotAttached /\ AbsentEmpty
  BY DEF BuffersInv, ClientsExact
<1> DEFINE C == Quarantined \cup {c}
<1>2. C \subseteq Clients /\ \A d \in Clients \ C : d \notin attached /\ life[d] # "quarantined"
  BY DEF Quarantined
<1>3. \A d \in Clients \ C : \A r \in Slots : bo[d][r] = Free
  BY <1>1, <1>2, ClientTables
<1>4. /\ \A d \in Clients : bo'[d] = IF d \in C THEN Empty ELSE bo[d]
      /\ \A d \in Clients : pages'[d] = IF d \in C THEN {} ELSE pages[d]
      /\ pages' \in [Clients -> SUBSET Pages]
      /\ bo' \in [Clients -> [Slots -> Entries \cup {Free}]]
  <2>1. Empty \in [Slots -> Entries \cup {Free}]
    BY DEF Empty
  <2>2. /\ bo' = [d \in Clients |-> IF d \in C THEN Empty ELSE bo[d]]
        /\ pages' = [d \in Clients |-> IF d \in C THEN {} ELSE pages[d]]
    BY DEF Emptied
  <2>3. bo \in [Clients -> [Slots -> Entries \cup {Free}]] /\ pages \in [Clients -> SUBSET Pages]
    BY <1>1, TypesNamed
  <2> HIDE DEF C
  <2> QED
    BY <2>1, <2>2, <2>3
<1>5. SlotsOf(C) = Owned
  <2>1. \A p \in Clients \X Slots : p[1] \in C \/ Entry(p) = Free
    BY <1>3 DEF Entry
  <2>2. \A p : p \in C \X Slots <=> p \in Clients \X Slots /\ p[1] \in C
    BY <1>2
  <2>3. \A p : p \in SlotsOf(C) <=> p \in C \X Slots /\ Entry(p) # Free
    BY SlotsOfPairs
  <2> HIDE DEF C
  <2>4. \A p : p \in SlotsOf(C) <=> p \in Owned
    BY <2>1, <2>2, <2>3, OwnedPairs
  <2>5. SlotsOf(C) \subseteq C \X Slots /\ Owned \subseteq Clients \X Slots
    BY <2>3, OwnedPairs
  <2> QED
    BY <2>4, <2>5
<1>6. Release(Owned)
  BY <1>5
<1> HIDE DEF C
<1>7. \A d \in Clients : \A r \in Slots : bo'[d][r] = Free
  BY <1>3, <1>4 DEF Empty
<1>8. Owned' = {}
  BY <1>7, OwnedPairs DEF Entry
<1>9. SharesExact' /\ shared' \in [Ids -> ShareStates] /\ pool' \in [VRAMDomains -> SUBSET Blocks]
  BY <1>1, <1>6, <1>8, ResetKeepsShares
<1>10. sq'.owner = NoClient /\ sq' \in SlotStates
  <2>1. NoSlot \in SlotStates /\ NoSlot.owner = NoClient
    BY PageNumbers, SizeAssumption DEF NoSlot, SlotStates
  <2>2. sq.owner # NoClient => sq.owner = c
    BY <1>1 DEF SlotAttached
  <2> QED
    BY <1>1, <2>1, <2>2, TypesNamed
<1>11. TypeOK'
  BY <1>1, <1>4, <1>9, <1>10, TypesNamed
<1>12. SlotAttached' /\ SlotBacked'
  BY <1>10 DEF SlotAttached, SlotBacked
<1>13. \A d \in Clients \ C : life'[d] = life[d]
  BY DEF C
<1>14. PagesExact' /\ OwnersKnown'
  <2>1. ASSUME NEW d \in Clients, life'[d] = "open", NEW p \in pages'[d] PROVE \E r \in InPage(p) : bo'[d][r] # Free
    <3>1. d \notin C /\ pages'[d] = pages[d] /\ bo'[d] = bo[d]
      BY <1>4, <2>1
    <3>2. life[d] = "open" /\ p \in pages[d]
      BY <1>13, <2>1, <3>1
    <3>3. \E r \in InPage(p) : bo[d][r] # Free
      BY <1>1, <3>2, ClientTables
    <3> QED
      BY <3>1, <3>3
  <2>2. PagesExact'
    BY <1>7, <2>1, ClientTables
  <2>3. OwnersKnown'
    BY <1>7, ClientTables
  <2> QED
    BY <2>2, <2>3
<1>15. AbsentEmpty'
  BY <1>1, <1>4, <1>13 DEF AbsentEmpty
<1> QED
  BY <1>9, <1>11, <1>12, <1>14, <1>15 DEF BuffersInv, ClientsExact

\* ShutdownGPU, and the reset and close of the last participant.
LEMMA ShutdownKeeps ==
    ASSUME BuffersInv, NEW c \in Clients, ShutdownGPU(c) \/ FinishStopLast(c, TRUE)
    PROVE  BuffersInv'
<1>1. life \in [Clients -> {"absent", "open", "quarantined"}]
  BY TypesNamed DEF BuffersInv
<1>2. CASE ShutdownGPU(c)
  <2>1. /\ life[c] = "open" /\ attached \subseteq {c} /\ attached' = {} /\ pciOpen' = FALSE /\ blocked' = FALSE
        /\ life' = [d \in Clients |-> IF d \in Quarantined THEN "absent" ELSE life[d]]
        /\ sq' = IF sq.owner = c THEN NoSlot ELSE sq
        /\ Release(SlotsOf(Quarantined \cup {c})) /\ Emptied(Quarantined \cup {c})
        /\ pool' = NoPool /\ UNCHANGED gen
    BY <1>2 DEF ShutdownGPU
  <2>2. /\ life' \in [Clients -> {"absent", "open", "quarantined"}]
        /\ \A d \in Clients : life'[d] = IF d \in Quarantined THEN "absent" ELSE IF d = c THEN "open" ELSE life[d]
    BY <1>1, <2>1
  <2> QED
    BY <2>1, <2>2, ResetKeeps
<1>3. CASE FinishStopLast(c, TRUE)
  <2>1. /\ attached = {c} /\ attached' = {} /\ pciOpen' = FALSE /\ blocked' = FALSE
        /\ life' = [d \in Clients |-> IF d \in Quarantined \cup {c} THEN "absent" ELSE life[d]]
        /\ sq' = IF sq.owner = c THEN NoSlot ELSE sq
        /\ Release(SlotsOf(Quarantined \cup {c})) /\ Emptied(Quarantined \cup {c})
        /\ pool' = NoPool /\ UNCHANGED gen
    BY <1>3 DEF FinishStopLast, Leave
  <2>2. /\ life' \in [Clients -> {"absent", "open", "quarantined"}]
        /\ \A d \in Clients : life'[d] = IF d \in Quarantined THEN "absent" ELSE IF d = c THEN "absent" ELSE life[d]
    BY <1>1, <2>1
  <2> QED
    BY <2>1, <2>2, ResetKeeps
<1> QED
  BY <1>2, <1>3

\* Before the first client.
LEMMA BuffersInitInv == Init => BuffersInv
<1> SUFFICES ASSUME Init PROVE BuffersInv
  OBVIOUS
<1>1. /\ life = [c \in Clients |-> "absent"] /\ attached = {} /\ pciOpen = FALSE /\ blocked = FALSE
      /\ gen = [c \in Clients |-> 0] /\ pages = [c \in Clients |-> {}]
      /\ bo = [c \in Clients |-> Empty] /\ shared = [i \in Ids |-> Unshared]
      /\ pool = NoPool /\ sq = NoSlot
  BY DEF Init
<1>2. TypeOK
  <2>1. Empty \in [Slots -> Entries \cup {Free}] /\ NoPool \in [VRAMDomains -> SUBSET Blocks]
    BY DEF Empty, NoPool
  <2>2. Unshared \in ShareStates /\ NoSlot \in SlotStates
    BY PageNumbers, SizeAssumption DEF Unshared, ShareStates, NoSlot, SlotStates
  <2>3. 0 \in 0 .. MaxGeneration
    BY SizeAssumption
  <2> QED
    BY <1>1, <2>1, <2>2, <2>3, TypesNamed
<1>3. \A c \in Clients : \A r \in Slots : bo[c][r] = Free
  BY <1>1 DEF Empty
<1>4. Owned = {}
  BY <1>3, OwnedPairs DEF Entry
<1>5. \A i : Naming(Owned, i) = {}
  BY <1>4, NamingPairs
<1>6. \A i \in Ids : shared[i].refs = 0
  BY <1>1 DEF Unshared
<1>7. \A d \in VRAMDomains : pool[d] = {}
  BY <1>1 DEF NoPool
<1>8. SharesExact
  <2>1. ReferencesExact
    BY <1>5, <1>6, FS_EmptySet DEF ReferencesExact
  <2>2. RangesOwned
    BY <1>4, <1>7 DEF RangesOwned
  <2>3. TokensUnique /\ SharesNamed
    BY <1>4, <1>6, TokensPairs DEF SharesNamed
  <2> QED
    BY <2>1, <2>2, <2>3 DEF SharesExact
<1>9. sq.owner = NoClient
  BY <1>1 DEF NoSlot
<1>10. PagesExact /\ OwnersKnown /\ SlotBacked /\ SlotAttached /\ AbsentEmpty
  BY <1>1, <1>3, <1>9, ClientTables DEF SlotBacked, SlotAttached, AbsentEmpty
<1> QED
  BY <1>2, <1>8, <1>10 DEF BuffersInv, ClientsExact

\* The inductive invariant of the buffer tables: entries, references, ranges and tokens agree
\* across all clients, and each client's pages, its standing and the sample slot with its entries.
THEOREM BuffersSafe == Spec => []BuffersInv
<1>1. Init => BuffersInv
  BY BuffersInitInv
<1>2. BuffersInv /\ [Next]_vars => BuffersInv'
  <2> SUFFICES ASSUME BuffersInv, [Next]_vars PROVE BuffersInv'
    OBVIOUS
  <2>1. ASSUME NEW c \in Clients, OpenClient(c) PROVE BuffersInv'
    BY <2>1, OpenClientKeeps
  <2>2. ASSUME NEW c \in Clients,
               \/ \E d \in VRAMDomains, b \in Blocks : BOAllocVRAM(c, d, b)
               \/ \E ok \in BOOLEAN : BOAllocGTT(c, ok)
               \/ \E i \in Ids : BOImport(c, i)
        PROVE  BuffersInv'
    BY <2>2, FillEntryKeeps
  <2>3. ASSUME NEW c \in Clients, BOAllocFails(c) PROVE BuffersInv'
    BY <2>3, AllocFailsKeeps
  <2>4. ASSUME NEW c \in Clients, NEW s \in Slots, NEW i \in Ids, NEW t \in Tokens, BOExport(c, s, i, t)
        PROVE  BuffersInv'
    BY <2>4, ExportKeeps
  <2>5. ASSUME NEW c \in Clients, NEW s \in Slots, NEW ok \in BOOLEAN, BOFree(c, s, ok) PROVE BuffersInv'
    <3>1. CASE ok = TRUE
      BY <2>5, <3>1, FreedKeeps
    <3>2. CASE ok = FALSE
      BY <2>5, <3>2, FreeFailsKeeps
    <3> QED
      BY <3>1, <3>2
  <2>6. ASSUME NEW c \in Clients, NEW s \in Slots, RegisterSqSlot(c, s) PROVE BuffersInv'
    BY <2>6, RegisterKeeps
  <2>7. ASSUME NEW c \in Clients, ShutdownGPU(c) PROVE BuffersInv'
    BY <2>7, ShutdownKeeps
  <2>8. ASSUME NEW c \in Clients, NEW open \in BOOLEAN, ShutdownFails(c, open) PROVE BuffersInv'
    BY <2>8, BlockKeeps
  <2>9. ASSUME NEW c \in Clients, NEW ok \in BOOLEAN, FinishStopLast(c, ok) PROVE BuffersInv'
    <3>1. CASE ok = TRUE
      BY <2>9, <3>1, ShutdownKeeps
    <3>2. CASE ok = FALSE
      BY <2>9, <3>2, ClientStopKeeps
    <3> QED
      BY <3>1, <3>2
  <2>10. ASSUME NEW c \in Clients,
                \/ FinishStopQuarantines(c)
                \/ \E unbound \in SUBSET Slots : FinishStopRetires(c, unbound)
                \/ FinishStopDetached(c)
         PROVE  BuffersInv'
    BY <2>10, ClientStopKeeps
  <2>11. CASE Block
    BY <2>11, BlockKeeps
  <2>12. CASE UNCHANGED vars
    <3>1. TypeOK' /\ SharesExact'
      BY <2>12, SameShares, TypesNamed DEF vars, BuffersInv
    <3>2. PagesExact' /\ OwnersKnown' /\ SlotAttached' /\ AbsentEmpty'
      BY <2>12, ClientTables DEF vars, BuffersInv, ClientsExact, SlotAttached, AbsentEmpty
    <3>3. SlotBacked'
      BY <2>12, <3>2, SampledFacts DEF vars, BuffersInv, Sampled
    <3> QED
      BY <3>1, <3>2, <3>3 DEF BuffersInv, ClientsExact
  <2> QED
    BY <2>1, <2>2, <2>3, <2>4, <2>5, <2>6, <2>7, <2>8, <2>9, <2>10, <2>11, <2>12 DEF Next
<1> QED
  BY <1>1, <1>2, PTL DEF Spec

\* References, ranges, tables and the sample slot describe the same storage, through sharing,
\* failures, quarantine and resets of any number of clients.
THEOREM StorageAgrees == Spec => []StorageExact
<1>1. BuffersInv => StorageExact
  BY DEF BuffersInv, SharesExact, ClientsExact, StorageExact, TablesExact
<1> QED
  BY <1>1, BuffersSafe, PTL

\* What HandlesFresh says of a step.
Refreshes ==
    \A c \in Clients :
        /\ gen'[c] < gen[c] => life[c] = "absent"
        /\ \A s \in Slots :
              bo'[c][s] # Free /\ (bo[c][s] = Free \/ bo'[c][s].gen # bo[c][s].gen) => bo'[c][s].gen > gen[c]

\* A step that fills no slot.
Fills == \E c \in Clients, s \in Slots : bo'[c][s] # Free /\ (bo[c][s] = Free \/ bo'[c][s].gen # bo[c][s].gen)

\* A call that fills a slot gives it a generation above the client's last.
LEMMA FillRefreshes ==
    ASSUME TypeOK, PagesExact, NEW c \in Clients, NEW s, s \in FreeSlots(c), NEW e \in Entries,
           Store(c, s, e), e.gen = NextGen(c)
    PROVE  Refreshes
<1>1. /\ NextGen(c) = gen[c] + 1 /\ gen[c] \in Nat /\ \A d \in Clients : gen[d] \in Nat
  <2>1. gen \in [Clients -> 0 .. MaxGeneration]
    BY TypesNamed
  <2> QED
    BY <2>1, SizeAssumption, FreeSlotFacts
<1>2. /\ gen'[c] = NextGen(c) /\ bo'[c][s] = e
      /\ \A d \in Clients \ {c} : gen'[d] = gen[d] /\ bo'[d] = bo[d]
      /\ \A r \in Slots \ {s} : bo'[c][r] = bo[c][r]
  BY StoreFacts
<1> QED
  BY <1>1, <1>2 DEF Refreshes

\* What a step that fills none must not do: lower a generation.
LEMMA QuietRefreshes ==
    ASSUME TypeOK, ~Fills, \A c \in Clients : gen'[c] \in {gen[c], gen[c] + 1} \/ life[c] = "absent"
    PROVE  Refreshes
<1>1. \A c \in Clients : gen[c] \in Nat
  <2>1. gen \in [Clients -> 0 .. MaxGeneration]
    BY TypesNamed
  <2> QED
    BY <2>1, SizeAssumption
<1>2. ASSUME NEW c \in Clients, gen'[c] < gen[c] PROVE life[c] = "absent"
  <2>1. gen'[c] \notin {gen[c], gen[c] + 1}
    BY <1>1, <1>2
  <2> QED
    BY <2>1
<1> QED
  BY <1>2 DEF Refreshes, Fills

\* Steps that empty tables, or leave them, fill nothing.
LEMMA NothingFilled ==
    ASSUME \A c \in Clients, s \in Slots : bo'[c][s] \in {bo[c][s], Free}
    PROVE  ~Fills
BY DEF Fills

\* A filled slot gets a generation above all that its client had before: a handle that was valid
\* once never names another buffer, until the client's object is gone.
THEOREM HandlesNotReused == Spec => HandlesFresh
<1>1. ASSUME BuffersInv, [Next]_vars
      PROVE  [Refreshes]_vars
  <2> SUFFICES ASSUME Next PROVE Refreshes
    BY <1>1
  <2>1. TypeOK /\ PagesExact
    BY <1>1 DEF BuffersInv, ClientsExact
  <2>2. gen \in [Clients -> 0 .. MaxGeneration] /\ bo \in [Clients -> [Slots -> Entries \cup {Free}]]
    BY <2>1, TypesNamed
  <2>3. ASSUME UNCHANGED gen, \A c \in Clients, s \in Slots : bo'[c][s] \in {bo[c][s], Free} PROVE Refreshes
    BY <2>1, <2>3, NothingFilled, QuietRefreshes
  <2>4. ASSUME UNCHANGED gen, NEW C, Emptied(C) PROVE Refreshes
    <3>1. \A c \in Clients, s \in Slots : bo'[c][s] \in {bo[c][s], Free}
      BY <2>4 DEF Emptied, Empty
    <3> QED
      BY <2>3, <2>4, <3>1
  <2>5. ASSUME NEW c \in Clients, OpenClient(c) PROVE Refreshes
    <3>1. \A d \in Clients : gen'[d] \in {gen[d], gen[d] + 1} \/ life[d] = "absent"
      BY <2>2, <2>5 DEF OpenClient
    <3>2. \A d \in Clients, s \in Slots : bo'[d][s] \in {bo[d][s], Free}
      BY <2>5 DEF OpenClient
    <3> QED
      BY <2>1, <3>1, <3>2, NothingFilled, QuietRefreshes
  <2>6. ASSUME NEW c \in Clients, NEW d \in VRAMDomains, NEW b \in Blocks, BOAllocVRAM(c, d, b) PROVE Refreshes
    <3> DEFINE e == [domain |-> d, gen |-> NextGen(c), block |-> b, id |-> 0]
    <3>1. PICK s \in FreeSlots(c) : Store(c, s, e)
      BY <2>6 DEF BOAllocVRAM
    <3>2. NextGen(c) \in 0 .. MaxGeneration
      BY <2>1, FreeSlotFacts
    <3>3. e \in Entries /\ e.gen = NextGen(c)
      BY <3>2, SizeAssumption DEF Entries, Domains
    <3> HIDE DEF e
    <3> QED
      BY <2>1, <3>1, <3>3, FillRefreshes
  <2>7. ASSUME NEW c \in Clients, NEW ok \in BOOLEAN, BOAllocGTT(c, ok) PROVE Refreshes
    <3> DEFINE e == [domain |-> IF ok THEN "GTT" ELSE "partial", gen |-> NextGen(c), block |-> NoBlock, id |-> 0]
    <3>1. PICK s \in FreeSlots(c) : Store(c, s, e)
      BY <2>7 DEF BOAllocGTT
    <3>2. NextGen(c) \in 0 .. MaxGeneration
      BY <2>1, FreeSlotFacts
    <3>3. e \in Entries /\ e.gen = NextGen(c)
      BY <3>2, SizeAssumption DEF Entries, Domains
    <3> HIDE DEF e
    <3> QED
      BY <2>1, <3>1, <3>3, FillRefreshes
  <2>8. ASSUME NEW c \in Clients, NEW i \in Ids, BOImport(c, i) PROVE Refreshes
    <3> DEFINE e == [domain |-> "Device", gen |-> NextGen(c), block |-> shared[i].block, id |-> i]
    <3>1. PICK s \in FreeSlots(c) : Store(c, s, e)
      BY <2>8 DEF BOImport
    <3>2. NextGen(c) \in 0 .. MaxGeneration
      BY <2>1, FreeSlotFacts
    <3>3. shared[i].block \in Blocks \cup {NoBlock} /\ i \in 0 .. Capacity
      BY <2>1, TypesNamed, SizeAssumption DEF ShareStates, Ids
    <3>4. e \in Entries /\ e.gen = NextGen(c)
      BY <3>2, <3>3 DEF Entries, Domains, VRAMDomains
    <3> HIDE DEF e
    <3> QED
      BY <2>1, <3>1, <3>4, FillRefreshes
  <2>9. ASSUME NEW c \in Clients, BOAllocFails(c) PROVE Refreshes
    <3>1. gen' = [gen EXCEPT ![c] = NextGen(c)] /\ bo' = bo /\ NextGen(c) = gen[c] + 1
      BY <2>1, <2>9, FreeSlotFacts DEF BOAllocFails
    <3>2. \A d \in Clients : gen'[d] \in {gen[d], gen[d] + 1}
      BY <2>2, <3>1
    <3>3. \A d \in Clients, s \in Slots : bo'[d][s] \in {bo[d][s], Free}
      BY <3>1
    <3> QED
      BY <2>1, <3>2, <3>3, NothingFilled, QuietRefreshes
  <2>10. ASSUME UNCHANGED gen, NEW c \in Clients, NEW k, bo' = [bo EXCEPT ![c] = k],
                \A s \in Slots : \/ k[s] \in {bo[c][s], Free}
                                 \/ bo[c][s] # Free /\ k[s].gen = bo[c][s].gen
         PROVE  Refreshes
    <3>1. bo'[c] = k /\ \A d \in Clients \ {c} : bo'[d] = bo[d]
      BY <2>2, <2>10
    <3>2. ~Fills
      BY <2>10, <3>1 DEF Fills
    <3> QED
      BY <2>1, <2>10, <3>2, QuietRefreshes
  <2>11. ASSUME NEW c \in Clients, NEW s \in Slots, NEW i \in Ids, NEW t \in Tokens, BOExport(c, s, i, t)
         PROVE  Refreshes
    <3> DEFINE k == [bo[c] EXCEPT ![s].id = i]
    <3>1. UNCHANGED gen /\ bo[c][s] # Free
      BY <2>11 DEF BOExport, InUse
    <3>2. bo' = [bo EXCEPT ![c] = k]
      BY <2>2, <2>11 DEF BOExport
    <3>3. \A r \in Slots : k[r] \in {bo[c][r], Free} \/ (bo[c][r] # Free /\ k[r].gen = bo[c][r].gen)
      <4>1. bo[c][s] \in Entries
        BY <2>2, <3>1
      <4>2. k[s].gen = bo[c][s].gen
        BY <2>2, <4>1 DEF Entries
      <4>3. \A r \in Slots \ {s} : k[r] = bo[c][r]
        BY <2>2
      <4> HIDE DEF k
      <4> QED
        BY <3>1, <4>2, <4>3
    <3> HIDE DEF k
    <3> QED
      BY <2>10, <3>1, <3>2, <3>3
  <2>12. ASSUME NEW c \in Clients, NEW s \in Slots, NEW ok \in BOOLEAN, BOFree(c, s, ok) PROVE Refreshes
    <3>1. UNCHANGED gen /\ bo[c][s] # Free
      BY <2>12 DEF BOFree, InUse
    <3>2. CASE ok
      <4> DEFINE k == [bo[c] EXCEPT ![s] = Free]
      <4>1. bo' = [bo EXCEPT ![c] = k]
        BY <2>12, <3>2 DEF BOFree
      <4>2. \A r \in Slots : k[r] \in {bo[c][r], Free}
        BY <2>2
      <4> HIDE DEF k
      <4> QED
        BY <2>10, <3>1, <4>1, <4>2
    <3>3. CASE ~ok
      <4> DEFINE k == [bo[c] EXCEPT ![s].domain = "partial"]
      <4>1. bo' = [bo EXCEPT ![c] = k]
        BY <2>2, <2>12, <3>3 DEF BOFree
      <4>2. \A r \in Slots : k[r] \in {bo[c][r], Free} \/ (bo[c][r] # Free /\ k[r].gen = bo[c][r].gen)
        <5>1. bo[c][s] \in Entries
          BY <2>2, <3>1
        <5>2. k[s].gen = bo[c][s].gen
          BY <2>2, <5>1 DEF Entries
        <5>3. \A r \in Slots \ {s} : k[r] = bo[c][r]
          BY <2>2
        <5> HIDE DEF k
        <5> QED
          BY <3>1, <5>2, <5>3
      <4> HIDE DEF k
      <4> QED
        BY <2>10, <3>1, <4>1, <4>2
    <3> QED
      BY <3>2, <3>3
  <2>13. ASSUME UNCHANGED <<gen, bo>> PROVE Refreshes
    <3>1. \A d \in Clients, r \in Slots : bo'[d][r] \in {bo[d][r], Free}
      BY <2>13
    <3> QED
      BY <2>3, <2>13, <3>1
  <2>14. ASSUME NEW c \in Clients, NEW s \in Slots, RegisterSqSlot(c, s) PROVE Refreshes
    BY <2>13, <2>14 DEF RegisterSqSlot, tableVars
  <2>15. ASSUME NEW c \in Clients, ShutdownGPU(c) PROVE Refreshes
    BY <2>4, <2>15 DEF ShutdownGPU
  <2>16. ASSUME NEW c \in Clients, NEW open \in BOOLEAN, ShutdownFails(c, open) PROVE Refreshes
    BY <2>13, <2>16 DEF ShutdownFails, tableVars
  <2>17. ASSUME NEW c \in Clients, NEW ok \in BOOLEAN, FinishStopLast(c, ok) PROVE Refreshes
    <3>1. UNCHANGED gen /\ (UNCHANGED bo \/ Emptied(Quarantined \cup {c}))
      BY <2>17 DEF FinishStopLast, Leave
    <3> QED
      BY <2>4, <2>13, <3>1
  <2>18. ASSUME NEW c \in Clients, FinishStopQuarantines(c) PROVE Refreshes
    BY <2>13, <2>18 DEF FinishStopQuarantines, Leave
  <2>19. ASSUME NEW c \in Clients, NEW unbound \in SUBSET Slots, FinishStopRetires(c, unbound)
         PROVE  Refreshes
    <3> DEFINE gtt == {s \in InUse(c) : bo[c][s].domain \in {"GTT", "partial"}}
    <3>1. UNCHANGED gen
      BY <2>19 DEF FinishStopRetires, Leave
    <3>2. CASE unbound = gtt
      <4>1. Emptied({c})
        BY <2>19, <3>2 DEF FinishStopRetires, ReleaseAll
      <4> QED
        BY <2>4, <3>1, <4>1
    <3>3. CASE unbound # gtt
      <4>1. PICK f \in gtt \ unbound :
                bo' = [bo EXCEPT ![c] = [s \in Slots |->
                              IF s \in unbound THEN Free
                              ELSE IF s = f THEN [bo[c][s] EXCEPT !.domain = "partial"]
                              ELSE bo[c][s]]]
        BY <2>19, <3>3 DEF FinishStopRetires
      <4> DEFINE k == [s \in Slots |-> IF s \in unbound THEN Free
                                       ELSE IF s = f THEN [bo[c][s] EXCEPT !.domain = "partial"]
                                       ELSE bo[c][s]]
      <4>2. bo[c][f] # Free /\ f \in Slots
        BY <4>1 DEF InUse
      <4>3. bo[c][f] \in Entries
        BY <2>2, <4>2
      <4>4. [bo[c][f] EXCEPT !.domain = "partial"].gen = bo[c][f].gen
        BY <4>3 DEF Entries
      <4>5. \A r \in Slots : k[r] \in {bo[c][r], Free} \/ (bo[c][r] # Free /\ k[r].gen = bo[c][r].gen)
        BY <4>2, <4>4
      <4>6. bo' = [bo EXCEPT ![c] = k]
        BY <4>1
      <4> HIDE DEF k, gtt
      <4> QED
        BY <2>10, <3>1, <4>5, <4>6
    <3> QED
      BY <3>2, <3>3
  <2>20. ASSUME NEW c \in Clients, FinishStopDetached(c) PROVE Refreshes
    BY <2>4, <2>20 DEF FinishStopDetached, Leave, ReleaseAll
  <2>21. CASE Block
    BY <2>13, <2>21 DEF Block, tableVars
  <2> QED
    BY <2>5, <2>6, <2>7, <2>8, <2>9, <2>11, <2>12, <2>14, <2>15, <2>16, <2>17, <2>18, <2>19, <2>20, <2>21
       DEF Next
<1>2. [Refreshes]_vars =>
          [\A c \in Clients :
             /\ gen'[c] < gen[c] => life[c] = "absent"
             /\ \A s \in Slots :
                  /\ bo'[c][s] # Free
                  /\ bo[c][s] = Free \/ bo'[c][s].gen # bo[c][s].gen
                  => bo'[c][s].gen > gen[c]]_vars
  BY DEF Refreshes
<1> QED
  BY <1>1, <1>2, BuffersSafe, PTL DEF Spec, HandlesFresh

-----------------------------------------------------------------------------
(* Firmware files                                                          *)

\* Every nonempty set of natural numbers has a least element.
LEMMA LeastNumber ==
    ASSUME NEW S, S \subseteq Nat, S # {}
    PROVE  \E x \in S : \A y \in S : x <= y
<1> DEFINE R == OpToRel(<, Nat)
<1>1. IsWellFoundedOn(R, Nat)
  BY NatLessThanWellFounded
<1>2. \A x, y \in Nat : <<x, y>> \in R <=> x < y
  BY DEF OpToRel
<1> HIDE DEF R
<1>3. PICK x \in S : \A y \in S : ~(<<y, x>> \in R)
  BY <1>1, WFMin
<1>4. \A y \in S : x <= y
  <2>1. SUFFICES ASSUME NEW y \in S PROVE x <= y
    OBVIOUS
  <2>2. x \in Nat /\ y \in Nat /\ ~(<<y, x>> \in R)
    BY <1>3
  <2> QED
    BY <1>2, <2>2
<1> QED
  BY <1>4

\* The entries of a sequence.
NamesIn(s) == {s[i] : i \in DOMAIN s}

\* The names of all parts of all formats.
PartNames ==
    {"SDMA_UCODE_TH0", "IMU_I", "IMU_D", "CP_MES", "CP_MES_DATA", "CP_MES_KIQ", "MES_KIQ_STACK",
     "RS64_PFP", "RS64_PFP_P0", "RS64_ME", "RS64_ME_P0", "RS64_MEC", "RS64_MEC_P0", "RS64_MEC_P1",
     "SMU", "GLOBAL_TAP_DELAYS", "SE0_TAP_DELAYS", "SE1_TAP_DELAYS", "SE2_TAP_DELAYS",
     "SE3_TAP_DELAYS", "RLC_RESTORE_LIST_SRM_CNTL", "RLC_RESTORE_LIST_GPM_MEM",
     "RLC_RESTORE_LIST_SRM_MEM", "RLC_IRAM", "RLC_DRAM_BOOT", "RLC_P", "RLC_V", "RLC_G"}

\* A sequence of names without repetitions.
Once(s) == s \in Seq(PartNames) /\ \A i, j \in DOMAIN s : s[i] = s[j] => i = j

\* What the table holds after m of the parts ps.
Filling(out, m, ps, S) ==
    out = [i \in 0 .. m |->
             IF i = 0 THEN <<>>
             ELSE IF Len(out[i - 1]) < MaxPayloads /\ ps[i] \in S THEN Append(out[i - 1], ps[i])
             ELSE out[i - 1]]

\* The loop over the parts ends: there is a table after each of them.
LEMMA FillingExists ==
    ASSUME NEW ps, NEW S, NEW m \in Nat
    PROVE  \E out : Filling(out, m, ps, S)
<1> DEFINE Step(v, i) == IF Len(v) < MaxPayloads /\ ps[i] \in S THEN Append(v, ps[i]) ELSE v
           T == {k \in Nat : ~\E f : Filling(f, k, ps, S)}
<1>1. ASSUME T # {} PROVE FALSE
  <2>1. PICK k \in T : \A j \in T : k <= j
    BY <1>1, LeastNumber
  <2>2. CASE k = 0
    <3> DEFINE g == [i \in 0 .. 0 |-> <<>>]
    <3>1. g = [i \in 0 .. 0 |-> IF i = 0 THEN <<>> ELSE Step(g[i - 1], i)]
      OBVIOUS
    <3>2. Filling(g, 0, ps, S)
      BY <3>1 DEF Filling
    <3> QED
      BY <2>1, <2>2, <3>2
  <2>3. CASE k # 0
    <3>1. k - 1 \in Nat /\ k - 1 \notin T
      BY <2>1, <2>3
    <3>2. PICK f : Filling(f, k - 1, ps, S)
      BY <3>1
    <3> DEFINE g == [i \in 0 .. k |-> IF i < k THEN f[i] ELSE Step(f[k - 1], k)]
    <3>3. ASSUME NEW i \in 0 .. k
          PROVE  g[i] = IF i = 0 THEN <<>> ELSE Step(g[i - 1], i)
      <4>1. k \in Nat /\ k > 0
        BY <2>1, <2>3
      <4>2. CASE i = k
        <5>1. g[i] = Step(f[k - 1], k) /\ g[i - 1] = f[i - 1]
          BY <4>1, <4>2
        <5> QED
          BY <4>1, <4>2, <5>1
      <4>3. CASE i # k
        <5>1. i \in 0 .. k - 1 /\ g[i] = f[i]
          BY <4>1, <4>3
        <5>2. i # 0 => g[i - 1] = f[i - 1]
          BY <4>1, <5>1
        <5>3. f[i] = IF i = 0 THEN <<>> ELSE Step(f[i - 1], i)
          BY <3>2, <5>1 DEF Filling
        <5> HIDE DEF g, Step
        <5> QED
          BY <5>1, <5>2, <5>3
      <4> QED
        BY <4>2, <4>3
    <3>4. Filling(g, k, ps, S)
      <4>1. g = [i \in 0 .. k |-> g[i]]
        OBVIOUS
      <4> HIDE DEF g
      <4> QED
        BY <3>3, <4>1, Zenon DEF Filling
    <3> QED
      BY <2>1, <3>4
  <2> QED
    BY <2>2, <2>3
<1> QED
  BY <1>1

\* Kept is the table after the last part.
LEMMA KeptIsLast ==
    ASSUME NEW ps \in Seq(PartNames), NEW S
    PROVE  \E out : Filling(out, Len(ps), ps, S) /\ Kept(ps, S) = out[Len(ps)]
<1> DEFINE c == CHOOSE out : Filling(out, Len(ps), ps, S)
<1>1. Len(ps) \in Nat
  OBVIOUS
<1>2. Filling(c, Len(ps), ps, S)
  BY <1>1, FillingExists, Zenon
<1>3. Kept(ps, S) = c[Len(ps)]
  BY DEF Kept, Filling
<1> QED
  BY <1>2, <1>3

\* v holds the first i parts of ps that are in S, each once.
HoldsFirst(v, i, ps, S) ==
    /\ Once(v) /\ Len(v) <= i
    /\ \A x : x \in NamesIn(v) <=> x \in S /\ \E j \in 1 .. i : x = ps[j]

\* One pass of the loop: the next part is appended or skipped, and there is room for it.
LEMMA PushKeeps ==
    ASSUME NEW ps, Once(ps), Len(ps) <= MaxPayloads, NEW S, NEW i \in 1 .. Len(ps), NEW v,
           HoldsFirst(v, i - 1, ps, S)
    PROVE  /\ Len(v) < MaxPayloads
           /\ ps[i] \in S => HoldsFirst(Append(v, ps[i]), i, ps, S)
           /\ ps[i] \notin S => HoldsFirst(v, i, ps, S)
<1>1. /\ ps \in Seq(PartNames) /\ Len(ps) \in Nat /\ ps[i] \in PartNames /\ DOMAIN ps = 1 .. Len(ps)
      /\ v \in Seq(PartNames) /\ Len(v) \in Nat /\ DOMAIN v = 1 .. Len(v) /\ i \in Nat /\ MaxPayloads \in Nat
  BY FirmwareAssumption DEF Once, HoldsFirst
<1>2. Len(v) < MaxPayloads
  BY <1>1 DEF HoldsFirst
<1>3. \A x : (\E j \in 1 .. i : x = ps[j]) <=> (x = ps[i] \/ \E j \in 1 .. i - 1 : x = ps[j])
  BY <1>1
<1>4. ASSUME ps[i] \notin S PROVE HoldsFirst(v, i, ps, S)
  BY <1>1, <1>3, <1>4 DEF HoldsFirst
<1>5. ASSUME ps[i] \in S PROVE HoldsFirst(Append(v, ps[i]), i, ps, S)
  <2> DEFINE w == Append(v, ps[i])
  <2>1. /\ w \in Seq(PartNames) /\ Len(w) = Len(v) + 1 /\ DOMAIN w = 1 .. Len(v) + 1
        /\ w[Len(v) + 1] = ps[i] /\ \A j \in 1 .. Len(v) : w[j] = v[j]
    BY <1>1
  <2>2. \A j \in 1 .. i - 1 : ps[j] # ps[i]
    BY <1>1 DEF Once
  <2>3. ps[i] \notin NamesIn(v)
    BY <2>2 DEF HoldsFirst
  <2>4. \A j \in 1 .. Len(v) : v[j] # ps[i]
    BY <1>1, <2>3 DEF NamesIn
  <2> HIDE DEF w
  <2>5. Once(w)
    BY <1>1, <2>1, <2>4 DEF Once, HoldsFirst
  <2>6. \A x : x \in NamesIn(w) <=> x = ps[i] \/ x \in NamesIn(v)
    BY <1>1, <2>1 DEF NamesIn
  <2>7. Len(w) <= i
    BY <1>1, <2>1 DEF HoldsFirst
  <2>8. \A x : x \in NamesIn(w) <=> x \in S /\ \E j \in 1 .. i : x = ps[j]
    BY <1>3, <1>5, <2>6 DEF HoldsFirst
  <2>9. HoldsFirst(w, i, ps, S)
    BY <2>5, <2>7, <2>8 DEF HoldsFirst
  <2> QED
    BY <2>9 DEF w
<1> QED
  BY <1>2, <1>4, <1>5

\* The loop: a list that fits in the table is kept as far as it is wanted, and what was last in it
\* stays last.
LEMMA KeptHolds ==
    ASSUME NEW ps, Once(ps), Len(ps) <= MaxPayloads, NEW S
    PROVE  /\ HoldsFirst(Kept(ps, S), Len(ps), ps, S)
           /\ \A i \in DOMAIN Kept(ps, S) :
                Len(ps) > 0 /\ Kept(ps, S)[i] = ps[Len(ps)] => i = Len(Kept(ps, S))
<1>1. ps \in Seq(PartNames) /\ Len(ps) \in Nat /\ DOMAIN ps = 1 .. Len(ps)
  BY DEF Once
<1>2. PICK out : Filling(out, Len(ps), ps, S) /\ Kept(ps, S) = out[Len(ps)]
  BY <1>1, KeptIsLast
<1>3. /\ out[0] = <<>>
      /\ \A i \in 1 .. Len(ps) :
           out[i] = IF Len(out[i - 1]) < MaxPayloads /\ ps[i] \in S THEN Append(out[i - 1], ps[i])
                    ELSE out[i - 1]
  <2>1. ASSUME NEW i \in 0 .. Len(ps)
        PROVE  out[i] = IF i = 0 THEN <<>>
                        ELSE IF Len(out[i - 1]) < MaxPayloads /\ ps[i] \in S THEN Append(out[i - 1], ps[i])
                        ELSE out[i - 1]
    BY <1>2 DEF Filling
  <2>2. out[0] = <<>>
    BY <1>1, <2>1
  <2>3. ASSUME NEW i \in 1 .. Len(ps)
        PROVE  out[i] = IF Len(out[i - 1]) < MaxPayloads /\ ps[i] \in S THEN Append(out[i - 1], ps[i])
                        ELSE out[i - 1]
    <3>1. i \in 0 .. Len(ps) /\ i # 0
      BY <1>1
    <3> QED
      BY <2>1, <3>1
  <2> QED
    BY <2>2, <2>3
<1> DEFINE T == {i \in 0 .. Len(ps) : ~HoldsFirst(out[i], i, ps, S)}
<1>4. ASSUME T # {} PROVE FALSE
  <2>1. T \subseteq Nat
    BY <1>1
  <2>2. PICK i \in T : \A j \in T : i <= j
    BY <1>4, <2>1, LeastNumber
  <2>3. i # 0
    <3>1. HoldsFirst(<<>>, 0, ps, S)
      BY DEF HoldsFirst, Once, NamesIn
    <3> QED
      BY <1>3, <2>2, <3>1
  <2>4. i \in 1 .. Len(ps) /\ i - 1 \in 0 .. Len(ps) /\ i - 1 \notin T
    BY <1>1, <2>2, <2>3
  <2>5. HoldsFirst(out[i - 1], i - 1, ps, S)
    BY <2>4
  <2>6. HoldsFirst(out[i], i, ps, S)
    BY <1>3, <2>4, <2>5, PushKeeps
  <2> QED
    BY <2>2, <2>6
<1>5. \A i \in 0 .. Len(ps) : HoldsFirst(out[i], i, ps, S)
  BY <1>4
<1>6. HoldsFirst(Kept(ps, S), Len(ps), ps, S)
  BY <1>1, <1>2, <1>5
<1>7. ASSUME NEW i \in DOMAIN Kept(ps, S), Len(ps) > 0, Kept(ps, S)[i] = ps[Len(ps)]
      PROVE  i = Len(Kept(ps, S))
  <2> DEFINE m == Len(ps)
             v == out[m - 1]
  <2>1. m \in 1 .. m /\ m - 1 \in 0 .. m /\ HoldsFirst(v, m - 1, ps, S)
    BY <1>1, <1>5, <1>7
  <2>2. ps[m] \notin NamesIn(v)
    <3>1. \A j \in 1 .. m - 1 : ps[j] # ps[m]
      BY <1>1, <2>1 DEF Once
    <3> QED
      BY <2>1, <3>1 DEF HoldsFirst
  <2>3. Kept(ps, S) # v
    BY <1>7, <2>2 DEF NamesIn
  <2>4. Kept(ps, S) = Append(v, ps[m])
    BY <1>2, <1>3, <2>1, <2>3
  <2>5. v \in Seq(PartNames) /\ Len(v) \in Nat /\ ps[m] \in PartNames
    BY <1>1, <2>1 DEF HoldsFirst, Once
  <2> HIDE DEF v
  <2>6. DOMAIN Kept(ps, S) = 1 .. Len(v) + 1 /\ Len(Kept(ps, S)) = Len(v) + 1
        /\ \A j \in 1 .. Len(v) : Kept(ps, S)[j] = v[j]
    BY <2>4, <2>5
  <2>7. i # Len(v) + 1 => Kept(ps, S)[i] \in NamesIn(v)
    BY <2>5, <2>6 DEF NamesIn
  <2> QED
    BY <1>7, <2>2, <2>6, <2>7
<1> QED
  BY <1>6, <1>7

\* Two lists without a name in common, one after the other.
LEMMA ConcatOnce ==
    ASSUME NEW s, NEW t, Once(s), Once(t), NEW A, NEW B,
           NamesIn(s) \subseteq A, NamesIn(t) \subseteq B, A \cap B = {}
    PROVE  /\ Once(s \o t) /\ Len(s \o t) = Len(s) + Len(t)
           /\ NamesIn(s \o t) \subseteq A \cup B
<1>1. /\ s \in Seq(PartNames) /\ Len(s) \in Nat /\ DOMAIN s = 1 .. Len(s)
      /\ t \in Seq(PartNames) /\ Len(t) \in Nat /\ DOMAIN t = 1 .. Len(t)
  BY DEF Once
<1> DEFINE u == s \o t
<1>2. /\ u \in Seq(PartNames) /\ Len(u) = Len(s) + Len(t) /\ DOMAIN u = 1 .. Len(s) + Len(t)
      /\ \A i \in 1 .. Len(s) : u[i] = s[i]
      /\ \A i \in Len(s) + 1 .. Len(s) + Len(t) : u[i] = t[i - Len(s)]
  BY <1>1
<1> HIDE DEF u
<1>3. \A i \in 1 .. Len(s) : u[i] \in A
  BY <1>1, <1>2 DEF NamesIn
<1>4. \A i \in Len(s) + 1 .. Len(s) + Len(t) : i - Len(s) \in 1 .. Len(t) /\ u[i] \in B
  BY <1>1, <1>2 DEF NamesIn
<1>5. ASSUME NEW i \in DOMAIN u, NEW j \in DOMAIN u, u[i] = u[j] PROVE i = j
  <2>1. CASE i <= Len(s) /\ j <= Len(s)
    BY <1>1, <1>2, <1>5, <2>1 DEF Once
  <2>2. CASE i > Len(s) /\ j > Len(s)
    <3>1. /\ i - Len(s) \in 1 .. Len(t) /\ j - Len(s) \in 1 .. Len(t)
          /\ t[i - Len(s)] = t[j - Len(s)]
      BY <1>1, <1>2, <1>5, <2>2, SMTT(30)
    <3>2. i - Len(s) = j - Len(s)
      BY <1>1, <3>1 DEF Once
    <3> QED
      BY <1>1, <1>2, <3>2
  <2>3. CASE (i <= Len(s) /\ j > Len(s)) \/ (i > Len(s) /\ j <= Len(s))
    BY <1>1, <1>2, <1>3, <1>4, <1>5, <2>3
  <2> QED
    BY <1>1, <1>2, <2>1, <2>2, <2>3
<1>6. NamesIn(u) \subseteq A \cup B
  BY <1>1, <1>2, <1>3, <1>4 DEF NamesIn
<1> QED
  BY <1>2, <1>5, <1>6 DEF Once, u

\* A list of one name has each of them once.
LEMMA ListOne ==
    ASSUME NEW a \in PartNames
    PROVE  Once(<<a>>) /\ NamesIn(<<a>>) = {a} /\ Len(<<a>>) = 1
<1> DEFINE s == <<a>>
<1>1. s \in Seq(PartNames) /\ Len(s) = 1 /\ s[1] = a
  OBVIOUS
<1> HIDE DEF s
<1>2. DOMAIN s = {1}
  BY <1>1
<1>3. NamesIn(s) = {a}
  BY <1>1, <1>2 DEF NamesIn
<1>4. Once(s)
  BY <1>1, <1>2 DEF Once
<1> QED
  BY <1>1, <1>3, <1>4 DEF s

\* A list of two names has each of them once.
LEMMA ListTwo ==
    ASSUME NEW a \in PartNames, NEW b \in PartNames,
           a # b
    PROVE  Once(<<a, b>>) /\ NamesIn(<<a, b>>) = {a, b} /\ Len(<<a, b>>) = 2
<1> DEFINE s == <<a, b>>
<1>1. s \in Seq(PartNames) /\ Len(s) = 2 /\ s[1] = a /\ s[2] = b
  OBVIOUS
<1> HIDE DEF s
<1>2. DOMAIN s = {1, 2}
  BY <1>1
<1>3. NamesIn(s) = {a, b}
  BY <1>1, <1>2 DEF NamesIn
<1>4. Once(s)
  BY <1>1, <1>2 DEF Once
<1> QED
  BY <1>1, <1>3, <1>4 DEF s

\* A list of three names has each of them once.
LEMMA ListThree ==
    ASSUME NEW a \in PartNames, NEW b \in PartNames, NEW c \in PartNames,
           a # b, a # c, b # c
    PROVE  Once(<<a, b, c>>) /\ NamesIn(<<a, b, c>>) = {a, b, c} /\ Len(<<a, b, c>>) = 3
<1> DEFINE s == <<a, b, c>>
<1>1. s \in Seq(PartNames) /\ Len(s) = 3 /\ s[1] = a /\ s[2] = b /\ s[3] = c
  OBVIOUS
<1> HIDE DEF s
<1>2. DOMAIN s = {1, 2, 3}
  BY <1>1
<1>3. NamesIn(s) = {a, b, c}
  BY <1>1, <1>2 DEF NamesIn
<1>4. Once(s)
  BY <1>1, <1>2 DEF Once
<1> QED
  BY <1>1, <1>3, <1>4 DEF s

\* A list of four names has each of them once.
LEMMA ListFour ==
    ASSUME NEW a \in PartNames, NEW b \in PartNames, NEW c \in PartNames, NEW d \in PartNames,
           a # b, a # c, a # d, b # c, b # d, c # d
    PROVE  Once(<<a, b, c, d>>) /\ NamesIn(<<a, b, c, d>>) = {a, b, c, d} /\ Len(<<a, b, c, d>>) = 4
<1> DEFINE s == <<a, b, c, d>>
<1>1. s \in Seq(PartNames) /\ Len(s) = 4 /\ s[1] = a /\ s[2] = b /\ s[3] = c /\ s[4] = d
  OBVIOUS
<1> HIDE DEF s
<1>2. DOMAIN s = {1, 2, 3, 4}
  BY <1>1
<1>3. NamesIn(s) = {a, b, c, d}
  BY <1>1, <1>2 DEF NamesIn
<1>4. Once(s)
  BY <1>1, <1>2 DEF Once
<1> QED
  BY <1>1, <1>3, <1>4 DEF s

\* A list of five names has each of them once.
LEMMA ListFive ==
    ASSUME NEW a \in PartNames, NEW b \in PartNames, NEW c \in PartNames,
           NEW d \in PartNames, NEW e \in PartNames,
           a # b, a # c, a # d, a # e, b # c, b # d, b # e, c # d, c # e, d # e
    PROVE  Once(<<a, b, c, d, e>>) /\ NamesIn(<<a, b, c, d, e>>) = {a, b, c, d, e} /\ Len(<<a, b, c, d, e>>) = 5
<1> DEFINE s == <<a, b, c, d, e>>
<1>1. s \in Seq(PartNames) /\ Len(s) = 5 /\ s[1] = a /\ s[2] = b /\ s[3] = c /\ s[4] = d /\ s[5] = e
  OBVIOUS
<1> HIDE DEF s
<1>2. DOMAIN s = {1, 2, 3, 4, 5}
  BY <1>1
<1>3. NamesIn(s) = {a, b, c, d, e}
  BY <1>1, <1>2 DEF NamesIn
<1>4. Once(s)
  BY <1>1, <1>2 DEF Once
<1> QED
  BY <1>1, <1>3, <1>4 DEF s

\* TapDelays: its names are different.
LEMMA TapDelaysOnce ==
    /\ Once(TapDelays) /\ Len(TapDelays) = 5
    /\ NamesIn(TapDelays) = {"GLOBAL_TAP_DELAYS", "SE0_TAP_DELAYS", "SE1_TAP_DELAYS", "SE2_TAP_DELAYS",
                             "SE3_TAP_DELAYS"}
<1>1. /\ "GLOBAL_TAP_DELAYS" \in PartNames
      /\ "SE0_TAP_DELAYS" \in PartNames
      /\ "SE1_TAP_DELAYS" \in PartNames
      /\ "SE2_TAP_DELAYS" \in PartNames
      /\ "SE3_TAP_DELAYS" \in PartNames
  BY DEF PartNames
<1> QED
  BY <1>1, ListFive DEF TapDelays

\* RestoreLists: its names are different.
LEMMA RestoreListsOnce ==
    /\ Once(RestoreLists) /\ Len(RestoreLists) = 3
    /\ NamesIn(RestoreLists) = {"RLC_RESTORE_LIST_SRM_CNTL", "RLC_RESTORE_LIST_GPM_MEM",
                                "RLC_RESTORE_LIST_SRM_MEM"}
<1>1. /\ "RLC_RESTORE_LIST_SRM_CNTL" \in PartNames
      /\ "RLC_RESTORE_LIST_GPM_MEM" \in PartNames
      /\ "RLC_RESTORE_LIST_SRM_MEM" \in PartNames
  BY DEF PartNames
<1> QED
  BY <1>1, ListThree DEF RestoreLists

\* The lengths of the optional groups of an RLC file: minor versions 3 and 4 exclude each other.
LEMMA LengthBound ==
    ASSUME NEW w, NEW x, NEW y, NEW z, (w = 0 /\ z \in {0, 2}) \/ (w = 5 /\ z = 0), x \in {0, 3}, y \in {0, 2}
    PROVE  w + x + y + z \in 0 .. 10
OBVIOUS

\* With RLC_G behind them.
LEMMA OneMore ==
    ASSUME NEW n \in 0 .. 10, NEW m, m = n + 1
    PROVE  m \in 1 .. 11
OBVIOUS

\* RLCParts: every part once, at most 11 of them, RLC_G the last.
LEMMA RLCPartsOnce ==
    ASSUME NEW f
    PROVE  /\ Once(RLCParts(f)) /\ Len(RLCParts(f)) \in 1 .. 11
           /\ RLCParts(f)[Len(RLCParts(f))] = "RLC_G" /\ "IMU_D" \notin NamesIn(RLCParts(f))
<1> DEFINE since(present, minor, names) == IF present /\ f.bytes >= minor + 1 THEN names ELSE <<>>
           A == {"GLOBAL_TAP_DELAYS", "SE0_TAP_DELAYS", "SE1_TAP_DELAYS", "SE2_TAP_DELAYS", "SE3_TAP_DELAYS"}
           B == {"RLC_RESTORE_LIST_SRM_CNTL", "RLC_RESTORE_LIST_GPM_MEM", "RLC_RESTORE_LIST_SRM_MEM"}
           C == {"RLC_IRAM", "RLC_DRAM_BOOT"}
           D == {"RLC_P", "RLC_V"}
           E == {"RLC_G"}
           lc == <<"RLC_IRAM", "RLC_DRAM_BOOT">>
           ld == <<"RLC_P", "RLC_V">>
           a == since(f.minor = 4, 4, TapDelays)
           b == since(f.minor >= 1, 1, RestoreLists)
           c == since(f.minor >= 2, 2, lc)
           d == since(f.minor = 3, 3, ld)
           e == <<"RLC_G">>
<1>1. Once(<<>>) /\ NamesIn(<<>>) = {} /\ Len(<<>>) = 0
  BY DEF Once, NamesIn
<1>2. RLCParts(f) = a \o b \o c \o d \o e
  BY DEF RLCParts
<1>3. /\ A \cap B = {} /\ (A \cup B) \cap C = {} /\ (A \cup B \cup C) \cap D = {}
      /\ (A \cup B \cup C \cup D) \cap E = {}
  OBVIOUS
<1>4. "IMU_D" \notin A \cup B \cup C \cup D \cup E
  OBVIOUS
<1>5. Once(TapDelays) /\ NamesIn(TapDelays) = A /\ Len(TapDelays) = 5
  BY TapDelaysOnce
<1>6. Once(RestoreLists) /\ NamesIn(RestoreLists) = B /\ Len(RestoreLists) = 3
  BY RestoreListsOnce
<1>7. Once(lc) /\ NamesIn(lc) = C /\ Len(lc) = 2
  <2>1. "RLC_IRAM" \in PartNames /\ "RLC_DRAM_BOOT" \in PartNames
    BY DEF PartNames
  <2> QED
    BY <2>1, ListTwo
<1>8. Once(ld) /\ NamesIn(ld) = D /\ Len(ld) = 2
  <2>1. "RLC_P" \in PartNames /\ "RLC_V" \in PartNames
    BY DEF PartNames
  <2> QED
    BY <2>1, ListTwo
<1>9. Once(e) /\ NamesIn(e) \subseteq E
  <2>1. "RLC_G" \in PartNames
    BY DEF PartNames
  <2> QED
    BY <2>1, ListOne
<1>10. Len(e) = 1
  OBVIOUS
<1>11. e[1] = "RLC_G"
  OBVIOUS
<1> HIDE DEF e, A, B, C, D, E, lc, ld
<1>12. /\ (a = TapDelays /\ f.minor = 4) \/ a = <<>>
       /\ b = RestoreLists \/ b = <<>>
       /\ c = lc \/ c = <<>>
       /\ (d = ld /\ f.minor = 3) \/ d = <<>>
  BY Zenon
<1> HIDE DEF a, b, c, d
<1>13. Once(a) /\ NamesIn(a) \subseteq A /\ (Len(a) = 0 \/ (Len(a) = 5 /\ f.minor = 4))
  BY <1>1, <1>5, <1>12
<1>14. Once(b) /\ NamesIn(b) \subseteq B /\ Len(b) \in {0, 3}
  BY <1>1, <1>6, <1>12
<1>15. Once(c) /\ NamesIn(c) \subseteq C /\ Len(c) \in {0, 2}
  BY <1>1, <1>7, <1>12
<1>16. Once(d) /\ NamesIn(d) \subseteq D /\ (Len(d) = 0 \/ (Len(d) = 2 /\ f.minor = 3))
  BY <1>1, <1>8, <1>12
<1> DEFINE ab == a \o b
           abc == ab \o c
           abcd == abc \o d
           all == abcd \o e
<1>17. Once(ab) /\ Len(ab) = Len(a) + Len(b) /\ NamesIn(ab) \subseteq A \cup B
  BY <1>3, <1>13, <1>14, ConcatOnce
<1> HIDE DEF ab
<1>18. Once(abc) /\ Len(abc) = Len(ab) + Len(c) /\ NamesIn(abc) \subseteq A \cup B \cup C
  BY <1>3, <1>15, <1>17, ConcatOnce
<1> HIDE DEF abc
<1>19. Once(abcd) /\ Len(abcd) = Len(abc) + Len(d) /\ NamesIn(abcd) \subseteq A \cup B \cup C \cup D
  BY <1>3, <1>16, <1>18, ConcatOnce
<1> HIDE DEF abcd
<1>20. Once(all) /\ Len(all) = Len(abcd) + Len(e) /\ NamesIn(all) \subseteq A \cup B \cup C \cup D \cup E
  BY <1>3, <1>9, <1>19, ConcatOnce
<1>21. Len(abcd) \in 0 .. 10
  <2>1. ~(f.minor = 3 /\ f.minor = 4)
    OBVIOUS
  <2>2. (Len(a) = 0 /\ Len(d) \in {0, 2}) \/ (Len(a) = 5 /\ Len(d) = 0)
    BY <1>13, <1>16, <2>1
  <2>3. Len(abcd) = Len(a) + Len(b) + Len(c) + Len(d)
    BY <1>17, <1>18, <1>19
  <2>4. Len(b) \in {0, 3} /\ Len(c) \in {0, 2}
    BY <1>14, <1>15
  <2>5. Len(a) + Len(b) + Len(c) + Len(d) \in 0 .. 10
    BY <2>2, <2>4, LengthBound, Zenon
  <2> QED
    BY <2>3, <2>5
<1>22. all[Len(abcd) + 1] = "RLC_G"
  <2>1. abcd \in Seq(PartNames) /\ e \in Seq(PartNames) /\ Len(abcd) \in Nat
    BY <1>9, <1>19, <1>21 DEF Once
  <2>2. 1 \in 1 .. Len(e) /\ Len(e) \in Nat
    BY <1>10
  <2>3. all[Len(abcd) + 1] = e[1]
    BY <2>1, <2>2
  <2> QED
    BY <1>11, <2>3
<1>23. RLCParts(f) = all
  BY <1>2 DEF ab, abc, abcd
<1> HIDE DEF all
<1> QED
  <2>1. Len(all) = Len(abcd) + 1
    BY <1>10, <1>20
  <2>2. Len(all) \in 1 .. 11
    BY <1>21, <2>1, OneMore
  <2> QED
    BY <1>4, <1>20, <1>22, <1>23, <2>1, <2>2

\* The parts of a format are distinct, fit in the table, and RLC_G is the last of its file.
LEMMA PartsOnce ==
    ASSUME NEW f, f.format \in Formats
    PROVE  /\ Once(Parts(f)) /\ Len(Parts(f)) \in 1 .. 11
           /\ \A i \in DOMAIN Parts(f) : Parts(f)[i] = "RLC_G" => i = Len(Parts(f))
           /\ "IMU_D" \in NamesIn(Parts(f)) => f.format = "IMU"
<1>1. CASE f.format = "RLC"
  <2>1. Parts(f) = RLCParts(f)
    BY <1>1 DEF Parts
  <2>2. /\ Once(Parts(f)) /\ Len(Parts(f)) \in 1 .. 11
        /\ Parts(f)[Len(Parts(f))] = "RLC_G" /\ "IMU_D" \notin NamesIn(Parts(f))
    BY <2>1, RLCPartsOnce
  <2>3. Len(Parts(f)) \in DOMAIN Parts(f)
    <3>1. DOMAIN Parts(f) = 1 .. Len(Parts(f))
      BY <2>2 DEF Once
    <3> QED
      BY <2>2, <3>1
  <2> QED
    BY <2>2, <2>3 DEF Once
<1>2. CASE f.format = "SDMA"
  <2>1. Parts(f) = <<"SDMA_UCODE_TH0">>
    BY <1>2 DEF Parts
  <2>2. "SDMA_UCODE_TH0" \in PartNames
    BY DEF PartNames
  <2>3. Once(Parts(f)) /\ Len(Parts(f)) = 1 /\ NamesIn(Parts(f)) = {"SDMA_UCODE_TH0"}
    BY <2>1, <2>2, ListOne
  <2>4. "RLC_G" \notin NamesIn(Parts(f))
    BY <2>3
  <2> QED
    BY <2>3, <2>4, <1>2 DEF NamesIn
<1>3. CASE f.format = "IMU"
  <2>1. Parts(f) = <<"IMU_I", "IMU_D">>
    BY <1>3 DEF Parts
  <2>2. "IMU_I" \in PartNames /\ "IMU_D" \in PartNames
    BY DEF PartNames
  <2>3. Once(Parts(f)) /\ Len(Parts(f)) = 2 /\ NamesIn(Parts(f)) = {"IMU_I", "IMU_D"}
    BY <2>1, <2>2, ListTwo
  <2>4. "RLC_G" \notin NamesIn(Parts(f))
    BY <2>3
  <2> QED
    BY <2>3, <2>4, <1>3 DEF NamesIn
<1>4. CASE f.format = "MES_UNI"
  <2>1. Parts(f) = <<"CP_MES", "CP_MES_DATA", "CP_MES_KIQ", "MES_KIQ_STACK">>
    BY <1>4 DEF Parts
  <2>2. /\ "CP_MES" \in PartNames /\ "CP_MES_DATA" \in PartNames
        /\ "CP_MES_KIQ" \in PartNames /\ "MES_KIQ_STACK" \in PartNames
    BY DEF PartNames
  <2>3. /\ Once(Parts(f)) /\ Len(Parts(f)) = 4
        /\ NamesIn(Parts(f)) = {"CP_MES", "CP_MES_DATA", "CP_MES_KIQ", "MES_KIQ_STACK"}
    BY <2>1, <2>2, ListFour
  <2>4. "RLC_G" \notin NamesIn(Parts(f))
    BY <2>3
  <2> QED
    BY <2>3, <2>4, <1>4 DEF NamesIn
<1>5. CASE f.format = "CP_PFP"
  <2>1. Parts(f) = <<"RS64_PFP", "RS64_PFP_P0">>
    BY <1>5 DEF Parts
  <2>2. "RS64_PFP" \in PartNames /\ "RS64_PFP_P0" \in PartNames
    BY DEF PartNames
  <2>3. Once(Parts(f)) /\ Len(Parts(f)) = 2 /\ NamesIn(Parts(f)) = {"RS64_PFP", "RS64_PFP_P0"}
    BY <2>1, <2>2, ListTwo
  <2>4. "RLC_G" \notin NamesIn(Parts(f))
    BY <2>3
  <2> QED
    BY <2>3, <2>4, <1>5 DEF NamesIn
<1>6. CASE f.format = "CP_ME"
  <2>1. Parts(f) = <<"RS64_ME", "RS64_ME_P0">>
    BY <1>6 DEF Parts
  <2>2. "RS64_ME" \in PartNames /\ "RS64_ME_P0" \in PartNames
    BY DEF PartNames
  <2>3. Once(Parts(f)) /\ Len(Parts(f)) = 2 /\ NamesIn(Parts(f)) = {"RS64_ME", "RS64_ME_P0"}
    BY <2>1, <2>2, ListTwo
  <2>4. "RLC_G" \notin NamesIn(Parts(f))
    BY <2>3
  <2> QED
    BY <2>3, <2>4, <1>6 DEF NamesIn
<1>7. CASE f.format = "CP_MEC"
  <2>1. Parts(f) = <<"RS64_MEC", "RS64_MEC_P0", "RS64_MEC_P1">>
    BY <1>7 DEF Parts
  <2>2. "RS64_MEC" \in PartNames /\ "RS64_MEC_P0" \in PartNames /\ "RS64_MEC_P1" \in PartNames
    BY DEF PartNames
  <2>3. Once(Parts(f)) /\ Len(Parts(f)) = 3 /\ NamesIn(Parts(f)) = {"RS64_MEC", "RS64_MEC_P0", "RS64_MEC_P1"}
    BY <2>1, <2>2, ListThree
  <2>4. "RLC_G" \notin NamesIn(Parts(f))
    BY <2>3
  <2> QED
    BY <2>3, <2>4, <1>7 DEF NamesIn
<1>8. CASE f.format = "SMU"
  <2>1. Parts(f) = <<"SMU">>
    BY <1>8 DEF Parts
  <2>2. "SMU" \in PartNames
    BY DEF PartNames
  <2>3. Once(Parts(f)) /\ Len(Parts(f)) = 1 /\ NamesIn(Parts(f)) = {"SMU"}
    BY <2>1, <2>2, ListOne
  <2>4. "RLC_G" \notin NamesIn(Parts(f))
    BY <2>3
  <2> QED
    BY <2>3, <2>4, <1>8 DEF NamesIn
<1> QED
  BY <1>1, <1>2, <1>3, <1>4, <1>5, <1>6, <1>7, <1>8 DEF Formats

\* A part's range is made of natural numbers.
LEMMA LocatedType ==
    ASSUME NEW f, IsFile(f), NEW p \in PartsOf(f)
    PROVE  Located(f, p).at \in Nat /\ Located(f, p).size \in Nat
<1>1. f.field \in [FieldsOf(f) -> FieldRanges] /\ Field(p) \in FieldsOf(f)
  BY DEF IsFile, FieldsOf
<1>2. \A r \in FieldRanges : r.at \in Nat /\ r.size \in Nat
  BY FirmwareAssumption DEF FieldRanges
<1>3. CASE p # "IMU_D"
  BY <1>1, <1>2, <1>3 DEF Located
<1>4. CASE p = "IMU_D"
  <2>1. f.format = "IMU"
    <3>1. f.format \in Formats
      BY DEF IsFile
    <3> QED
      BY <1>4, <3>1, PartsOnce DEF PartsOf, NamesIn
  <2>2. Parts(f) = <<"IMU_I", "IMU_D">>
    BY <2>1 DEF Parts
  <2>3. "IMU_I" \in PartsOf(f)
    <3>1. 1 \in DOMAIN Parts(f) /\ Parts(f)[1] = "IMU_I"
      BY <2>2
    <3> QED
      BY <3>1 DEF PartsOf
  <2>4. Field("IMU_I") = "IMU_I" /\ Field("IMU_D") = "IMU_D"
    BY DEF Field
  <2>5. "IMU_I" \in FieldsOf(f) /\ "IMU_D" \in FieldsOf(f)
    BY <1>1, <1>4, <2>3, <2>4 DEF FieldsOf
  <2>6. f.field["IMU_I"] \in FieldRanges /\ f.field["IMU_D"] \in FieldRanges
    BY <1>1, <2>5
  <2> QED
    BY <1>2, <1>4, <2>6 DEF Located
<1> QED
  BY <1>3, <1>4

\* A sequence without repetitions has as many entries as positions.
LEMMA OnceCounts ==
    ASSUME NEW v, Once(v)
    PROVE  Len(v) = Cardinality(NamesIn(v))
<1>1. v \in Seq(PartNames) /\ Len(v) \in Nat /\ DOMAIN v = 1 .. Len(v)
  BY DEF Once
<1>2. v \in [1 .. Len(v) -> NamesIn(v)]
  BY <1>1 DEF NamesIn
<1>3. v \in Injection(1 .. Len(v), NamesIn(v))
  BY <1>1, <1>2 DEF Injection, IsInjective, Once
<1>4. v \in Surjection(1 .. Len(v), NamesIn(v))
  BY <1>1, <1>2 DEF Surjection, NamesIn
<1>5. IsFiniteSet(1 .. Len(v)) /\ Cardinality(1 .. Len(v)) = Len(v)
  <2>1. /\ IsFiniteSet(1 .. Len(v))
        /\ Cardinality(1 .. Len(v)) = IF 1 > Len(v) THEN 0 ELSE Len(v) - 1 + 1
    BY <1>1, FS_Interval
  <2> QED
    BY <1>1, <2>1
<1>6. ExistsBijection(1 .. Len(v), NamesIn(v))
  BY <1>3, <1>4 DEF ExistsBijection, Bijection
<1> QED
  BY <1>5, <1>6, FS_Bijection

\* The bytes a part occupies, and the parts of a file whose bytes are bytes of the file.
Span(f, p) == {Located(f, p).at + k - 1 : k \in 1 .. Located(f, p).size}
InFile(f) == {p \in PartsOf(f) : Span(f, p) # {} /\ Span(f, p) \subseteq 0 .. f.bytes - 1}

\* within accepts a range exactly when it is not empty and all its bytes are in the file.
LEMMA WithinExact ==
    ASSUME NEW f, IsFile(f), NEW p \in PartsOf(f)
    PROVE  Within(Located(f, p), f.bytes) <=> p \in InFile(f)
<1> DEFINE at == Located(f, p).at
           size == Located(f, p).size
           bytes == f.bytes
<1>1. at \in Nat /\ size \in Nat /\ bytes \in Nat
  BY LocatedType DEF IsFile
<1>2. Within(Located(f, p), f.bytes) <=> size # 0 /\ at < bytes /\ at + size <= bytes
  BY DEF Within
<1>3. Span(f, p) = {at + k - 1 : k \in 1 .. size}
  BY DEF Span
<1> HIDE DEF at, size, bytes
<1>4. ASSUME size # 0, at + size <= bytes
      PROVE  Span(f, p) # {} /\ Span(f, p) \subseteq 0 .. bytes - 1
  <2>1. at \in Span(f, p)
    <3>1. 1 \in 1 .. size /\ at = at + 1 - 1
      BY <1>1, <1>4
    <3> QED
      BY <1>3, <3>1
  <2>2. Span(f, p) \subseteq 0 .. bytes - 1
    BY <1>1, <1>3, <1>4
  <2> QED
    BY <2>1, <2>2
<1>5. ASSUME Span(f, p) # {}, Span(f, p) \subseteq 0 .. bytes - 1
      PROVE  size # 0 /\ at < bytes /\ at + size <= bytes
  <2>1. size # 0
    BY <1>1, <1>3, <1>5
  <2>2. 1 \in 1 .. size /\ size \in 1 .. size
    BY <1>1, <2>1
  <2>3. at + 1 - 1 \in 0 .. bytes - 1 /\ at + size - 1 \in 0 .. bytes - 1
    BY <1>3, <1>5, <2>2
  <2> QED
    BY <1>1, <2>1, <2>3
<1>6. Within(Located(f, p), f.bytes) <=> Span(f, p) # {} /\ Span(f, p) \subseteq 0 .. bytes - 1
  BY <1>2, <1>4, <1>5
<1> QED
  BY <1>6 DEF InFile, bytes

\* v has the parts of W, each once, RLC_G at the end.
Yields(v, W) ==
    /\ Once(v) /\ NamesIn(v) = W
    /\ \A i \in DOMAIN v : v[i] = "RLC_G" => i = Len(v)

\* The push loop and the filter loop: what is kept of a list that fits in the table.
LEMMA KeptYields ==
    ASSUME NEW ps, NEW W, Yields(ps, W), Len(ps) <= MaxPayloads, NEW S
    PROVE  Yields(Kept(ps, S), W \cap S) /\ Len(Kept(ps, S)) <= Len(ps)
<1>1. Once(ps) /\ ps \in Seq(PartNames) /\ Len(ps) \in Nat /\ DOMAIN ps = 1 .. Len(ps)
  BY DEF Yields, Once
<1> DEFINE v == Kept(ps, S)
<1>2. /\ HoldsFirst(v, Len(ps), ps, S)
      /\ \A i \in DOMAIN v : Len(ps) > 0 /\ v[i] = ps[Len(ps)] => i = Len(v)
  BY <1>1, KeptHolds
<1> HIDE DEF v
<1>3. Once(v) /\ Len(v) <= Len(ps) /\ \A x : x \in NamesIn(v) <=> x \in S /\ \E j \in 1 .. Len(ps) : x = ps[j]
  BY <1>2 DEF HoldsFirst
<1>4. \A x : (\E j \in 1 .. Len(ps) : x = ps[j]) <=> x \in W
  BY <1>1 DEF Yields, NamesIn
<1>5. NamesIn(v) = W \cap S
  BY <1>3, <1>4
<1>6. ASSUME NEW i \in DOMAIN v, v[i] = "RLC_G" PROVE i = Len(v)
  <2>1. v[i] \in NamesIn(v)
    BY <1>6 DEF NamesIn
  <2>2. PICK j \in 1 .. Len(ps) : v[i] = ps[j]
    BY <1>3, <2>1
  <2>3. j = Len(ps) /\ Len(ps) > 0
    <3>1. j \in DOMAIN ps /\ ps[j] = "RLC_G"
      BY <1>1, <1>6, <2>2
    <3>2. j = Len(ps)
      BY <3>1, Zenon DEF Yields
    <3> QED
      BY <1>1, <2>2, <3>2
  <2> QED
    BY <1>2, <2>2, <2>3
<1>7. Yields(v, W \cap S)
  BY <1>3, <1>5, <1>6 DEF Yields
<1> QED
  BY <1>3, <1>7 DEF v

\* kMaxUcodePayloadsPerFile: the richest format fits in the table.
LEMMA TableFits ==
    ASSUME NEW n \in 1 .. 11
    PROVE  n <= MaxPayloads /\ n \in Nat
BY FirmwareAssumption

\* Extract: the parts of the file that were asked for and lie in it.
LEMMA ExtractYields ==
    ASSUME NEW f, IsFile(f), NEW wanted
    PROVE  Yields(Extract(f, wanted),
                  IF f.bytes = 0 \/ ~f.majorOK THEN {}
                  ELSE IF wanted = "file" THEN InFile(f) ELSE InFile(f) \cap {wanted})
<1> DEFINE S == {p \in PartsOf(f) : Within(Located(f, p), f.bytes)}
<1>1. f.format \in Formats /\ f.bytes \in Nat /\ f.majorOK \in BOOLEAN
  BY DEF IsFile
<1>2. MaxPayloads \in Nat /\ MaxPayloads >= 11
  BY FirmwareAssumption
<1>3. Yields(Parts(f), PartsOf(f)) /\ Len(Parts(f)) \in 1 .. 11
  BY <1>1, PartsOnce DEF Yields, PartsOf, NamesIn
<1>4. S = InFile(f) /\ InFile(f) \subseteq PartsOf(f)
  BY WithinExact DEF InFile
<1>5. Yields(<<>>, {}) /\ Len(<<>>) = 0
  BY DEF Yields, Once, NamesIn
<1> DEFINE v == ExtractFile(f)
           W == IF f.bytes = 0 \/ ~f.majorOK THEN {} ELSE InFile(f)
<1>6. Yields(v, W) /\ Len(v) <= MaxPayloads
  <2>1. CASE f.bytes = 0 \/ ~f.majorOK
    <3>1. v = <<>> /\ W = {}
      BY <1>1, <2>1 DEF ExtractFile
    <3> QED
      BY <1>2, <1>5, <3>1
  <2>2. CASE f.bytes # 0 /\ f.majorOK
    <3>1. v = Kept(Parts(f), S) /\ W = InFile(f)
      BY <1>1, <2>2 DEF ExtractFile, Pushed
    <3>2. Len(Parts(f)) <= MaxPayloads /\ Len(Parts(f)) \in Nat
      BY <1>3, TableFits
    <3> HIDE DEF S, v, W
    <3>3. Yields(v, PartsOf(f) \cap S) /\ Len(v) <= Len(Parts(f))
      BY <1>3, <3>1, <3>2, KeptYields
    <3>4. Len(v) \in Nat
      BY <3>3 DEF Yields, Once
    <3>5. PartsOf(f) \cap S = W
      BY <1>4, <3>1
    <3> QED
      <4>1. Len(v) <= MaxPayloads
        BY <1>2, <3>2, <3>3, <3>4
      <4> QED
        BY <3>3, <3>5, <4>1
  <2> QED
    BY <2>1, <2>2
<1> HIDE DEF v, W
<1>7. CASE f.bytes = 0
  BY <1>5, <1>7 DEF Extract
<1>8. CASE f.bytes # 0 /\ wanted = "file"
  <2>1. Extract(f, wanted) = v
    BY <1>8 DEF Extract, v
  <2> QED
    BY <1>6, <1>8, <2>1 DEF W
<1>9. CASE f.bytes # 0 /\ wanted # "file"
  <2>1. Extract(f, wanted) = Kept(v, {wanted})
    BY <1>9 DEF Extract, v
  <2>2. Yields(Kept(v, {wanted}), W \cap {wanted})
    BY <1>6, KeptYields
  <2>3. W \cap {wanted} = IF f.bytes = 0 \/ ~f.majorOK THEN {} ELSE InFile(f) \cap {wanted}
    BY DEF W
  <2> QED
    BY <1>9, <2>1, <2>2, <2>3
<1> QED
  BY <1>7, <1>8, <1>9

\* amdgpu_ucode_extract: for every file of every format and every request, whatever the offsets and
\* sizes in its header, the bytes handed to the PSP are bytes of the file, no part that was asked
\* for and lies in the file is lost or repeated, and RLC_G comes last.
THEOREM PayloadsSafe == FirmwareSpec => []PayloadsExact
<1> DEFINE Inv == IsFile(fwFile) /\ (payloads = <<"pending">> \/ payloads = Extract(fwFile, fwRequest))
<1>1. FirmwareInit => Inv
  BY DEF FirmwareInit
<1>2. Inv /\ [FirmwareNext]_firmwareVars => Inv'
  BY DEF FirmwareNext, ExtractPayloads, firmwareVars
<1>3. Inv => PayloadsExact
  <2> SUFFICES ASSUME IsFile(fwFile), payloads = Extract(fwFile, fwRequest) PROVE PayloadsExact
    BY DEF PayloadsExact
  <2>1. Yields(payloads, IF fwFile.bytes = 0 \/ ~fwFile.majorOK THEN {}
                         ELSE IF fwRequest = "file" THEN InFile(fwFile) ELSE InFile(fwFile) \cap {fwRequest})
    BY ExtractYields
  <2>2. Len(payloads) = Cardinality(NamesIn(payloads))
    BY <2>1, OnceCounts DEF Yields
  <2> QED
    BY <2>1, <2>2, Zenon DEF PayloadsExact, Yields, NamesIn, InFile, Span
<1> QED
  BY <1>1, <1>2, <1>3, PTL DEF FirmwareSpec

-----------------------------------------------------------------------------
(* Code objects                                                            *)

\* The constants of the loader.
LEMMA LoaderConstants ==
    /\ MaxDepth \in Nat /\ MaxDepth > 0 /\ MaxNodes \in Nat /\ MaxNodes > 0 /\ Limit \in Nat /\ Limit > 0
    /\ Descriptor \in Nat /\ Descriptor > 0 /\ Instruction \in Nat /\ Instruction > 0 /\ Word \in Nat /\ Word > 0
<1>1. \A x \in {MaxDepth, MaxNodes, Limit, Page, MaxImage, Descriptor, Instruction, Word} : x \in Nat \ {0}
  BY CodeObjectsAssumption
<1> QED
  BY <1>1

\* The states of the loop over a container's elements.
ElementStates(after, m, inner, b, tag, pos, nodes) ==
    after = [e \in 0 .. m |->
               IF e = 0 THEN At(pos, nodes, {}) ELSE ParseElement(inner, b, tag.kind, after[e - 1])]

\* The loop over the elements ends: it has a state after each of them.
LEMMA ElementStatesExist ==
    ASSUME NEW inner, NEW b, NEW tag, NEW pos, NEW nodes, NEW m \in Nat
    PROVE  \E after : ElementStates(after, m, inner, b, tag, pos, nodes)
<1> DEFINE Step(p) == ParseElement(inner, b, tag.kind, p)
           T == {k \in Nat : ~\E f : ElementStates(f, k, inner, b, tag, pos, nodes)}
<1>1. ASSUME T # {} PROVE FALSE
  <2>1. PICK k \in T : \A j \in T : k <= j
    BY <1>1, LeastNumber
  <2>2. CASE k = 0
    <3> DEFINE g == [e \in 0 .. 0 |-> At(pos, nodes, {})]
    <3> HIDE DEF Step
    <3>1. \A e \in 0 .. 0 : e = 0
      OBVIOUS
    <3>2. g = [e \in 0 .. 0 |-> IF e = 0 THEN At(pos, nodes, {}) ELSE Step(g[e - 1])]
      BY <3>1
    <3>3. ElementStates(g, 0, inner, b, tag, pos, nodes)
      BY <3>2 DEF ElementStates, Step
    <3> QED
      BY <2>1, <2>2, <3>3
  <2>3. CASE k # 0
    <3>1. k - 1 \in Nat /\ k - 1 \notin T
      BY <2>1, <2>3
    <3>2. PICK f : ElementStates(f, k - 1, inner, b, tag, pos, nodes)
      BY <3>1
    <3> DEFINE g == [e \in 0 .. k |-> IF e < k THEN f[e] ELSE Step(f[k - 1])]
    <3>3. ASSUME NEW i \in 0 .. k
          PROVE  g[i] = IF i = 0 THEN At(pos, nodes, {}) ELSE Step(g[i - 1])
      <4>1. k \in Nat /\ k > 0
        BY <2>1, <2>3
      <4>2. CASE i = k
        <5> HIDE DEF Step
        <5>1. g[i] = Step(f[k - 1]) /\ g[i - 1] = f[i - 1]
          BY <4>1, <4>2
        <5> QED
          BY <4>1, <4>2, <5>1
      <4>3. CASE i # k
        <5>1. i \in 0 .. k - 1
          BY <4>1, <4>3
        <5>2. f[i] = IF i = 0 THEN At(pos, nodes, {}) ELSE Step(f[i - 1])
          BY <3>2, <5>1 DEF ElementStates
        <5> HIDE DEF Step
        <5>3. g[i] = f[i]
          BY <4>1, <5>1
        <5>4. i # 0 => g[i - 1] = f[i - 1]
          BY <4>1, <5>1
        <5> HIDE DEF g
        <5> QED
          BY <5>2, <5>3, <5>4
      <4> QED
        BY <4>2, <4>3
    <3>4. ElementStates(g, k, inner, b, tag, pos, nodes)
      <4>1. g = [i \in 0 .. k |-> g[i]]
        OBVIOUS
      <4> HIDE DEF g
      <4> QED
        BY <3>3, <4>1, Zenon DEF ElementStates
    <3> QED
      BY <2>1, <3>4
  <2> QED
    BY <2>2, <2>3
<1> QED
  BY <1>1

\* a has the states of the loop over the elements of a container that announces tag.
Loop(a, P, b, tag, pos, nodes) ==
    /\ a[0] = At(pos, nodes, {})
    /\ \A e \in 1 .. tag.count : a[e] = ParseElement(P, b, tag.kind, a[e - 1])

\* What ParseElements returns is the state after the last element.
LEMMA ElementsAreStates ==
    ASSUME NEW P, NEW b, NEW tag, tag.count \in Nat, NEW pos, NEW nodes
    PROVE  \E a : ParseElements(P, b, tag, pos, nodes) = a[tag.count] /\ Loop(a, P, b, tag, pos, nodes)
<1> DEFINE c == CHOOSE after : ElementStates(after, tag.count, P, b, tag, pos, nodes)
           k == tag.count
<1>1. ElementStates(c, tag.count, P, b, tag, pos, nodes)
  BY ElementStatesExist, Zenon
<1>2. ParseElements(P, b, tag, pos, nodes) = c[tag.count]
  BY DEF ParseElements, ElementStates
<1>3. k \in Nat
  OBVIOUS
<1> HIDE DEF c, k
<1>4. ASSUME NEW e \in 0 .. k
      PROVE  c[e] = IF e = 0 THEN At(pos, nodes, {}) ELSE ParseElement(P, b, tag.kind, c[e - 1])
  BY <1>1, Zenon DEF ElementStates, k
<1>5. c[0] = At(pos, nodes, {})
  BY <1>3, <1>4
<1>6. ASSUME NEW e \in 1 .. k PROVE c[e] = ParseElement(P, b, tag.kind, c[e - 1])
  <2>1. e \in 0 .. k /\ e # 0
    BY <1>3
  <2> QED
    BY <1>4, <2>1
<1>7. Loop(c, P, b, tag, pos, nodes)
  BY <1>5, <1>6, Zenon DEF Loop, k
<1> QED
  BY <1>2, <1>7

\* P reads the values of V, and no others, wherever it starts.
Agree(P, V, b) ==
    \A pos \in 0 .. Len(b), nodes \in 0 .. MaxNodes :
        LET r == P[pos][nodes]
        IN  /\ r.ok => /\ r.pos \in pos + 1 .. Len(b) /\ r.nodes \in nodes + 1 .. MaxNodes
                       /\ <<pos, r.pos, r.nodes - nodes>> \in V
                       /\ b[pos + 1].kind = "str" => r.nodes = nodes + 1
            /\ \A j, n : <<pos, j, n>> \in V /\ nodes + n <= MaxNodes =>
                 r.ok /\ r.pos = j /\ r.nodes = nodes + n

\* V is a set of values in b, none of them empty.
Proper(V, b) ==
    \A i, j, n : <<i, j, n>> \in V => i \in 0 .. Len(b) /\ j \in i + 1 .. Len(b) /\ n \in 1 .. MaxNodes

\* A state the decoder stands in, and the one of a refusal.
LEMMA AtFields ==
    /\ \A p, n, k : At(p, n, k).ok /\ At(p, n, k).pos = p /\ At(p, n, k).nodes = n /\ At(p, n, k).keys = k
    /\ ~Refused.ok
BY DEF At, Refused

\* The fields of such a state.
LEMMA AtEqual ==
    ASSUME NEW q, NEW pos, NEW nodes, NEW keys, q = At(pos, nodes, keys)
    PROVE  q.ok /\ q.pos = pos /\ q.nodes = nodes /\ q.keys = keys
BY DEF At

\* One element of a container that was read: what the grammar says of it.
LEMMA ElementSound ==
    ASSUME NEW b, Len(b) \in Nat, NEW P, NEW V, Agree(P, V, b), NEW kind \in {"array", "map"}, NEW p,
           p.pos \in 0 .. Len(b), p.nodes \in 0 .. MaxNodes,
           NEW q, q = ParseElement(P, b, kind, p), q.ok
    PROVE  /\ p.ok /\ q.pos \in p.pos + 1 .. Len(b) /\ q.nodes \in p.nodes + 1 .. MaxNodes
           /\ kind = "array" => <<p.pos, q.pos, q.nodes - p.nodes>> \in V
           /\ kind = "map" => /\ EncodesPair(V, b, p.pos, q.pos, q.nodes - p.nodes)
                       /\ Text(b, p.pos) \notin p.keys /\ q.keys = p.keys \cup {Text(b, p.pos)}
<1> DEFINE k == P[p.pos][p.nodes]
           v == P[k.pos][k.nodes]
<1>1. \/ p.ok /\ k.ok /\ kind = "array" /\ q = At(k.pos, k.nodes, {})
      \/ /\ p.ok /\ k.ok /\ kind = "map" /\ b[p.pos + 1].kind = "str" /\ v.ok /\ Text(b, p.pos) \notin p.keys
         /\ q = At(v.pos, v.nodes, p.keys \cup {Text(b, p.pos)})
  BY AtFields, Zenon DEF ParseElement
<1> HIDE DEF k
<1>2. p.ok /\ k.ok
  BY <1>1
<1>3. /\ k.pos \in p.pos + 1 .. Len(b) /\ k.nodes \in p.nodes + 1 .. MaxNodes
      /\ <<p.pos, k.pos, k.nodes - p.nodes>> \in V
      /\ b[p.pos + 1].kind = "str" => k.nodes = p.nodes + 1
  BY <1>2 DEF Agree, k
<1>4. CASE kind = "array"
  <2>1. q.pos = k.pos /\ q.nodes = k.nodes
    BY <1>1, <1>4, AtFields
  <2> QED
    BY <1>2, <1>3, <1>4, <2>1
<1>5. CASE kind = "map"
  <2> DEFINE x == p.pos
             n == p.nodes
             y == k.pos
             m == k.nodes
  <2>1. v.ok => /\ v.pos \in k.pos + 1 .. Len(b) /\ v.nodes \in k.nodes + 1 .. MaxNodes
                /\ <<k.pos, v.pos, v.nodes - k.nodes>> \in V
    <3>1. k.pos \in 0 .. Len(b) /\ k.nodes \in 0 .. MaxNodes
      BY <1>3, LoaderConstants
    <3> QED
      BY <3>1 DEF Agree
  <2> HIDE DEF v
  <2>2. b[x + 1].kind = "str" /\ v.ok /\ Text(b, x) \notin p.keys
    BY <1>1, <1>5, Zenon
  <2>3. q = At(v.pos, v.nodes, p.keys \cup {Text(b, x)})
    BY <1>1, <1>5, Zenon
  <2>4. q.pos = v.pos /\ q.nodes = v.nodes /\ q.keys = p.keys \cup {Text(b, x)}
    BY <2>3, AtEqual
  <2>5. x \in 0 .. Len(b) /\ n \in 0 .. MaxNodes /\ MaxNodes \in Nat
    BY LoaderConstants
  <2>6. y \in x + 1 .. Len(b) /\ m = n + 1 /\ m \in n + 1 .. MaxNodes /\ <<x, y, m - n>> \in V
    BY <1>3, <2>2
  <2>7. q.pos \in y + 1 .. Len(b) /\ q.nodes \in m + 1 .. MaxNodes /\ <<y, q.pos, q.nodes - m>> \in V
    BY <2>1, <2>2, <2>4
  <2> DEFINE z == q.pos
             w == q.nodes
  <2>8. z \in y + 1 .. Len(b) /\ w \in m + 1 .. MaxNodes
    BY <2>7
  <2> HIDE DEF x, n, y, m, z, w
  <2>9. m - n = 1
    BY <2>5, <2>6
  <2>10. z \in x + 1 .. Len(b) /\ w \in n + 1 .. MaxNodes /\ y \in x .. z /\ w - m = (w - n) - 1
    BY <2>5, <2>6, <2>8
  <2>11. /\ q.pos \in x + 1 .. Len(b) /\ q.nodes \in n + 1 .. MaxNodes /\ y \in x .. q.pos
        /\ q.nodes - m = (q.nodes - n) - 1
    BY <2>10 DEF z, w
  <2>12. <<x, y, 1>> \in V /\ <<y, q.pos, (q.nodes - n) - 1>> \in V
    BY <2>6, <2>7, <2>9, <2>11
  <2>13. EncodesPair(V, b, x, q.pos, q.nodes - n)
    BY <2>2, <2>11, <2>12, Zenon DEF EncodesPair
  <2> QED
    BY <1>2, <1>5, <2>2, <2>4, <2>11, <2>13 DEF x, n
<1> QED
  BY <1>4, <1>5

\* One element of a container that is in the grammar: it is read.
LEMMA ArrayElementComplete ==
    ASSUME NEW b, Len(b) \in Nat, NEW P, NEW V, Agree(P, V, b), Proper(V, b), NEW p, p.ok,
           p.pos \in 0 .. Len(b), p.nodes \in 0 .. MaxNodes,
           NEW j, NEW n \in Nat, NEW kind, kind = "array", p.nodes + n <= MaxNodes,
           <<p.pos, j, n>> \in V
    PROVE  ParseElement(P, b, kind, p) = At(j, p.nodes + n, {})
<1> DEFINE k == P[p.pos][p.nodes]
<1>1. k.ok /\ k.pos = j /\ k.nodes = p.nodes + n
  BY DEF Agree
<1> HIDE DEF k
<1> QED
  BY <1>1, Zenon DEF ParseElement, k

\* The keys of a map with the one read at p.
WithKey(b, p) == p.keys \cup {Text(b, p.pos)}

\* A pair of a map that is in the grammar, with a key that is new: it is read.
PairReady(V, b, p, j, n) ==
    /\ p.ok /\ p.pos \in 0 .. Len(b) /\ p.nodes \in 0 .. MaxNodes
    /\ n \in Nat /\ p.nodes + n <= MaxNodes
    /\ EncodesPair(V, b, p.pos, j, n) /\ Text(b, p.pos) \notin p.keys

\* Such a pair is read.
LEMMA PairComplete ==
    ASSUME NEW b, Len(b) \in Nat, NEW P, NEW V, Agree(P, V, b), Proper(V, b), NEW p, NEW j, NEW n,
           PairReady(V, b, p, j, n), NEW kind, kind = "map"
    PROVE  ParseElement(P, b, kind, p) = At(j, p.nodes + n, WithKey(b, p))
<1>1. /\ p.ok /\ p.pos \in 0 .. Len(b) /\ p.nodes \in 0 .. MaxNodes
      /\ n \in Nat /\ p.nodes + n <= MaxNodes
      /\ EncodesPair(V, b, p.pos, j, n) /\ Text(b, p.pos) \notin p.keys
  BY DEF PairReady
<1> DEFINE k == P[p.pos][p.nodes]
           v == P[k.pos][k.nodes]
<1> DEFINE x == p.pos
           m == p.nodes
<1>2. PICK y \in x .. j : <<x, y, 1>> \in V /\ b[x + 1].kind = "str" /\ <<y, j, n - 1>> \in V
  BY <1>1 DEF EncodesPair
<1>3. /\ y \in x + 1 .. Len(b) /\ n - 1 \in 1 .. MaxNodes
      /\ x \in 0 .. Len(b) /\ m \in 0 .. MaxNodes /\ MaxNodes \in Nat
  BY <1>1, <1>2, LoaderConstants DEF Proper
<1> HIDE DEF x, m
<1>4. m + 1 <= MaxNodes /\ y \in 0 .. Len(b) /\ m + 1 \in 0 .. MaxNodes /\ (m + 1) + (n - 1) = m + n
  BY <1>1, <1>3 DEF m
<1>5. k.ok /\ k.pos = y /\ k.nodes = m + 1
  <2>1. \A j1, n1 : <<x, j1, n1>> \in V /\ m + n1 <= MaxNodes => k.ok /\ k.pos = j1 /\ k.nodes = m + n1
    BY <1>1 DEF Agree, x, m
  <2> QED
    BY <1>1, <1>2, <1>4, <2>1
<1> HIDE DEF k
<1>6. v = P[y][m + 1]
  BY <1>1, <1>5
<1>7. v.ok /\ v.pos = j /\ v.nodes = (m + 1) + (n - 1)
  <2>1. (m + 1) + (n - 1) <= MaxNodes
    BY <1>1, <1>4 DEF m
  <2> QED
    <3>1. \A j1, n1 : <<y, j1, n1>> \in V /\ (m + 1) + n1 <= MaxNodes =>
                          P[y][m + 1].ok /\ P[y][m + 1].pos = j1 /\ P[y][m + 1].nodes = (m + 1) + n1
      BY <1>1, <1>4 DEF Agree
    <3>2. P[y][m + 1].ok /\ P[y][m + 1].pos = j /\ P[y][m + 1].nodes = (m + 1) + (n - 1)
      BY <1>1, <1>2, <2>1, <3>1, Zenon
    <3> QED
      BY <1>1, <1>6, <3>2, Zenon
<1> QED
  BY <1>1, <1>2, <1>4, <1>5, <1>7, Zenon DEF ParseElement, WithKey, k, v, x, m

\* Numbers that increase from one to the next.
LEMMA Increasing ==
    ASSUME NEW k \in Nat, NEW c, \A e \in 0 .. k : c[e] \in Nat, \A e \in 1 .. k : c[e - 1] < c[e]
    PROVE  c[0] + k <= c[k] /\ \A e \in 0 .. k : c[0] <= c[e] /\ c[e] <= c[k]
<1> DEFINE T == {e \in 0 .. k : ~(c[0] + e <= c[e])}
           U == {d \in 0 .. k : ~(c[k - d] <= c[k])}
<1>1. ASSUME T # {} PROVE FALSE
  <2>1. PICK e \in T : \A f \in T : e <= f
    <3>1. T \subseteq Nat
      OBVIOUS
    <3> QED
      BY <1>1, <3>1, LeastNumber
  <2>2. e # 0
    BY <2>1
  <2>3. e \in 1 .. k /\ e - 1 \in 0 .. k /\ e - 1 \notin T
    BY <2>1, <2>2
  <2>4. c[0] + (e - 1) <= c[e - 1] /\ c[e - 1] < c[e] /\ c[0] \in Nat /\ c[e] \in Nat /\ c[e - 1] \in Nat
    BY <2>3
  <2> QED
    BY <2>1, <2>4
<1>2. ASSUME U # {} PROVE FALSE
  <2>1. PICK d \in U : \A f \in U : d <= f
    <3>1. U \subseteq Nat
      OBVIOUS
    <3> QED
      BY <1>2, <3>1, LeastNumber
  <2>2. d # 0
    BY <2>1
  <2>3. /\ d - 1 \in 0 .. k /\ d - 1 \notin U
        /\ k - (d - 1) \in 1 .. k /\ (k - (d - 1)) - 1 = k - d /\ k - d \in 0 .. k
    <3>1. d \in 0 .. k
      BY <2>1
    <3>2. d - 1 \in 0 .. k /\ d - 1 < d
      BY <2>2, <3>1
    <3>3. d - 1 \notin U
      BY <2>1, <3>1, <3>2
    <3>4. k - (d - 1) \in 1 .. k /\ (k - (d - 1)) - 1 = k - d /\ k - d \in 0 .. k
      BY <2>2, <3>1
    <3> QED
      BY <3>2, <3>3, <3>4
  <2>4. c[k - (d - 1)] <= c[k] /\ c[k - d] < c[k - (d - 1)]
    BY <2>3
  <2>5. c[k] \in Nat /\ c[k - d] \in Nat /\ c[k - (d - 1)] \in Nat
    BY <2>3
  <2> QED
    BY <2>1, <2>4, <2>5
<1>3. \A e \in 0 .. k : c[0] + e <= c[e]
  BY <1>1
<1>4. \A e \in 0 .. k : c[e] <= c[k]
  <2> TAKE e \in 0 .. k
  <2>1. k - e \in 0 .. k /\ k - (k - e) = e
    OBVIOUS
  <2> QED
    BY <1>2, <2>1
<1>5. \A e \in 0 .. k : c[0] <= c[e]
  <2> TAKE e \in 0 .. k
  <2>1. c[0] \in Nat /\ c[e] \in Nat /\ c[0] + e <= c[e]
    BY <1>3
  <2> QED
    BY <2>1
<1> QED
  BY <1>3, <1>4, <1>5

\* The elements of a container that was read: what the grammar says of them.
LEMMA ElementsSound ==
    ASSUME NEW b, Len(b) \in Nat, NEW P, NEW V, Agree(P, V, b), NEW tag, tag.count \in Nat,
           tag.kind \in {"array", "map"}, NEW pos \in 0 .. Len(b), NEW nodes \in 1 .. MaxNodes,
           NEW r, r = ParseElements(P, b, tag, pos, nodes), r.ok
    PROVE  /\ r.pos \in pos .. Len(b) /\ r.nodes \in nodes .. MaxNodes
           /\ \E cut \in Chains(tag.count, pos, r.pos), sum \in Chains(tag.count, 1, r.nodes - nodes + 1) :
                 EncodesElements(V, b, tag, cut, sum)
<1> DEFINE k == tag.count
           kind == tag.kind
<1>1. k \in Nat /\ MaxNodes \in Nat
  BY LoaderConstants
<1>2. kind \in {"array", "map"}
  OBVIOUS
<1> HIDE DEF k, kind
<1>3. PICK a : /\ r = a[k] /\ a[0] = At(pos, nodes, {})
               /\ \A e \in 1 .. k : a[e] = ParseElement(P, b, kind, a[e - 1])
  <2>1. PICK a : r = a[tag.count] /\ Loop(a, P, b, tag, pos, nodes)
    BY ElementsAreStates
  <2>2. /\ r = a[k] /\ a[0] = At(pos, nodes, {})
        /\ \A e \in 1 .. k : a[e] = ParseElement(P, b, kind, a[e - 1])
    BY <2>1, Zenon DEF Loop, k, kind
  <2> QED
    BY <2>2, Zenon
<1>4. kind = tag.kind
  BY DEF kind
<1>5. \A e \in 0 .. k : a[e].ok
  <2> DEFINE U == {d \in 0 .. k : ~a[k - d].ok}
  <2>1. ASSUME U # {} PROVE FALSE
    <3>1. U \subseteq Nat
      BY <1>1
    <3>2. PICK d \in U : \A f \in U : d <= f
      BY <2>1, <3>1, LeastNumber
    <3>3. d # 0
      BY <1>1, <1>3, <3>2
    <3>4. d - 1 \in 0 .. k /\ d - 1 \notin U /\ k - (d - 1) \in 1 .. k /\ (k - (d - 1)) - 1 = k - d
      <4>1. d \in 0 .. k
        BY <3>2
      <4> HIDE DEF U
      <4>2. d - 1 \in 0 .. k /\ d - 1 < d /\ d \in Nat /\ d - 1 \in Nat
        BY <1>1, <3>3, <4>1
      <4>3. d - 1 \notin U
        BY <3>2, <4>2
      <4>4. k - (d - 1) \in 1 .. k /\ (k - (d - 1)) - 1 = k - d
        BY <1>1, <3>3, <4>1
      <4> QED
        BY <4>2, <4>3, <4>4
    <3>5. a[k - (d - 1)].ok /\ a[k - (d - 1)] = ParseElement(P, b, kind, a[k - d])
      BY <1>3, <3>4
    <3>6. a[k - d].ok
      BY <3>5, AtFields, Zenon DEF ParseElement
    <3> QED
      BY <3>2, <3>6
  <2>2. \A e \in 0 .. k : k - e \in 0 .. k /\ k - (k - e) = e
    BY <1>1
  <2> QED
    BY <2>1, <2>2
<1>6. a[0].pos = pos /\ a[0].nodes = nodes /\ a[0].keys = {}
  BY <1>3, AtEqual
<1>7. \A e \in 0 .. k : a[e].pos \in 0 .. Len(b) /\ a[e].nodes \in 0 .. MaxNodes
  <2> DEFINE T == {e \in 0 .. k : ~(a[e].pos \in 0 .. Len(b) /\ a[e].nodes \in 0 .. MaxNodes)}
  <2>1. ASSUME T # {} PROVE FALSE
    <3>1. T \subseteq Nat
      BY <1>1
    <3>2. PICK e \in T : \A f \in T : e <= f
      BY <2>1, <3>1, LeastNumber
    <3>3. e # 0
      BY <1>1, <1>6, <3>2
    <3>4. e \in 1 .. k /\ e - 1 \in 0 .. k /\ e - 1 \notin T
      BY <1>1, <3>2, <3>3
    <3>5. a[e - 1].pos \in 0 .. Len(b) /\ a[e - 1].nodes \in 0 .. MaxNodes
      BY <3>4
    <3>6. a[e].ok /\ a[e] = ParseElement(P, b, kind, a[e - 1])
      BY <1>1, <1>3, <1>5, <3>4
    <3> DEFINE p == a[e - 1]
               q == a[e]
    <3> HIDE DEF p, q
    <3>7. /\ p.pos \in 0 .. Len(b) /\ p.nodes \in 0 .. MaxNodes /\ kind \in {"array", "map"}
          /\ q = ParseElement(P, b, kind, p) /\ q.ok
      BY <1>2, <3>5, <3>6 DEF p, q
    <3>8. q.pos \in p.pos + 1 .. Len(b) /\ q.nodes \in p.nodes + 1 .. MaxNodes
      BY <3>7, ElementSound
    <3>9. a[e].pos \in a[e - 1].pos + 1 .. Len(b) /\ a[e].nodes \in a[e - 1].nodes + 1 .. MaxNodes
      BY <3>8 DEF p, q
    <3>10. a[e].pos \in 0 .. Len(b) /\ a[e].nodes \in 0 .. MaxNodes
      <4> DEFINE x == p.pos
                 y == q.pos
                 u == p.nodes
                 v == q.nodes
      <4>1. x \in 0 .. Len(b) /\ u \in 0 .. MaxNodes /\ y \in x + 1 .. Len(b) /\ v \in u + 1 .. MaxNodes
        BY <3>7, <3>8
      <4> HIDE DEF x, y, u, v
      <4>2. y \in 0 .. Len(b) /\ v \in 0 .. MaxNodes
        BY <1>1, <4>1
      <4> QED
        BY <4>2 DEF y, v, q
    <3> QED
      BY <3>2, <3>10
  <2> QED
    BY <2>1
<1>8. ASSUME NEW e \in 1 .. k
      PROVE  /\ a[e].pos \in a[e - 1].pos + 1 .. Len(b) /\ a[e].nodes \in a[e - 1].nodes + 1 .. MaxNodes
             /\ kind = "array" => <<a[e - 1].pos, a[e].pos, a[e].nodes - a[e - 1].nodes>> \in V
             /\ kind = "map" => /\ EncodesPair(V, b, a[e - 1].pos, a[e].pos, a[e].nodes - a[e - 1].nodes)
                         /\ Text(b, a[e - 1].pos) \notin a[e - 1].keys
                         /\ a[e].keys = a[e - 1].keys \cup {Text(b, a[e - 1].pos)}
  <2>1. e \in 0 .. k /\ e - 1 \in 0 .. k
    BY <1>1
  <2>2. a[e].ok /\ a[e - 1].pos \in 0 .. Len(b) /\ a[e - 1].nodes \in 0 .. MaxNodes
    BY <1>5, <1>7, <2>1
  <2>3. a[e] = ParseElement(P, b, kind, a[e - 1])
    BY <1>3
  <2> DEFINE p == a[e - 1]
             q == a[e]
  <2> HIDE DEF p, q
  <2>4. /\ p.pos \in 0 .. Len(b) /\ p.nodes \in 0 .. MaxNodes /\ kind \in {"array", "map"}
        /\ q = ParseElement(P, b, kind, p) /\ q.ok
    BY <1>2, <2>2, <2>3 DEF p, q
  <2>5. /\ q.pos \in p.pos + 1 .. Len(b) /\ q.nodes \in p.nodes + 1 .. MaxNodes
        /\ kind = "array" => <<p.pos, q.pos, q.nodes - p.nodes>> \in V
        /\ kind = "map" => /\ EncodesPair(V, b, p.pos, q.pos, q.nodes - p.nodes)
                    /\ Text(b, p.pos) \notin p.keys /\ q.keys = p.keys \cup {Text(b, p.pos)}
    BY <2>4, ElementSound
  <2> QED
    BY <2>5 DEF p, q
<1>9. ASSUME kind = "map" PROVE \A e \in 0 .. k : \A f \in 1 .. e : Text(b, a[f - 1].pos) \in a[e].keys
  <2> DEFINE T == {e \in 0 .. k : ~(\A f \in 1 .. e : Text(b, a[f - 1].pos) \in a[e].keys)}
  <2>1. ASSUME T # {} PROVE FALSE
    <3>1. T \subseteq Nat
      BY <1>1
    <3>2. PICK e \in T : \A f \in T : e <= f
      BY <2>1, <3>1, LeastNumber
    <3>3. e # 0
      BY <3>2
    <3>4. e \in 1 .. k /\ e - 1 \in 0 .. k /\ e - 1 \notin T
      BY <1>1, <3>2, <3>3
    <3>5. \A f \in 1 .. e - 1 : Text(b, a[f - 1].pos) \in a[e - 1].keys
      BY <3>4
    <3>6. a[e].keys = a[e - 1].keys \cup {Text(b, a[e - 1].pos)}
      BY <1>8, <1>9, <3>4
    <3>7. ASSUME NEW f \in 1 .. e PROVE Text(b, a[f - 1].pos) \in a[e].keys
      <4>1. f = e \/ f \in 1 .. e - 1
        BY <1>1, <3>4
      <4> QED
        BY <3>5, <3>6, <4>1
    <3> QED
      BY <3>2, <3>7
  <2> QED
    BY <2>1
<1> DEFINE cut == [e \in 0 .. k |-> a[e].pos]
           cnt == [e \in 0 .. k |-> a[e].nodes]
           sum == [e \in 0 .. k |-> a[e].nodes - nodes + 1]
<1>10. /\ \A e \in 0 .. k : cut[e] \in Nat /\ cnt[e] \in Nat
      /\ \A e \in 1 .. k : cut[e - 1] < cut[e] /\ cnt[e - 1] < cnt[e]
  <2>1. \A e \in 0 .. k : cut[e] \in Nat /\ cnt[e] \in Nat
    BY <1>1, <1>7
  <2>2. ASSUME NEW e \in 1 .. k PROVE cut[e - 1] < cut[e] /\ cnt[e - 1] < cnt[e]
    <3>1. e \in 0 .. k /\ e - 1 \in 0 .. k
      BY <1>1
    <3>2. /\ cut[e - 1] = a[e - 1].pos /\ cut[e] = a[e].pos
          /\ cnt[e - 1] = a[e - 1].nodes /\ cnt[e] = a[e].nodes
      BY <3>1
    <3>3. cut[e - 1] \in Nat /\ cnt[e - 1] \in Nat
      BY <2>1, <3>1
    <3>4. a[e].pos \in a[e - 1].pos + 1 .. Len(b) /\ a[e].nodes \in a[e - 1].nodes + 1 .. MaxNodes
      BY <1>8
    <3>5. cut[e] \in cut[e - 1] + 1 .. Len(b) /\ cnt[e] \in cnt[e - 1] + 1 .. MaxNodes
      BY <3>2, <3>4
    <3> DEFINE x == cut[e - 1]
               y == cut[e]
               u == cnt[e - 1]
               v == cnt[e]
    <3> HIDE DEF x, y, u, v
    <3>6. x \in Nat /\ u \in Nat /\ y \in x + 1 .. Len(b) /\ v \in u + 1 .. MaxNodes
      BY <3>3, <3>5 DEF x, y, u, v
    <3>7. x < y /\ u < v
      BY <1>1, <3>6
    <3> QED
      BY <3>7 DEF x, y, u, v
  <2> QED
    BY <2>1, <2>2
<1>11. /\ \A e \in 0 .. k : cut[0] <= cut[e] /\ cut[e] <= cut[k]
       /\ \A e \in 0 .. k : cnt[0] <= cnt[e] /\ cnt[e] <= cnt[k]
  <2> HIDE DEF cut, cnt
  <2> QED
    BY <1>1, <1>10, Increasing
<1>12. /\ cut[0] = pos /\ cut[k] = r.pos /\ cnt[0] = nodes /\ cnt[k] = r.nodes
       /\ r.pos \in 0 .. Len(b) /\ r.nodes \in 0 .. MaxNodes
  <2>1. 0 \in 0 .. k /\ k \in 0 .. k
    BY <1>1
  <2> QED
    BY <1>3, <1>6, <1>7, <2>1
<1>13. cut \in Chains(k, pos, r.pos)
  <2>1. ASSUME NEW e \in 0 .. k PROVE cut[e] \in pos .. r.pos
    <3> DEFINE z == cut[e]
               w == r.pos
    <3>1. z \in Nat /\ pos <= z /\ z <= w /\ w \in 0 .. Len(b)
      BY <1>10, <1>11, <1>12
    <3> HIDE DEF z, w
    <3>2. z \in pos .. w
      BY <3>1
    <3> QED
      BY <3>2 DEF z, w
  <2>2. cut \in [0 .. k -> pos .. r.pos]
    BY <2>1
  <2> QED
    BY <1>12, <2>2 DEF Chains
<1>14. sum \in Chains(k, 1, r.nodes - nodes + 1)
  <2>1. \A e \in 0 .. k : sum[e] = cnt[e] - nodes + 1
    OBVIOUS
  <2>2. ASSUME NEW e \in 0 .. k PROVE cnt[e] - nodes + 1 \in 1 .. r.nodes - nodes + 1
    <3> DEFINE z == cnt[e]
               w == r.nodes
    <3>1. z \in Nat /\ nodes <= z /\ z <= w /\ w \in 0 .. MaxNodes
      BY <1>10, <1>11, <1>12
    <3> HIDE DEF z, w
    <3>2. z - nodes + 1 \in 1 .. w - nodes + 1
      BY <1>1, <3>1
    <3> QED
      BY <3>2 DEF z, w
  <2>3. sum \in [0 .. k -> 1 .. r.nodes - nodes + 1]
    <3>1. \A e \in 0 .. k : sum[e] \in 1 .. r.nodes - nodes + 1
      BY <2>1, <2>2
    <3>2. sum = [e \in 0 .. k |-> sum[e]]
      OBVIOUS
    <3> HIDE DEF sum, cnt
    <3> QED
      BY <3>1, <3>2, Zenon
  <2>4. sum[0] = 1 /\ sum[k] = r.nodes - nodes + 1
    <3>1. 0 \in 0 .. k /\ k \in 0 .. k
      BY <1>1
    <3> HIDE DEF sum, cnt
    <3> QED
      BY <1>1, <1>12, <2>1, <3>1
  <2> QED
    BY <2>3, <2>4 DEF Chains
<1>15. EncodesElements(V, b, tag, cut, sum)
  <2>1. ASSUME NEW e \in 1 .. k
        PROVE  /\ cut[e - 1] = a[e - 1].pos /\ cut[e] = a[e].pos
               /\ sum[e] - sum[e - 1] = a[e].nodes - a[e - 1].nodes
    <3>1. e \in 0 .. k /\ e - 1 \in 0 .. k
      BY <1>1
    <3>2. /\ cut[e - 1] = a[e - 1].pos /\ cut[e] = a[e].pos
          /\ sum[e] = a[e].nodes - nodes + 1 /\ sum[e - 1] = a[e - 1].nodes - nodes + 1
      BY <3>1
    <3>3. a[e].nodes \in Int /\ a[e - 1].nodes \in Int /\ nodes \in Int
      BY <1>1, <1>7, <3>1
    <3> HIDE DEF sum, cut
    <3> QED
      BY <3>2, <3>3
  <2> HIDE DEF cut, sum
  <2>2. ASSUME NEW e \in 1 .. k, kind = "array" PROVE <<cut[e - 1], cut[e], sum[e] - sum[e - 1]>> \in V
    BY <1>8, <2>1, <2>2
  <2>3. ASSUME NEW e \in 1 .. k, kind = "map" PROVE EncodesPair(V, b, cut[e - 1], cut[e], sum[e] - sum[e - 1])
    BY <1>8, <2>1, <2>3
  <2>4. ASSUME NEW e \in 1 .. k, kind = "map", NEW f \in 1 .. e - 1 PROVE Text(b, cut[f - 1]) # Text(b, cut[e - 1])
    <3>1. f \in 1 .. k /\ e - 1 \in 0 .. k
      BY <1>1
    <3>2. Text(b, a[f - 1].pos) \in a[e - 1].keys
      BY <1>9, <2>4, <3>1
    <3>3. Text(b, a[e - 1].pos) \notin a[e - 1].keys
      BY <1>8, <2>4
    <3>4. cut[f - 1] = a[f - 1].pos /\ cut[e - 1] = a[e - 1].pos
      BY <2>1, <3>1
    <3> QED
      BY <3>2, <3>3, <3>4
  <2> QED
    BY <1>4, <2>2, <2>3, <2>4, Zenon DEF EncodesElements, k, kind
<1>16. r.pos \in pos .. Len(b) /\ r.nodes \in nodes .. MaxNodes
  <2>1. 0 \in 0 .. k
    BY <1>1
  <2>2. cut[0] <= cut[k] /\ cnt[0] <= cnt[k]
    BY <1>11, <2>1
  <2> HIDE DEF cut, cnt
  <2> QED
    BY <1>1, <1>12, <2>2
<1> HIDE DEF cut, sum
<1> QED
  BY <1>13, <1>14, <1>15, <1>16 DEF k

\* A pair of a map takes bytes and values.
LEMMA PairProper ==
    ASSUME NEW b, Len(b) \in Nat, NEW V, Proper(V, b), NEW i \in Int, NEW j \in Int, NEW n \in Int,
           EncodesPair(V, b, i, j, n)
    PROVE  i < j /\ n > 0
<1>1. PICK q \in i .. j : <<i, q, 1>> \in V /\ <<q, j, n - 1>> \in V
  BY DEF EncodesPair
<1>2. q \in i + 1 .. Len(b) /\ j \in q + 1 .. Len(b) /\ n - 1 \in 1 .. MaxNodes
  BY <1>1 DEF Proper
<1> QED
  BY <1>2, LoaderConstants

\* The elements of a container that is in the grammar: they are read, and their number is less than
\* the bytes and values they take.
LEMMA ElementsComplete ==
    ASSUME NEW b, Len(b) \in Nat, NEW P, NEW V, Agree(P, V, b), Proper(V, b), NEW tag, tag.count \in Nat,
           tag.kind \in {"array", "map"}, NEW pos \in 0 .. Len(b), NEW nodes \in 1 .. MaxNodes,
           NEW j \in 0 .. Len(b), NEW n \in Nat, nodes - 1 + n <= MaxNodes,
           NEW cut \in Chains(tag.count, pos, j), NEW sum \in Chains(tag.count, 1, n),
           EncodesElements(V, b, tag, cut, sum)
    PROVE  /\ tag.count <= j - pos /\ tag.count <= n - 1
           /\ LET r == ParseElements(P, b, tag, pos, nodes) IN r.ok /\ r.pos = j /\ r.nodes = nodes - 1 + n
<1> DEFINE k == tag.count
           kind == tag.kind
<1>1. k \in Nat /\ MaxNodes \in Nat
  BY LoaderConstants
<1>2. kind \in {"array", "map"}
  OBVIOUS
<1>3. /\ cut \in [0 .. k -> pos .. j] /\ cut[0] = pos /\ cut[k] = j
      /\ sum \in [0 .. k -> 1 .. n] /\ sum[0] = 1 /\ sum[k] = n
  BY DEF Chains
<1>4. \A e \in 1 .. k :
        /\ kind = "array" => <<cut[e - 1], cut[e], sum[e] - sum[e - 1]>> \in V
        /\ kind = "map" => EncodesPair(V, b, cut[e - 1], cut[e], sum[e] - sum[e - 1])
        /\ kind = "map" => \A f \in 1 .. e - 1 : Text(b, cut[f - 1]) # Text(b, cut[e - 1])
  BY Zenon DEF EncodesElements
<1>5. PICK a : /\ ParseElements(P, b, tag, pos, nodes) = a[k] /\ a[0] = At(pos, nodes, {})
               /\ \A e \in 1 .. k : a[e] = ParseElement(P, b, kind, a[e - 1])
  <2>1. PICK a : ParseElements(P, b, tag, pos, nodes) = a[tag.count] /\ Loop(a, P, b, tag, pos, nodes)
    BY ElementsAreStates
  <2>2. /\ ParseElements(P, b, tag, pos, nodes) = a[k] /\ a[0] = At(pos, nodes, {})
        /\ \A e \in 1 .. k : a[e] = ParseElement(P, b, kind, a[e - 1])
    BY <2>1, Zenon DEF Loop, k, kind
  <2> QED
    BY <2>2, Zenon
<1> HIDE DEF k, kind
<1>6. \A e \in 0 .. k : /\ cut[e] \in Nat /\ cut[e] <= j /\ pos <= cut[e]
                        /\ sum[e] \in Nat /\ sum[e] >= 1 /\ sum[e] <= n
  <2> TAKE e \in 0 .. k
  <2>1. cut[e] \in pos .. j /\ sum[e] \in 1 .. n
    BY <1>3
  <2> QED
    BY <1>1, <2>1
<1>7. \A e \in 1 .. k : cut[e - 1] < cut[e] /\ sum[e - 1] < sum[e]
  <2> TAKE e \in 1 .. k
  <2> DEFINE x == cut[e - 1]
             y == cut[e]
             u == sum[e - 1]
             v == sum[e]
  <2>1. e \in 0 .. k /\ e - 1 \in 0 .. k
    BY <1>1
  <2>2. x \in Nat /\ y \in Nat /\ u \in Nat /\ v \in Nat
    BY <1>6, <2>1
  <2>3. (kind = "array" => <<x, y, v - u>> \in V) /\ (kind = "map" => EncodesPair(V, b, x, y, v - u))
    BY <1>4
  <2> HIDE DEF x, y, u, v
  <2>4. x < y /\ v - u > 0
    <3>1. CASE kind = "map"
      BY <2>2, <2>3, <3>1, PairProper
    <3>2. CASE kind = "array"
      <4>1. y \in x + 1 .. Len(b) /\ v - u \in 1 .. MaxNodes
        BY <2>3, <3>2 DEF Proper
      <4> QED
        BY <1>1, <2>2, <4>1
    <3> QED
      BY <1>2, <3>1, <3>2
  <2>5. x < y /\ u < v
    BY <2>2, <2>4
  <2> QED
    BY <2>5 DEF x, y, u, v
<1>8. k <= j - pos /\ k <= n - 1
  <2>1. cut[0] + k <= cut[k] /\ sum[0] + k <= sum[k]
    BY <1>1, <1>6, <1>7, Increasing
  <2> QED
    BY <1>1, <1>3, <2>1
\* The state after e elements.
<1> DEFINE Read(e) == /\ a[e].ok /\ a[e].pos = cut[e] /\ a[e].nodes = nodes - 1 + sum[e]
                      /\ kind = "map" => \A t \in a[e].keys : \E f \in 1 .. e : t = Text(b, cut[f - 1])
           T == {e \in 0 .. k : ~Read(e)}
<1>9. ASSUME T # {} PROVE FALSE
  <2>1. T \subseteq Nat
    BY <1>1
  <2>2. PICK e \in T : \A f \in T : e <= f
    BY <1>9, <2>1, LeastNumber
  <2>3. e # 0
    <3>1. a[0].ok /\ a[0].pos = pos /\ a[0].nodes = nodes /\ a[0].keys = {}
      BY <1>5, AtEqual
    <3>2. nodes - 1 + sum[0] = nodes
      BY <1>1, <1>3
    <3>3. Read(0)
      BY <1>3, <3>1, <3>2
    <3> HIDE DEF Read
    <3> QED
      BY <2>2, <3>3
  <2>4. e \in 1 .. k /\ e \in 0 .. k /\ e - 1 \in 0 .. k /\ e - 1 \notin T
    <3> HIDE DEF Read
    <3> QED
      BY <1>1, <2>2, <2>3
  <2>5. Read(e - 1)
    <3> HIDE DEF Read
    <3> QED
      BY <2>4
  <2> DEFINE p == a[e - 1]
             x == cut[e - 1]
             y == cut[e]
             m == sum[e] - sum[e - 1]
  <2>6. p.ok /\ p.pos = x /\ p.nodes = nodes - 1 + sum[e - 1]
    BY <2>5
  <2>7. /\ x \in Nat /\ x <= j /\ sum[e] \in Nat /\ sum[e - 1] \in Nat /\ sum[e - 1] >= 1 /\ sum[e] <= n
        /\ sum[e - 1] < sum[e]
    BY <1>6, <1>7, <2>4
  <2>8. /\ p.pos \in 0 .. Len(b) /\ p.nodes \in 0 .. MaxNodes /\ m \in Nat
        /\ p.nodes + m = nodes - 1 + sum[e] /\ p.nodes + m <= MaxNodes
    <3> DEFINE u == sum[e - 1]
               v == sum[e]
    <3>1. /\ x \in Nat /\ x <= j /\ v \in Nat /\ u \in Nat /\ u >= 1 /\ v <= n /\ u < v
          /\ p.pos = x /\ p.nodes = nodes - 1 + u /\ m = v - u
      BY <2>6, <2>7
    <3> DEFINE s == p.pos
               w == p.nodes
    <3>2. s = x /\ w = nodes - 1 + u
      BY <3>1
    <3> HIDE DEF u, v, x, p, m, s, w
    <3>3. s \in 0 .. Len(b)
      BY <3>1, <3>2
    <3>4. w \in Int /\ w \in 0 .. MaxNodes /\ m \in Nat
      BY <1>1, <3>1, <3>2
    <3>5. w + m = nodes - 1 + v
      BY <1>1, <3>1, <3>2
    <3>6. w + m <= MaxNodes
      BY <1>1, <3>1, <3>5
    <3> QED
      BY <3>3, <3>4, <3>5, <3>6 DEF v, s, w
  <2>9. kind = "array" => <<p.pos, y, m>> \in V
    BY <1>4, <2>4, <2>6
  <2>10. kind = "map" => EncodesPair(V, b, p.pos, y, m)
    BY <1>4, <2>4, <2>6
  <2>11. kind = "map" => Text(b, p.pos) \notin p.keys
    <3> SUFFICES ASSUME kind = "map", Text(b, x) \in p.keys PROVE FALSE
      BY <2>6
    <3>1. PICK f \in 1 .. e - 1 : Text(b, x) = Text(b, cut[f - 1])
      BY <2>5
    <3> QED
      BY <1>4, <2>4, <3>1
  <2>12. a[e] = ParseElement(P, b, kind, p)
    BY <1>5, <2>4
  <2>13. \A f \in 1 .. e - 1 : f \in 1 .. e
    BY <1>1, <2>4
  <2>14. kind = "map" => \A t \in p.keys : \E f \in 1 .. e : t = Text(b, cut[f - 1])
    BY <2>5, <2>13, Zenon
  <2> HIDE DEF p, y, m
  <2>15. /\ a[e].ok /\ a[e].pos = y /\ a[e].nodes = p.nodes + m
         /\ kind = "map" => a[e].keys = p.keys \cup {Text(b, p.pos)}
    <3>1. CASE kind = "array"
      <4>1. p.ok /\ <<p.pos, y, m>> \in V
        BY <2>6, <2>9, <3>1
      <4>2. a[e] = At(y, p.nodes + m, {})
        BY <2>8, <2>12, <3>1, <4>1, ArrayElementComplete
      <4> QED
        BY <3>1, <4>2, AtEqual
    <3>2. CASE kind = "map"
      <4>1. p.ok /\ EncodesPair(V, b, p.pos, y, m) /\ Text(b, p.pos) \notin p.keys
        BY <2>6, <2>10, <2>11, <3>2
      <4>2. a[e] = At(y, p.nodes + m, WithKey(b, p))
        <5> HIDE DEF Read, T, x
        <5>1. kind = "map"
          BY <3>2
        <5>2. ParseElement(P, b, kind, p) = At(y, p.nodes + m, WithKey(b, p))
          <6>1. PairReady(V, b, p, y, m)
            BY <2>8, <4>1, Zenon DEF PairReady
          <6> QED
            BY <5>1, <6>1, PairComplete
        <5> QED
          BY <2>12, <5>2
      <4> QED
        BY <4>2, AtEqual DEF WithKey
    <3> QED
      BY <1>2, <3>1, <3>2
  <2>16. kind = "map" => \A t \in a[e].keys : \E f \in 1 .. e : t = Text(b, cut[f - 1])
    <3>1. e \in 1 .. e
      BY <1>1, <2>4
    <3> QED
      BY <2>6, <2>14, <2>15, <3>1
  <2>17. Read(e)
    BY <2>8, <2>15, <2>16 DEF y
  <2> HIDE DEF Read
  <2> QED
    BY <2>2, <2>17
<1>10. Read(k)
  <2>1. k \in 0 .. k
    BY <1>1
  <2> HIDE DEF Read
  <2> QED
    BY <1>9, <2>1
<1>11. LET r == ParseElements(P, b, tag, pos, nodes) IN r.ok /\ r.pos = j /\ r.nodes = nodes - 1 + n
  BY <1>3, <1>5, <1>10
<1> QED
  BY <1>8, <1>11 DEF k

\* A byte of MessagePack is a tag and a length.
LEMMA PackByte ==
    ASSUME NEW b \in Seq(PackBytes), NEW pos \in 0 .. Len(b), pos # Len(b)
    PROVE  /\ b[pos + 1].kind \in {"int", "str", "array", "map", "refused"} /\ b[pos + 1].count \in Nat
           /\ Len(b) \in Nat /\ pos + 1 \in 1 .. Len(b)
<1>1. Len(b) \in Nat /\ pos + 1 \in 1 .. Len(b)
  OBVIOUS
<1>2. b[pos + 1] \in PackBytes
  BY <1>1
<1> QED
  BY <1>1, <1>2 DEF PackBytes

\* A value that MessagePack::parse reads is one of the grammar.
LEMMA ValueSound ==
    ASSUME NEW b \in Seq(PackBytes), NEW P, NEW V, Agree(P, V, b),
           NEW pos \in 0 .. Len(b), NEW nodes \in 0 .. MaxNodes,
           NEW r, r = ParseValue(P, b, pos, nodes), r.ok
    PROVE  /\ r.pos \in pos + 1 .. Len(b) /\ r.nodes \in nodes + 1 .. MaxNodes
           /\ Encodes(V, b, pos, r.pos, r.nodes - nodes)
           /\ b[pos + 1].kind = "str" => r.nodes = nodes + 1
<1> DEFINE tag == b[pos + 1]
           count == tag.count
           kind == tag.kind
<1>1. ~(nodes + 1 > MaxNodes) /\ pos # Len(b)
  BY AtFields, Zenon DEF ParseValue
<1>2. ~(kind = "refused" \/ count > Len(b) - (pos + 1))
  BY <1>1, AtFields, Zenon DEF ParseValue
<1>3. /\ kind \in {"int", "str", "array", "map", "refused"} /\ count \in Nat
      /\ Len(b) \in Nat /\ pos + 1 \in 1 .. Len(b)
  BY <1>1, PackByte
<1>4. MaxNodes \in Nat /\ pos \in Nat /\ pos < Len(b) /\ nodes \in Nat
  BY <1>1, <1>3, LoaderConstants
<1>5. CASE kind \in {"int", "str"}
  <2>1. r = At(pos + 1 + count, nodes + 1, {})
    BY <1>1, <1>2, <1>5, Zenon DEF ParseValue
  <2>2. r.pos = pos + 1 + count /\ r.nodes = nodes + 1
    BY <2>1, AtEqual
  <2> HIDE DEF count
  <2>3. pos + 1 + count \in pos + 1 .. Len(b) /\ nodes + 1 \in nodes + 1 .. MaxNodes /\ (nodes + 1) - nodes = 1
    BY <1>1, <1>2, <1>3, <1>4
  <2>4. r.nodes - nodes = 1
    BY <2>2, <2>3
  <2>5. Encodes(V, b, pos, r.pos, r.nodes - nodes)
    BY <1>4, <1>5, <2>2, <2>4, Zenon DEF Encodes, count
  <2> QED
    BY <2>2, <2>3, <2>5
<1>6. CASE kind \in {"array", "map"}
  <2>1. r = ParseElements(P, b, tag, pos + 1, nodes + 1)
    <3>1. kind \notin {"int", "str"}
      BY <1>6
    <3>2. ~(count > MaxNodes - (nodes + 1))
      BY <1>1, <1>2, <3>1, AtFields, Zenon DEF ParseValue
    <3> QED
      BY <1>1, <1>2, <3>1, <3>2, Zenon DEF ParseValue
  <2>2. pos + 1 \in 0 .. Len(b) /\ nodes + 1 \in 1 .. MaxNodes
    BY <1>1, <1>3, <1>4
  <2>3. tag.kind \in {"array", "map"} /\ tag.count \in Nat
    BY <1>3, <1>6
  <2> HIDE DEF tag
  <2>4. /\ r.pos \in pos + 1 .. Len(b) /\ r.nodes \in nodes + 1 .. MaxNodes
        /\ \E cut \in Chains(tag.count, pos + 1, r.pos), sum \in Chains(tag.count, 1, r.nodes - (nodes + 1) + 1) :
                 EncodesElements(V, b, tag, cut, sum)
    BY <1>3, <2>1, <2>2, <2>3, ElementsSound
  <2>5. r.nodes - (nodes + 1) + 1 = r.nodes - nodes
    <3> DEFINE w == r.nodes
    <3>1. w \in nodes + 1 .. MaxNodes
      BY <2>4
    <3> HIDE DEF w
    <3>2. w - (nodes + 1) + 1 = w - nodes
      BY <1>4, <3>1
    <3> QED
      BY <3>2 DEF w
  <2>6. Encodes(V, b, pos, r.pos, r.nodes - nodes)
    <3>1. \E cut \in Chains(tag.count, pos + 1, r.pos), sum \in Chains(tag.count, 1, r.nodes - nodes) :
                 EncodesElements(V, b, tag, cut, sum)
      BY <2>4, <2>5
    <3> QED
      BY <1>4, <2>3, <3>1, Zenon DEF Encodes, tag
  <2>7. b[pos + 1].kind # "str"
    BY <1>6 DEF tag
  <2> QED
    BY <2>4, <2>6, <2>7
<1>7. kind \in {"int", "str"} \/ kind \in {"array", "map"}
  BY <1>2, <1>3
<1> QED
  BY <1>5, <1>6, <1>7

\* A value of the grammar is read.
LEMMA ValueComplete ==
    ASSUME NEW b \in Seq(PackBytes), NEW P, NEW V, Agree(P, V, b), Proper(V, b),
           NEW pos \in 0 .. Len(b), NEW nodes \in 0 .. MaxNodes,
           NEW j \in 0 .. Len(b), NEW n \in 1 .. MaxNodes, Encodes(V, b, pos, j, n), nodes + n <= MaxNodes,
           NEW r, r = ParseValue(P, b, pos, nodes)
    PROVE  r.ok /\ r.pos = j /\ r.nodes = nodes + n
<1> DEFINE tag == b[pos + 1]
           count == tag.count
           kind == tag.kind
<1>1. pos < Len(b)
  BY DEF Encodes
<1>2. MaxNodes \in Nat /\ Len(b) \in Nat /\ pos \in Nat /\ nodes \in Nat /\ pos # Len(b)
  BY <1>1, LoaderConstants
<1>3. ~(nodes + 1 > MaxNodes \/ pos = Len(b))
  BY <1>2
<1>4. kind \in {"int", "str", "array", "map", "refused"} /\ count \in Nat
  BY <1>2, PackByte
<1>5. CASE kind \in {"int", "str"}
  <2>1. j = pos + 1 + count /\ n = 1
    <3>1. kind \notin {"array", "map"}
      BY <1>5
    <3> QED
      BY <3>1, Zenon DEF Encodes
  <2>2. ~(count > Len(b) - (pos + 1))
    <3> HIDE DEF count
    <3> QED
      BY <1>2, <1>4, <2>1
  <2>3. kind # "refused"
    BY <1>5
  <2>4. r = At(pos + 1 + count, nodes + 1, {})
    BY <1>3, <1>5, <2>2, <2>3, Zenon DEF ParseValue
  <2> QED
    BY <2>1, <2>4, AtEqual
<1>6. CASE kind \in {"array", "map"}
  <2>1. kind \notin {"int", "str"} /\ kind # "refused"
    BY <1>6
  <2>2. PICK cut \in Chains(count, pos + 1, j), sum \in Chains(count, 1, n) : EncodesElements(V, b, tag, cut, sum)
    BY <2>1, Zenon DEF Encodes
  <2>3. /\ pos + 1 \in 0 .. Len(b) /\ nodes + 1 \in 1 .. MaxNodes /\ n \in Nat /\ (nodes + 1) - 1 + n = nodes + n
    BY <1>1, <1>2
  <2>4. tag.kind \in {"array", "map"} /\ tag.count \in Nat
    BY <1>4, <1>6
  <2> DEFINE q == ParseElements(P, b, tag, pos + 1, nodes + 1)
  <2>5. /\ count <= j - (pos + 1) /\ count <= n - 1
        /\ q.ok /\ q.pos = j /\ q.nodes = nodes + n
    <3> DEFINE i == pos + 1
               m == nodes + 1
    <3>1. i \in 0 .. Len(b) /\ m \in 1 .. MaxNodes /\ m - 1 + n = nodes + n /\ m - 1 + n <= MaxNodes
      BY <2>3
    <3>2. cut \in Chains(tag.count, i, j) /\ sum \in Chains(tag.count, 1, n) /\ EncodesElements(V, b, tag, cut, sum)
      BY <2>2
    <3> HIDE DEF i, m, tag
    <3>3. /\ tag.count <= j - i /\ tag.count <= n - 1
          /\ LET p == ParseElements(P, b, tag, i, m) IN p.ok /\ p.pos = j /\ p.nodes = m - 1 + n
      BY <1>2, <2>3, <2>4, <3>1, <3>2, ElementsComplete
    <3> QED
      BY <3>1, <3>3 DEF i, m
  <2> HIDE DEF count
  <2>6. ~(count > Len(b) - (pos + 1)) /\ ~(count > MaxNodes - (nodes + 1))
    <3>1. count \in Nat /\ count <= j - (pos + 1) /\ count <= n - 1
      BY <1>4, <2>5
    <3> QED
      BY <1>2, <3>1
  <2>7. r = q
    BY <1>3, <2>1, <2>6, Zenon DEF ParseValue, count
  <2> HIDE DEF q
  <2> QED
    BY <2>5, <2>7
<1>7. kind \in {"int", "str"} \/ kind \in {"array", "map"}
  BY Zenon DEF Encodes
<1> QED
  BY <1>5, <1>6, <1>7

\* A value has bytes.
LEMMA EncodesBytes ==
    ASSUME NEW b \in Seq(PackBytes), NEW V, NEW i \in 0 .. Len(b), NEW j \in 0 .. Len(b), NEW n,
           Encodes(V, b, i, j, n)
    PROVE  j \in i + 1 .. Len(b)
<1> DEFINE tag == b[i + 1]
           count == tag.count
<1>1. i < Len(b)
  BY DEF Encodes
<1>2. Len(b) \in Nat /\ i # Len(b) /\ count \in Nat
  <2>1. Len(b) \in Nat /\ i # Len(b)
    BY <1>1
  <2> QED
    BY <2>1, PackByte
<1>3. j = i + 1 + count \/ \E cut \in Chains(count, i + 1, j) : TRUE
  BY Zenon DEF Encodes
<1> HIDE DEF count
<1>4. ASSUME NEW cut \in Chains(count, i + 1, j) PROVE i + 1 <= j
  <2>1. cut \in [0 .. count -> i + 1 .. j] /\ 0 \in 0 .. count
    BY <1>2 DEF Chains
  <2>2. cut[0] \in i + 1 .. j
    BY <2>1
  <2> QED
    BY <1>2, <2>2
<1> QED
  BY <1>2, <1>3, <1>4

\* The decoder and the grammar at one level of nesting, given the level below it.
ParseLevel(f, l, b) ==
    [pos \in 0 .. Len(b) |-> [nodes \in 0 .. MaxNodes |->
        IF l = 0 THEN Refused ELSE ParseValue(f[l - 1], b, pos, nodes)]]
ValueLevel(f, l, b) ==
    {v \in (0 .. Len(b)) \X (0 .. Len(b)) \X (1 .. MaxNodes) : l # 0 /\ Encodes(f[l - 1], b, v[1], v[2], v[3])}
ParseLevels(f, m, b) == f = [l \in 0 .. m |-> ParseLevel(f, l, b)]
ValueLevels(f, m, b) == f = [l \in 0 .. m |-> ValueLevel(f, l, b)]

\* The levels of the decoder.
LEMMA ParseLevelsExist ==
    ASSUME NEW b, NEW m \in Nat
    PROVE  \E f : ParseLevels(f, m, b)
<1> DEFINE T == {k \in Nat : ~\E f : ParseLevels(f, k, b)}
<1>1. ASSUME T # {} PROVE FALSE
  <2>1. PICK k \in T : \A j \in T : k <= j
    BY <1>1, LeastNumber
  <2>2. PICK f : k # 0 => ParseLevels(f, k - 1, b)
    <3>1. k # 0 => k - 1 \in Nat /\ k - 1 \notin T
      BY <2>1
    <3> QED
      BY <3>1
  <2>3. k \in Nat
    BY <2>1
  <2> DEFINE g == [l \in 0 .. k |-> IF l < k THEN f[l] ELSE ParseLevel(f, k, b)]
  <2>4. ASSUME NEW l \in 0 .. k PROVE g[l] = ParseLevel(g, l, b)
    <3>1. l # 0 => g[l - 1] = f[l - 1]
      BY <2>3
    <3>2. g[l] = IF l < k THEN f[l] ELSE ParseLevel(f, k, b)
      OBVIOUS
    <3>3. l < k => f[l] = ParseLevel(f, l, b)
      <4> SUFFICES ASSUME l < k PROVE f[l] = ParseLevel(f, l, b)
        OBVIOUS
      <4>1. k # 0 /\ l \in 0 .. k - 1
        BY <2>3
      <4>2. f = [h \in 0 .. k - 1 |-> ParseLevel(f, h, b)]
        BY <2>2, <4>1, Zenon DEF ParseLevels
      <4> QED
        BY <4>1, <4>2, Zenon
    <3>4. ~(l < k) => l = k
      BY <2>3
    <3> HIDE DEF g
    <3>5. ParseLevel(g, l, b) = ParseLevel(f, l, b)
      BY <3>1, Zenon DEF ParseLevel
    <3> QED
      BY <3>2, <3>3, <3>4, <3>5, Zenon
  <2>5. g = [l \in 0 .. k |-> g[l]]
    OBVIOUS
  <2> HIDE DEF g
  <2>6. ParseLevels(g, k, b)
    BY <2>4, <2>5, Zenon DEF ParseLevels
  <2> QED
    BY <2>1, <2>6
<1> QED
  BY <1>1

\* The levels of the grammar.
LEMMA ValueLevelsExist ==
    ASSUME NEW b, NEW m \in Nat
    PROVE  \E f : ValueLevels(f, m, b)
<1> DEFINE T == {k \in Nat : ~\E f : ValueLevels(f, k, b)}
<1>1. ASSUME T # {} PROVE FALSE
  <2>1. PICK k \in T : \A j \in T : k <= j
    BY <1>1, LeastNumber
  <2>2. PICK f : k # 0 => ValueLevels(f, k - 1, b)
    <3>1. k # 0 => k - 1 \in Nat /\ k - 1 \notin T
      BY <2>1
    <3> QED
      BY <3>1
  <2>3. k \in Nat
    BY <2>1
  <2> DEFINE g == [l \in 0 .. k |-> IF l < k THEN f[l] ELSE ValueLevel(f, k, b)]
  <2>4. ASSUME NEW l \in 0 .. k PROVE g[l] = ValueLevel(g, l, b)
    <3>1. l # 0 => g[l - 1] = f[l - 1]
      BY <2>3
    <3>2. g[l] = IF l < k THEN f[l] ELSE ValueLevel(f, k, b)
      OBVIOUS
    <3>3. l < k => f[l] = ValueLevel(f, l, b)
      <4> SUFFICES ASSUME l < k PROVE f[l] = ValueLevel(f, l, b)
        OBVIOUS
      <4>1. k # 0 /\ l \in 0 .. k - 1
        BY <2>3
      <4>2. f = [h \in 0 .. k - 1 |-> ValueLevel(f, h, b)]
        BY <2>2, <4>1, Zenon DEF ValueLevels
      <4> QED
        BY <4>1, <4>2, Zenon
    <3>4. ~(l < k) => l = k
      BY <2>3
    <3> HIDE DEF g
    <3>5. ValueLevel(g, l, b) = ValueLevel(f, l, b)
      BY <3>1, Zenon DEF ValueLevel
    <3> QED
      BY <3>2, <3>3, <3>4, <3>5, Zenon
  <2>5. g = [l \in 0 .. k |-> g[l]]
    OBVIOUS
  <2> HIDE DEF g
  <2>6. ValueLevels(g, k, b)
    BY <2>4, <2>5, Zenon DEF ValueLevels
  <2> QED
    BY <2>1, <2>6
<1> QED
  BY <1>1

\* The decoder and the grammar are the last of their levels.
LEMMA LastLevels ==
    ASSUME NEW b
    PROVE  /\ \E f : ParseLevels(f, MaxDepth + 1, b) /\ Parse(b) = f[MaxDepth + 1]
           /\ \E f : ValueLevels(f, MaxDepth + 1, b) /\ ValuesIn(b) = f[MaxDepth + 1]
<1> DEFINE f == CHOOSE level : ParseLevels(level, MaxDepth + 1, b)
           g == CHOOSE level : ValueLevels(level, MaxDepth + 1, b)
<1>1. MaxDepth + 1 \in Nat
  BY LoaderConstants
<1>2. ParseLevels(f, MaxDepth + 1, b)
  BY <1>1, ParseLevelsExist, Zenon
<1>3. ValueLevels(g, MaxDepth + 1, b)
  BY <1>1, ValueLevelsExist, Zenon
<1>4. Parse(b) = f[MaxDepth + 1]
  BY DEF Parse, ParseLevels, ParseLevel
<1>5. ValuesIn(b) = g[MaxDepth + 1]
  BY DEF ValuesIn, ValueLevels, ValueLevel
<1> HIDE DEF f, g
<1> QED
  BY <1>2, <1>3, <1>4, <1>5, Zenon

\* One more level of nesting: the decoder still reads the values of the grammar, and no others.
LEMMA LevelAgrees ==
    ASSUME NEW b \in Seq(PackBytes), NEW f, NEW g, NEW l \in Nat, l # 0,
           Agree(f[l - 1], g[l - 1], b), Proper(g[l - 1], b)
    PROVE  Agree(ParseLevel(f, l, b), ValueLevel(g, l, b), b) /\ Proper(ValueLevel(g, l, b), b)
<1> DEFINE P == f[l - 1]
           V == g[l - 1]
           P2 == ParseLevel(f, l, b)
           V2 == ValueLevel(g, l, b)
<1>1. Agree(P, V, b) /\ Proper(V, b)
  OBVIOUS
<1>2. ASSUME NEW pos \in 0 .. Len(b), NEW nodes \in 0 .. MaxNodes
      PROVE  P2[pos][nodes] = ParseValue(P, b, pos, nodes)
  BY Zenon DEF ParseLevel
<1>3. ASSUME NEW i, NEW j, NEW n
      PROVE  <<i, j, n>> \in V2 <=> /\ i \in 0 .. Len(b) /\ j \in 0 .. Len(b) /\ n \in 1 .. MaxNodes
                                    /\ Encodes(V, b, i, j, n)
  BY DEF ValueLevel
<1> HIDE DEF P, V, P2, V2
<1>4. Proper(V2, b)
  BY <1>3, EncodesBytes DEF Proper
<1>5. ASSUME NEW pos \in 0 .. Len(b), NEW nodes \in 0 .. MaxNodes
      PROVE  LET r == P2[pos][nodes]
             IN  /\ r.ok => /\ r.pos \in pos + 1 .. Len(b) /\ r.nodes \in nodes + 1 .. MaxNodes
                            /\ <<pos, r.pos, r.nodes - nodes>> \in V2
                            /\ b[pos + 1].kind = "str" => r.nodes = nodes + 1
                 /\ \A j, n : <<pos, j, n>> \in V2 /\ nodes + n <= MaxNodes =>
                      r.ok /\ r.pos = j /\ r.nodes = nodes + n
  <2> DEFINE r == P2[pos][nodes]
  <2>1. r = ParseValue(P, b, pos, nodes)
    BY <1>2
  <2> HIDE DEF r
  <2>2. ASSUME r.ok
        PROVE  /\ r.pos \in pos + 1 .. Len(b) /\ r.nodes \in nodes + 1 .. MaxNodes
               /\ Encodes(V, b, pos, r.pos, r.nodes - nodes)
               /\ b[pos + 1].kind = "str" => r.nodes = nodes + 1
    BY <1>1, <2>1, <2>2, ValueSound
  <2>3. ASSUME r.ok PROVE <<pos, r.pos, r.nodes - nodes>> \in V2
    <3> DEFINE x == r.pos
               w == r.nodes
    <3>1. x \in pos + 1 .. Len(b) /\ w \in nodes + 1 .. MaxNodes
      BY <2>2, <2>3
    <3> HIDE DEF x, w
    <3>2. x \in 0 .. Len(b) /\ w - nodes \in 1 .. MaxNodes
      BY <3>1, LoaderConstants
    <3> QED
      BY <1>3, <2>2, <2>3, <3>2 DEF x, w
  <2>4. ASSUME NEW j, NEW n, <<pos, j, n>> \in V2, nodes + n <= MaxNodes
        PROVE  r.ok /\ r.pos = j /\ r.nodes = nodes + n
    <3>1. j \in 0 .. Len(b) /\ n \in 1 .. MaxNodes /\ Encodes(V, b, pos, j, n)
      BY <1>3, <2>4
    <3> QED
      BY <1>1, <2>1, <2>4, <3>1, ValueComplete
  <2> QED
    BY <2>2, <2>3, <2>4 DEF r
<1>6. Agree(P2, V2, b)
  BY <1>5, Zenon DEF Agree
<1> QED
  BY <1>4, <1>6 DEF P2, V2

\* At every level the decoder reads the values of the grammar, and no others.
LEMMA LevelsAgree ==
    ASSUME NEW b \in Seq(PackBytes), NEW m \in Nat, NEW f, NEW g, ParseLevels(f, m, b), ValueLevels(g, m, b)
    PROVE  Agree(f[m], g[m], b) /\ Proper(g[m], b)
<1> DEFINE T == {l \in 0 .. m : ~(Agree(f[l], g[l], b) /\ Proper(g[l], b))}
<1>1. ASSUME NEW l \in 0 .. m PROVE f[l] = ParseLevel(f, l, b) /\ g[l] = ValueLevel(g, l, b)
  <2>1. f = [h \in 0 .. m |-> ParseLevel(f, h, b)] /\ g = [h \in 0 .. m |-> ValueLevel(g, h, b)]
    BY Zenon DEF ParseLevels, ValueLevels
  <2> QED
    BY <2>1, Zenon
<1>2. ASSUME T # {} PROVE FALSE
  <2>1. T \subseteq Nat
    OBVIOUS
  <2>2. PICK l \in T : \A h \in T : l <= h
    BY <1>2, <2>1, LeastNumber
  <2>3. l \in 0 .. m
    BY <2>2
  <2>4. CASE l = 0
    <3>1. g[0] = {}
      BY <1>1, <2>3, <2>4 DEF ValueLevel
    <3>2. ASSUME NEW pos \in 0 .. Len(b), NEW nodes \in 0 .. MaxNodes PROVE ~f[0][pos][nodes].ok
      <4>1. f[0] = ParseLevel(f, 0, b)
        BY <1>1, <2>3, <2>4
      <4>2. ParseLevel(f, 0, b)[pos][nodes] = Refused
        BY DEF ParseLevel
      <4>3. f[0][pos][nodes] = Refused
        BY <4>1, <4>2
      <4> QED
        BY <4>3, AtFields
    <3>3. Agree(f[0], g[0], b) /\ Proper(g[0], b)
      BY <3>1, <3>2 DEF Agree, Proper
    <3> QED
      BY <2>2, <2>4, <3>3
  <2>5. CASE l # 0
    <3>1. l \in Nat /\ l - 1 \in 0 .. m /\ l - 1 < l
      BY <2>3, <2>5
    <3> HIDE DEF T
    <3>2. l - 1 \notin T
      BY <2>1, <2>2, <3>1
    <3>3. Agree(f[l - 1], g[l - 1], b) /\ Proper(g[l - 1], b)
      BY <3>1, <3>2 DEF T
    <3>4. Agree(f[l], g[l], b) /\ Proper(g[l], b)
      BY <1>1, <2>3, <2>5, <3>1, <3>3, LevelAgrees
    <3> QED
      BY <2>2, <3>4 DEF T
  <2> QED
    BY <2>4, <2>5
<1>3. m \in 0 .. m
  OBVIOUS
<1> QED
  BY <1>2, <1>3

\* MessagePack::decode accepts exactly the values of the grammar.
LEMMA DecodeExact ==
    ASSUME NEW b \in Seq(PackBytes)
    PROVE  Decode(b) <=> \E n \in 1 .. MaxNodes : <<0, Len(b), n>> \in ValuesIn(b)
<1> DEFINE P == Parse(b)
           V == ValuesIn(b)
           r == P[0][0]
<1>1. Agree(P, V, b) /\ Proper(V, b)
  <2>1. PICK f : ParseLevels(f, MaxDepth + 1, b) /\ Parse(b) = f[MaxDepth + 1]
    BY LastLevels
  <2>2. PICK g : ValueLevels(g, MaxDepth + 1, b) /\ ValuesIn(b) = g[MaxDepth + 1]
    BY LastLevels
  <2>3. MaxDepth + 1 \in Nat
    BY LoaderConstants
  <2> QED
    BY <2>1, <2>2, <2>3, LevelsAgree
<1> HIDE DEF P, V
<1>2. 0 \in 0 .. Len(b) /\ 0 \in 0 .. MaxNodes /\ MaxNodes \in Nat
  BY LoaderConstants
<1>3. /\ r.ok => /\ r.pos \in 0 + 1 .. Len(b) /\ r.nodes \in 0 + 1 .. MaxNodes
                 /\ <<0, r.pos, r.nodes - 0>> \in V
      /\ \A j, n : <<0, j, n>> \in V /\ 0 + n <= MaxNodes => r.ok /\ r.pos = j /\ r.nodes = 0 + n
  BY <1>1, <1>2 DEF Agree
<1> HIDE DEF r
<1>4. ASSUME r.ok, r.pos = Len(b) PROVE \E n \in 1 .. MaxNodes : <<0, Len(b), n>> \in V
  <2>1. r.nodes \in 1 .. MaxNodes /\ r.nodes - 0 = r.nodes
    BY <1>2, <1>3, <1>4
  <2> QED
    BY <1>3, <1>4, <2>1
<1>5. ASSUME NEW n \in 1 .. MaxNodes, <<0, Len(b), n>> \in V PROVE r.ok /\ r.pos = Len(b)
  <2>1. 0 + n <= MaxNodes
    BY <1>2
  <2> QED
    BY <1>3, <1>5, <2>1
<1> QED
  BY <1>4, <1>5 DEF Decode, P, V, r

\* Every nonempty set of numbers below a limit has a largest element.
LEMMA LargestNumber ==
    ASSUME NEW m \in Nat, NEW S, S \subseteq 0 .. m, S # {}
    PROVE  \E x \in S : \A y \in S : x >= y
<1> DEFINE T == {m - x : x \in S}
<1>1. T \subseteq Nat /\ T # {}
  <2>1. PICK z \in S : TRUE
    OBVIOUS
  <2>2. m - z \in T
    BY <2>1
  <2>3. \A x \in S : m - x \in Nat
    OBVIOUS
  <2> QED
    BY <2>2, <2>3
<1>2. PICK t \in T : \A u \in T : t <= u
  BY <1>1, LeastNumber
<1>3. PICK x \in S : t = m - x
  OBVIOUS
<1>4. \A y \in S : m - x <= m - y
  BY <1>2, <1>3
<1>5. \A y \in S : x >= y
  BY <1>4
<1> QED
  BY <1>5

\* The addresses of the segments parseCodeObject accepted lie between begin and end: no end wrapped.
LEMMA LayoutBounds ==
    ASSUME NEW e, IsELF(e), Parses(e)
    PROVE  /\ Begin(e) \in AddressRange /\ EndsAt(e) \in AddressRange /\ ImageSize(e) \in Nat
           /\ \A s \in e.segments :
                /\ s.address \in Nat /\ s.mem \in Nat /\ s.mem > 0
                /\ Begin(e) <= s.address /\ s.address + s.mem <= EndsAt(e)
<1> DEFINE A == {s.address : s \in e.segments}
           E == {(s.address + s.mem) % Limit : s \in e.segments}
<1>1. /\ e.segments # {}
      /\ \A s \in e.segments : /\ s.address \in AddressRange /\ s.mem \in AddressRange \ {0}
                               /\ s.address <= (Limit - 1) - s.mem
  BY DEF IsELF, Parses, SegmentFits
<1>2. Limit \in Nat /\ Limit > 0
  BY LoaderConstants
<1>3. \A s \in e.segments : /\ s.address \in Nat /\ s.mem \in Nat /\ s.mem > 0
                            /\ (s.address + s.mem) % Limit = s.address + s.mem
                            /\ s.address + s.mem < Limit
  <2> TAKE s \in e.segments
  <2> DEFINE x == s.address
             y == s.mem
  <2>1. x \in 0 .. Limit - 1 /\ y \in 0 .. Limit - 1 /\ y # 0 /\ x <= (Limit - 1) - y
    BY <1>1 DEF AddressRange
  <2> HIDE DEF x, y
  <2>2. x \in Nat /\ y \in Nat /\ y > 0 /\ x + y < Limit /\ (x + y) % Limit = x + y
    BY <1>2, <2>1
  <2> QED
    BY <2>2 DEF x, y
<1>4. A \subseteq Nat /\ A # {} /\ E \subseteq 0 .. Limit - 1 /\ E # {}
  <2>1. A \subseteq Nat /\ A # {} /\ E # {}
    BY <1>1, <1>3
  <2>2. E \subseteq 0 .. Limit - 1
    BY <1>2, <1>3
  <2> QED
    BY <2>1, <2>2
<1>5. Begin(e) \in A /\ \A y \in A : Begin(e) <= y
  BY <1>4, LeastNumber, Zenon DEF Begin, Smallest
<1>6. EndsAt(e) \in E /\ \A y \in E : EndsAt(e) >= y
  <2>1. Limit - 1 \in Nat
    BY <1>2
  <2>2. \E x \in E : \A y \in E : x >= y
    BY <1>4, <2>1, LargestNumber
  <2> QED
    BY <2>2, Zenon DEF EndsAt, Largest
<1>7. \A s \in e.segments : Begin(e) <= s.address /\ s.address + s.mem <= EndsAt(e)
  BY <1>3, <1>5, <1>6
<1>8. Begin(e) \in AddressRange
  BY <1>1, <1>5
<1>9. EndsAt(e) \in AddressRange
  BY <1>4, <1>6 DEF AddressRange
<1>10. ImageSize(e) \in Nat
  <2>1. PICK s \in e.segments : TRUE
    BY <1>1
  <2>2. Begin(e) \in Nat /\ EndsAt(e) \in Nat
    BY <1>2, <1>8, <1>9 DEF AddressRange
  <2>3. s.address \in Nat /\ s.mem \in Nat /\ Begin(e) <= s.address /\ s.address + s.mem <= EndsAt(e)
    BY <1>3, <1>7
  <2> DEFINE x == s.address
             y == s.mem
  <2> HIDE DEF x, y
  <2>4. EndsAt(e) - Begin(e) \in Nat
    BY <2>2, <2>3 DEF x, y
  <2> QED
    BY <2>4 DEF ImageSize
<1> QED
  BY <1>3, <1>7, <1>8, <1>9, <1>10

\* What lies in a segment lies in the image.
LEMMA LoadedInImage ==
    ASSUME NEW e, IsELF(e), Parses(e), NEW address \in Nat, NEW size \in Nat \ {0}, NEW executable \in BOOLEAN,
           LoadedRange(e, address, size, executable), NEW d \in 0 .. size - 1
    PROVE  address - Begin(e) + d \in 0 .. ImageSize(e) - 1
<1>1. PICK s \in e.segments : address >= s.address /\ InRange(address - s.address, size, s.mem)
  BY DEF LoadedRange
<1> DEFINE x == s.address
           y == s.mem
           b == Begin(e)
           t == EndsAt(e)
<1>2. address >= x /\ address - x <= y /\ size <= y - (address - x)
  BY <1>1 DEF InRange
<1>3. x \in Nat /\ y \in Nat /\ b <= x /\ x + y <= t /\ b \in AddressRange /\ t \in AddressRange
  BY LayoutBounds
<1>4. b \in Nat /\ t \in Nat
  BY <1>3, LoaderConstants DEF AddressRange
<1>5. ImageSize(e) = t - b
  BY DEF ImageSize
<1> HIDE DEF x, y, b, t
<1>6. address - b + d \in 0 .. t - b - 1
  BY <1>2, <1>3, <1>4
<1> QED
  BY <1>5, <1>6 DEF b

\* A relocation that was evaluated writes no byte of the descriptor.
LEMMA FixupsClear ==
    ASSUME NEW e, IsELF(e), Parses(e), NEW base \in Nat, NEW d \in 0 .. Descriptor - 1,
           NEW r \in Fixups(e, base)
    PROVE  LET i == e.kernel - Begin(e) + d
           IN  ~(i >= r.offset - Begin(e) /\ i < r.offset - Begin(e) + Word)
<1> DEFINE o == r.offset
           k == e.kernel
           b == Begin(e)
<1>1. r \in e.relocations /\ Evaluates(e, r, base)
  BY DEF Fixups
<1>2. ~(o - b < k - b + Descriptor /\ k - b < o - b + Word)
  BY <1>1 DEF Evaluates
<1>3. o \in AddressRange /\ k \in AddressRange /\ b \in AddressRange
  BY <1>1, LayoutBounds DEF IsELF
<1>4. o \in Nat /\ k \in Nat /\ b \in Nat /\ Descriptor \in Nat /\ Word \in Nat /\ Word > 0
  BY <1>3, LoaderConstants DEF AddressRange
<1> HIDE DEF o, k, b
<1>5. ~(k - b + d >= o - b /\ k - b + d < o - b + Word)
  BY <1>2, <1>4
<1> QED
  BY <1>5 DEF o, k, b

\* The image of a parsed or a relocated code object, and what it holds.
LEMMA ImageHolds ==
    ASSUME NEW e, IsELF(e), Parses(e), NEW base \in Nat, NEW image,
           image = ParsedImage(e) \/ image = Relocated(e, base)
    PROVE  /\ \A s \in e.segments : s.address - Begin(e) + s.mem <= ImageSize(e)
           /\ \A d \in 0 .. Descriptor - 1 : image[e.kernel - Begin(e) + d] # "fixup"
           /\ \A d \in 0 .. Instruction - 1 : e.kernel + e.displacement - Begin(e) + d \in DOMAIN image
<1>1. \A s \in e.segments : s.address - Begin(e) + s.mem <= ImageSize(e)
  <2> TAKE s \in e.segments
  <2> DEFINE x == s.address
             y == s.mem
             b == Begin(e)
             t == EndsAt(e)
  <2>1. x \in Nat /\ y \in Nat /\ x + y <= t /\ b \in AddressRange /\ t \in AddressRange
    BY LayoutBounds
  <2>2. b \in Nat /\ t \in Nat
    BY <2>1, LoaderConstants DEF AddressRange
  <2> HIDE DEF x, y, b, t
  <2>3. x - b + y <= t - b
    BY <2>1, <2>2
  <2> QED
    BY <2>3 DEF x, y, b, t, ImageSize
<1>2. DOMAIN image = 0 .. ImageSize(e) - 1
  BY DEF ParsedImage, Relocated
<1>3. ASSUME NEW d \in 0 .. Instruction - 1 PROVE e.kernel + e.displacement - Begin(e) + d \in DOMAIN image
  <2>1. e.kernel + e.displacement >= 0 /\ LoadedRange(e, e.kernel + e.displacement, Instruction, TRUE)
    BY DEF Parses
  <2>2. e.kernel \in Int /\ e.displacement \in Int /\ Begin(e) \in Int
    <3>1. e.kernel \in AddressRange /\ e.displacement \in Int /\ Begin(e) \in AddressRange
      BY LayoutBounds DEF IsELF
    <3> QED
      BY <3>1, LoaderConstants DEF AddressRange
  <2>3. e.kernel + e.displacement \in Nat /\ Instruction \in Nat \ {0} /\ TRUE \in BOOLEAN
    BY <2>1, <2>2, LoaderConstants
  <2>4. (e.kernel + e.displacement) - Begin(e) + d \in 0 .. ImageSize(e) - 1
    BY <2>1, <2>3, LoadedInImage
  <2>5. (e.kernel + e.displacement) - Begin(e) + d = e.kernel + (e.displacement - Begin(e)) + d
    BY <2>2
  <2> QED
    BY <1>2, <2>4, <2>5
<1>4. ASSUME NEW d \in 0 .. Descriptor - 1 PROVE image[e.kernel - Begin(e) + d] # "fixup"
  <2> DEFINE i == e.kernel - Begin(e) + d
  <2>1. i \in 0 .. ImageSize(e) - 1
    <3>1. LoadedRange(e, e.kernel, Descriptor, FALSE) /\ e.kernel \in AddressRange
      BY DEF Parses, IsELF
    <3>2. e.kernel \in Nat /\ Descriptor \in Nat \ {0}
      BY <3>1, LoaderConstants DEF AddressRange
    <3> QED
      BY <3>1, <3>2, LoadedInImage
  <2>2. ~\E r \in Fixups(e, base) : i >= r.offset - Begin(e) /\ i < r.offset - Begin(e) + Word
    BY FixupsClear
  <2> HIDE DEF i
  <2>3. ParsedImage(e)[i] \in {"file", "zero"}
    BY <2>1 DEF ParsedImage
  <2>4. Relocated(e, base)[i] = ParsedImage(e)[i]
    BY <2>1, <2>2, Zenon DEF Relocated
  <2>5. image[i] \in {"file", "zero"}
    BY <2>3, <2>4
  <2>6. image[i] # "fixup"
    BY <2>5
  <2> QED
    BY <2>6 DEF i
<1> QED
  BY <1>1, <1>3, <1>4

\* The decoder's verdict and the image, as far as the steps taken.
CodeInv ==
    /\ metadata \in Seq(PackBytes) /\ IsELF(elf) /\ loadedAt \in AddressRange
    /\ decoded = "none" => imageBytes = <<>>
    /\ metadata # <<>> /\ decoded # "none" => decoded = (IF Decode(metadata) THEN "accepted" ELSE "refused")
    /\ decoded = "parsed" => Parses(elf) /\ imageBytes = ParsedImage(elf)
    /\ decoded = "relocated" => Parses(elf) /\ imageBytes = Relocated(elf, loadedAt)
    /\ decoded = "refused" => \A i \in DOMAIN imageBytes : imageBytes[i] # "fixup"

\* Every step of the loader keeps it.
LEMMA CodeInvInductive ==
    CodeInv /\ [CodeObjectsNext]_codeVars => CodeInv'
<1> SUFFICES ASSUME CodeInv, [CodeObjectsNext]_codeVars PROVE CodeInv'
  OBVIOUS
<1>1. CASE UNCHANGED codeVars
  BY <1>1 DEF CodeInv, codeVars
<1>2. CASE DecodeMetadata
  <2>1. \A i \in DOMAIN imageBytes' : imageBytes'[i] # "fixup"
    BY <1>2 DEF DecodeMetadata, CodeInv
  <2>2. decoded' \in {"accepted", "refused"}
    BY <1>2 DEF DecodeMetadata
  <2> QED
    BY <1>2, <2>1, <2>2, Zenon DEF DecodeMetadata, CodeInv
<1>3. CASE ParseCodeObject
  <2>1. decoded' = "refused" => \A i \in DOMAIN imageBytes' : imageBytes'[i] # "fixup"
    <3> SUFFICES ASSUME decoded' = "refused" PROVE imageBytes' = <<>>
      OBVIOUS
    <3> QED
      BY <1>3 DEF ParseCodeObject
  <2>2. metadata' = <<>>
    BY <1>3 DEF ParseCodeObject
  <2>3. decoded' \in {"parsed", "refused"} /\ (decoded' = "parsed" => Parses(elf) /\ imageBytes' = ParsedImage(elf))
    BY <1>3 DEF ParseCodeObject
  <2> QED
    BY <1>3, <2>1, <2>2, <2>3 DEF ParseCodeObject, CodeInv
<1>4. CASE RelocateCodeObject
  <2>1. Parses(elf) /\ imageBytes = ParsedImage(elf) /\ decoded' \in {"relocated", "refused"}
    BY <1>4 DEF RelocateCodeObject, CodeInv
  <2>2. metadata = <<>>
    BY <1>4 DEF RelocateCodeObject, CodeInv
  <2>3. \A i \in 0 .. ImageSize(elf) - 1 : ParsedImage(elf)[i] # "fixup"
    BY DEF ParsedImage
  <2>4. ASSUME decoded' = "refused", NEW i \in DOMAIN imageBytes' PROVE imageBytes'[i] # "fixup"
    <3>1. CASE imageBytes' = imageBytes
      <4>1. i \in 0 .. ImageSize(elf) - 1
        BY <2>1, <2>4, <3>1 DEF ParsedImage
      <4> QED
        BY <2>1, <2>3, <3>1, <4>1
    <3>2. CASE imageBytes' = Relocated(elf, loadedAt) /\ Fixups(elf, loadedAt) = {}
      <4>1. i \in 0 .. ImageSize(elf) - 1
        BY <2>4, <3>2 DEF Relocated
      <4>2. Relocated(elf, loadedAt)[i] = ParsedImage(elf)[i]
        BY <3>2, <4>1 DEF Relocated
      <4> QED
        BY <2>3, <3>2, <4>1, <4>2
    <3> QED
      BY <1>4, <2>4, <3>1, <3>2 DEF RelocateCodeObject, Fixups
  <2>5. decoded' = "relocated" => imageBytes' = Relocated(elf, loadedAt)
    BY <1>4 DEF RelocateCodeObject
  <2> QED
    BY <1>4, <2>1, <2>2, <2>4, <2>5 DEF RelocateCodeObject, CodeInv
<1> QED
  BY <1>1, <1>2, <1>3, <1>4 DEF CodeObjectsNext

\* It says that what is loaded lies inside the image, and what the relocations left alone.
LEMMA CodeInvBounds == CodeInv => ImageInBounds
<1> SUFFICES ASSUME CodeInv PROVE ImageInBounds
  OBVIOUS
<1>1. loadedAt \in Nat
  BY LoaderConstants DEF CodeInv, AddressRange
<1>2. ASSUME decoded \in {"parsed", "relocated"}
      PROVE  /\ \A s \in elf.segments : s.address - Begin(elf) + s.mem <= ImageSize(elf)
             /\ \A d \in 0 .. Descriptor - 1 : imageBytes[elf.kernel - Begin(elf) + d] # "fixup"
             /\ \A d \in 0 .. Instruction - 1 : elf.kernel + elf.displacement - Begin(elf) + d \in DOMAIN imageBytes
  <2>1. IsELF(elf) /\ Parses(elf) /\ (imageBytes = ParsedImage(elf) \/ imageBytes = Relocated(elf, loadedAt))
    BY <1>2 DEF CodeInv
  <2> QED
    BY <1>1, <2>1, ImageHolds
<1> QED
  BY <1>2 DEF ImageInBounds, CodeInv

\* code_object.cpp: for every ELF image and every sequence of metadata bytes, whatever lengths they
\* announce, MessagePack::decode accepts exactly the well-formed values within its bounds on nesting
\* and number, the segments, descriptor and entry of an image that is parsed lie inside it, and no
\* relocation changes the descriptor or is left behind by a relocation that fails.
THEOREM CodeObjectsSafe == CodeObjectsSpec => []CodeObjectsSound
<1>1. CodeObjectsInit => CodeInv
  BY DEF CodeObjectsInit, CodeInv
<1>2. CodeInv => DecodesGrammar
  <2> SUFFICES ASSUME CodeInv, metadata # <<>>, decoded # "none"
               PROVE  decoded = "accepted" <=>
                          \E n \in 1 .. MaxNodes : <<0, Len(metadata), n>> \in ValuesIn(metadata)
    BY DEF DecodesGrammar
  <2>1. metadata \in Seq(PackBytes) /\ decoded = (IF Decode(metadata) THEN "accepted" ELSE "refused")
    BY DEF CodeInv
  <2>2. decoded = "accepted" <=> Decode(metadata)
    BY <2>1
  <2> QED
    BY <2>1, <2>2, DecodeExact
<1>3. CodeInv => CodeObjectsSound
  BY <1>2, CodeInvBounds DEF CodeObjectsSound
<1> QED
  BY <1>1, <1>3, CodeInvInductive, PTL DEF CodeObjectsSpec

=============================================================================
