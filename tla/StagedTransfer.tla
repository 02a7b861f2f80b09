--------------------------- MODULE StagedTransfer ---------------------------
(***************************************************************************)
(* IOKitConnection::transfer of hsa/src/transport_iokit.cpp: bytes of the  *)
(* host travel to and from a GPU buffer through a staging buffer, with     *)
(* driver copies that only move whole dwords.  A first or last dword the   *)
(* caller asked for in part is read, changed and written back.             *)
(***************************************************************************)
EXTENDS Naturals

CONSTANTS Dword,      \* bytes of a dword, 4 in the code
          ChunkBytes, \* bytes of the staging buffer
          BufferBytes \* bytes of the GPU buffer, whole pages and so whole dwords in the code

ASSUME TransferAssumption ==
    /\ {Dword, ChunkBytes, BufferBytes} \subseteq Nat \ {0}
    /\ ChunkBytes % Dword = 0 /\ BufferBytes % Dword = 0

VARIABLES call,     \* the transfer asked for
          moved,    \* bytes done
          content,  \* the GPU buffer
          staged,   \* the staging buffer
          userBytes    \* the caller's bytes

transferVars == <<call, moved, content, staged, userBytes>>

\* Every byte of the buffer is distinct, and so is every byte the caller uploads; 0 is in nobody's.
OriginalContent == [i \in 0 .. BufferBytes - 1 |-> 1 + i]
Uploaded == [i \in 0 .. BufferBytes - 1 |-> 101 + i]

TransferInit ==
    /\ call \in {c \in [at : {"moving"}, upload : BOOLEAN, offset : 0 .. BufferBytes - 1, bytes : 1 .. BufferBytes] :
                    c.offset + c.bytes <= BufferBytes}
    /\ moved = 0
    /\ content = OriginalContent
    /\ staged = [i \in 0 .. ChunkBytes - 1 |-> 0]
    /\ userBytes = IF call.upload THEN Uploaded ELSE [i \in 0 .. BufferBytes - 1 |-> 0]

\* One piece: where it starts, how far into its first dword, its length and the dwords it spans.
Prefix == (call.offset + moved) % Dword
Aligned == (call.offset + moved) - Prefix
PieceBytes == LET left == call.bytes - moved
         IN  IF left < ChunkBytes - Prefix THEN left ELSE ChunkBytes - Prefix
DwordSpan == ((Prefix + PieceBytes + Dword - 1) \div Dword) * Dword

\* Mutant: only a piece that starts inside a dword is read first.
ReadFirstPrefix == ~call.upload \/ Prefix # 0

\* A download, or an upload that starts or ends inside a dword.
ReadFirst == ~call.upload \/ Prefix # 0 \/ PieceBytes # DwordSpan

\* The staging buffer after the driver's copy into it, and after the caller's bytes are put there.
CopiedIn == [i \in 0 .. ChunkBytes - 1 |-> IF ReadFirst /\ i < DwordSpan THEN content[Aligned + i] ELSE staged[i]]
Patched == [i \in 0 .. ChunkBytes - 1 |->
                IF i >= Prefix /\ i < Prefix + PieceBytes THEN userBytes[moved + i - Prefix] ELSE CopiedIn[i]]

TransferPiece ==
    /\ call.at = "moving"
    /\ IF call.upload
       THEN /\ staged' = Patched /\ UNCHANGED userBytes
            /\ content' = [j \in 0 .. BufferBytes - 1 |->
                              IF j >= Aligned /\ j < Aligned + DwordSpan THEN Patched[j - Aligned] ELSE content[j]]
       ELSE /\ staged' = CopiedIn /\ UNCHANGED content
            /\ userBytes' = [j \in 0 .. BufferBytes - 1 |->
                             IF j >= moved /\ j < moved + PieceBytes THEN CopiedIn[Prefix + j - moved] ELSE userBytes[j]]
    /\ moved' = moved + PieceBytes
    /\ call' = [call EXCEPT !.at = IF moved + PieceBytes = call.bytes THEN "done" ELSE "moving"]

\* A step fails: the connection is faulted, nothing is retried, and no later transfer starts.  Either
\* the bytes do not pass between the caller and the staging buffer, with no copy submitted that can
\* still run; or the copy into the staging buffer fails, or an upload's copy out of it, and a failed
\* submission may still run.
TransferFails ==
    /\ call.at = "moving"
    /\ \/ call' = [call EXCEPT !.at = "failed"] /\ staged' \in {staged, CopiedIn}
       \/ ReadFirst /\ call' = [call EXCEPT !.at = "readFailed"] /\ UNCHANGED staged
       \/ call.upload /\ call' = [call EXCEPT !.at = "writeFailed"] /\ staged' = Patched
    /\ UNCHANGED <<moved, content, userBytes>>

\* The engine copies one more dword of a copy that was reported as failed, in whatever order.
CopyRunsOn ==
    /\ \E d \in {i \in 0 .. DwordSpan - 1 : i % Dword = 0} :
        \/ /\ call.at = "readFailed"
           /\ staged' = [i \in 0 .. ChunkBytes - 1 |-> IF i >= d /\ i < d + Dword THEN content[Aligned + i] ELSE staged[i]]
           /\ UNCHANGED content
        \/ /\ call.at = "writeFailed"
           /\ content' = [j \in 0 .. BufferBytes - 1 |->
                             IF j >= Aligned + d /\ j < Aligned + d + Dword THEN staged[j - Aligned] ELSE content[j]]
           /\ UNCHANGED staged
    /\ UNCHANGED <<call, moved, userBytes>>

TransferNext == TransferPiece \/ TransferFails \/ CopyRunsOn

TransferSpec == TransferInit /\ [][TransferNext]_transferVars

-----------------------------------------------------------------------------

\* Byte j belongs to the piece whose copy into the buffer was reported as failed and may still run.
InFailedPiece(j) ==
    call.at = "writeFailed" /\ j >= call.offset + moved /\ j < call.offset + moved + PieceBytes

\* A transfer moves the caller's bytes and no others: at every step, and whether or not it comes to
\* its end, the buffer differs from what it was only where an upload has been asked to write; what is
\* done is right, and only the piece whose copy failed may hold old and new bytes, in any mixture;
\* every driver copy is of whole dwords inside the buffer.
TransferExact ==
    /\ \A j \in 0 .. BufferBytes - 1 :
          IF call.upload /\ j >= call.offset /\ j < call.offset + moved
          THEN content[j] = Uploaded[j - call.offset]
          ELSE \/ content[j] = OriginalContent[j]
               \/ InFailedPiece(j) /\ content[j] = Uploaded[j - call.offset]
    /\ ~call.upload => \A k \in 0 .. moved - 1 : userBytes[k] = OriginalContent[call.offset + k]
    /\ call.at # "done" => Aligned + DwordSpan <= BufferBytes /\ DwordSpan <= ChunkBytes

=============================================================================
