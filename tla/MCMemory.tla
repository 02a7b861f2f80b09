------------------------------ MODULE MCMemory ------------------------------
(***************************************************************************)
(* The components that own storage or move data, one at a time: `focus`    *)
(* says which.  They share no state in these models, and the others stay   *)
(* in one of their initial states.                                         *)
(***************************************************************************)
EXTENDS VRAMAllocator, RuntimeMemory, Executables, RuntimeCopy, HostLocks, StagedTransfer,
        IPCSignals, HSATransport, CodeObjects, SQSlot, FirmwareFiles, Discovery, TLC

CONSTANTS FileSizes,  \* bytes of the firmware files tried
          MaxBytes    \* length of the metadata tried

VARIABLE focus

\* Threads and connections that the models only compare (Agents and GPUs are the same ones).
Symmetry == Permutations(Callers) \cup Permutations(GPUs)

Components == {"vram", "memory", "executables", "copy", "locks", "transfer", "ipc", "transport",
               "code", "sq", "firmware", "discovery"}

\* An initial state for a component that does not run.
SomeOf(S) == CHOOSE x \in S : TRUE
CopyResting == request = SomeOf(CopyRequests) /\ completed = 0 /\ contents = Original
TransferResting ==
    /\ call = [at |-> "done", upload |-> FALSE, offset |-> 0, bytes |-> 0]
    /\ moved = 0 /\ content = OriginalContent
    /\ staged = [i \in 0 .. ChunkBytes - 1 |-> 0] /\ userBytes = [i \in 0 .. BufferBytes - 1 |-> 0]

\* Metadata of up to MaxBytes bytes, and longer maps of two pairs; two segments, a kernel and relocations.
Scalar(k, n) == [kind |-> k, count |-> n]
TagsTried == {Scalar("int", 0), Scalar("int", 1), Scalar("str", 1), Scalar("refused", 0), Scalar("array", 0),
              Scalar("array", 1), Scalar("array", 2), Scalar("map", 1), Scalar("map", 2)}
Keys == {Scalar("int", 0), Scalar("str", 1)}
MapsTried ==
    {<<Scalar("map", 2), Scalar("str", 1), k>> \o v \o <<Scalar("str", 1), j, w>> :
        k, j \in Keys, v \in [1 .. 1 -> TagsTried] \cup [1 .. 2 -> TagsTried], w \in TagsTried}
SegmentsTried == [address : {0, 2, 4, 6, 7}, mem : {1, 2, 3}, file : {1, 2}, exec : {TRUE}]
NoELF == [segments |-> {}, kernel |-> 0, displacement |-> 0, relocations |-> {}]
CodeTried ==
    /\ decoded = "none" /\ imageBytes = <<>>
    /\ \/ /\ metadata \in UNION {[1 .. n -> TagsTried] : n \in 1 .. MaxBytes} \cup MapsTried
          /\ elf = NoELF /\ loadedAt = 0
       \/ /\ metadata = <<>>
          /\ elf \in [segments : {{s, r} : s, r \in SegmentsTried}, kernel : {0, 2, 4, 6}, displacement : {-2, 1},
                      relocations : {{}} \cup {{[offset |-> 1, addend |-> 0], [offset |-> o, addend |-> a]} :
                                                  o \in {0, 3, 6}, a \in {0, -3}}]
          /\ loadedAt \in {0, 2}
CodeResting == metadata = <<>> /\ decoded = "none" /\ elf = NoELF /\ loadedAt = 0 /\ imageBytes = <<>>
\* Firmware files with at most two unusual fields: fields that are usual, empty, beyond the end, and
\* long enough to wrap a sum in the field's width.
Usual == [at |-> 0, size |-> 1]
TriedFields == {Usual, [at |-> 0, size |-> 0], [at |-> FieldValues - 1, size |-> 1],
                [at |-> 1, size |-> FieldValues - 1]}
FirmwareTried ==
    /\ \E format \in Formats, bytes \in FileSizes, minor \in 0 .. 5, ok \in BOOLEAN :
        /\ format # "RLC" => minor = 0
        /\ LET shape == [format |-> format, bytes |-> bytes, minor |-> minor, majorOK |-> ok]
               names == FieldsOf(shape)
           IN  \E x, y \in names, u, v \in TriedFields :
                 fwFile = [format |-> format, bytes |-> bytes, minor |-> minor, majorOK |-> ok,
                           field |-> [n \in names |-> IF n = x THEN u ELSE IF n = y THEN v ELSE Usual]]
    /\ FirmwareInit

FirmwareResting ==
    /\ fwFile = [format |-> "SMU", bytes |-> 0, minor |-> 0, majorOK |-> TRUE, field |-> [n \in {"SMU"} |-> Usual]]
    /\ fwRequest = "SMU" /\ payloads = <<"pending">>
DiscoveryResting ==
    /\ walk = WalkStart /\ given = 1 /\ declared = 0 /\ ipds = [from |-> 0, to |-> 0]
    /\ counted = [p \in Positions |-> NotRead] /\ touched = {} /\ ipTable = "old"

MCInit ==
    /\ focus \in Components
    /\ Init /\ MemoryInit /\ ExecutablesInit /\ LocksInit /\ IPCInit /\ TransportInit /\ SQInit
    /\ IF focus = "copy" THEN CopyInit ELSE CopyResting
    /\ IF focus = "transfer" THEN TransferInit ELSE TransferResting
    /\ IF focus = "code" THEN CodeTried ELSE CodeResting
    /\ IF focus = "firmware" THEN FirmwareTried ELSE FirmwareResting
    /\ IF focus = "discovery" THEN DiscoveryInit ELSE DiscoveryResting

\* Component c does not move.
Rests(c) ==
    CASE c = "vram" -> UNCHANGED vars [] c = "memory" -> UNCHANGED memoryVars
      [] c = "executables" -> UNCHANGED execVars [] c = "copy" -> UNCHANGED copyVars
      [] c = "locks" -> UNCHANGED lockVars [] c = "transfer" -> UNCHANGED transferVars
      [] c = "ipc" -> UNCHANGED ipcVars [] c = "transport" -> UNCHANGED transportVars
      [] c = "code" -> UNCHANGED codeVars [] c = "sq" -> UNCHANGED sqVars
      [] c = "firmware" -> UNCHANGED firmwareVars [] c = "discovery" -> UNCHANGED discoveryVars

MCNext ==
    /\ \/ focus = "vram" /\ Next
       \/ focus = "memory" /\ MemoryNext
       \/ focus = "executables" /\ ExecutablesNext
       \/ focus = "copy" /\ CopyNext
       \/ focus = "locks" /\ LocksNext
       \/ focus = "transfer" /\ TransferNext
       \/ focus = "ipc" /\ IPCNext
       \/ focus = "transport" /\ TransportNext
       \/ focus = "code" /\ CodeObjectsNext
       \/ focus = "sq" /\ SQNext
       \/ focus = "firmware" /\ FirmwareNext
       \/ focus = "discovery" /\ DiscoveryNext
    /\ \A c \in Components \ {focus} : Rests(c)
    /\ UNCHANGED focus

=============================================================================
