---------------------------- MODULE RuntimeCopy ----------------------------
(***************************************************************************)
(* copyBytes and hsa_amd_memory_fill of hsa/src/memory.cpp: how a copy or  *)
(* fill the caller asked for is cut into driver calls.  Between two driver *)
(* calls the destination is partly written, and when source and            *)
(* destination overlap in one buffer a later piece may read what an        *)
(* earlier one wrote.  Any driver call may fail; the operation stops.      *)
(***************************************************************************)
EXTENDS Naturals, FiniteSets

CONSTANTS Buffers,     \* buffers of the two ends
          GPUNames,    \* connections
          Length,      \* bytes of each buffer
          Staging,     \* bytes of the staging array, 4096 in the code
          MaxCopy      \* bytes of one driver copy, 4 MiB in the code

ASSUME CopyAssumption ==
    /\ "host" \notin GPUNames
    /\ {Length, Staging, MaxCopy} \subseteq Nat \ {0}

VARIABLES request,    \* the operation asked for
          completed,  \* bytes done so far
          contents       \* contents of the buffers

copyVars == <<request, completed, contents>>

\* Every byte has a value of its own at the start; a fill writes 0.
Original == [b \in Buffers |-> [i \in 0 .. Length - 1 |-> IF b = "a" THEN 1 + i ELSE 101 + i]]

CopyRequests ==
    {r \in [op : {"copy", "fill"}, at : {"ready"}, src : Buffers, srcOffset : 0 .. Length - 1,
            dst : Buffers, dstOffset : 0 .. Length - 1, size : 1 .. Length,
            on : [Buffers -> GPUNames \union {"host"}]] :        \* a host mapping counts as host
        /\ r.srcOffset + r.size <= Length /\ r.dstOffset + r.size <= Length      \* validRange
        /\ r.op = "fill" => r.src = r.dst /\ r.srcOffset = r.dstOffset}

CopyInit ==
    /\ request \in CopyRequests
    /\ completed = 0
    /\ contents = Original

\* The bytes of m after n bytes have been moved at once.
Moved(m, src, srcOffset, dst, dstOffset, n) ==
    [m EXCEPT ![dst] = [i \in 0 .. Length - 1 |->
        IF i >= dstOffset /\ i < dstOffset + n THEN m[src][srcOffset + i - dstOffset] ELSE m[dst][i]]]

Filled(m, dst, dstOffset, n) ==
    [m EXCEPT ![dst] = [i \in 0 .. Length - 1 |-> IF i >= dstOffset /\ i < dstOffset + n THEN 0 ELSE m[dst][i]]]

Smaller(x, y) == IF x < y THEN x ELSE y

OneGPU == request.on[request.src] # "host" /\ request.on[request.src] = request.on[request.dst]
Overlapping == /\ request.src = request.dst
               /\ request.srcOffset < request.dstOffset + request.size
               /\ request.dstOffset < request.srcOffset + request.size

Finish(outcome) == request' = [request EXCEPT !.at = outcome]

\* An end on the host: one memmove, one readBuffer or one writeBuffer.
CopyWithHost ==
    /\ request.op = "copy" /\ request.at = "ready"
    /\ request.on[request.src] = "host" \/ request.on[request.dst] = "host"
    /\ contents' = Moved(contents, request.src, request.srcOffset, request.dst, request.dstOffset, request.size)
    /\ Finish("done")
    /\ UNCHANGED completed

\* Both ends are the same byte of the same GPU.
CopyOntoItself ==
    /\ request.op = "copy" /\ request.at = "ready" /\ OneGPU
    /\ request.src = request.dst /\ request.srcOffset = request.dstOffset
    /\ Finish("done")
    /\ UNCHANGED <<completed, contents>>

\* Disjoint ranges on one GPU: the driver copies up to MaxCopy bytes at a time.
CopyInGPU ==
    /\ request.op = "copy" /\ request.at = "ready" /\ OneGPU /\ ~Overlapping
    /\ LET n == Smaller(MaxCopy, request.size - completed)
       IN  /\ contents' = Moved(contents, request.src, request.srcOffset + completed,
                             request.dst, request.dstOffset + completed, n)
           /\ completed' = completed + n
           /\ IF completed + n = request.size THEN Finish("done") ELSE UNCHANGED request

\* Mutant: overlapping ranges are staged forwards whichever way they overlap.
BackwardsNever == FALSE

Backwards == /\ OneGPU /\ request.src = request.dst
             /\ request.dstOffset > request.srcOffset
             /\ request.dstOffset < request.srcOffset + request.size

\* Two GPUs, or overlapping ranges of one buffer: through the staging array.
CopyStaged ==
    /\ request.op = "copy" /\ request.at = "ready"
    /\ request.on[request.src] # "host" /\ request.on[request.dst] # "host"
    /\ OneGPU => Overlapping /\ request.srcOffset # request.dstOffset
    /\ LET n      == Smaller(Staging, request.size - completed)
           offset == IF Backwards THEN request.size - completed - n ELSE completed
       IN  /\ contents' = Moved(contents, request.src, request.srcOffset + offset, request.dst, request.dstOffset + offset, n)
           /\ completed' = completed + n
           /\ IF completed + n = request.size THEN Finish("done") ELSE UNCHANGED request

\* hsa_amd_memory_fill: host memory at once, a GPU's through an array of Staging bytes.
Fill ==
    /\ request.op = "fill" /\ request.at = "ready"
    /\ LET n == IF request.on[request.dst] = "host" THEN request.size ELSE Smaller(Staging, request.size - completed)
       IN  /\ contents' = Filled(contents, request.dst, request.dstOffset + completed, n)
           /\ completed' = completed + n
           /\ IF completed + n = request.size THEN Finish("done") ELSE UNCHANGED request

\* A driver call fails: its status is returned and nothing is retried.
DriverFails ==
    /\ request.at = "ready"
    /\ request.on[request.src] # "host" \/ request.on[request.dst] # "host"
    /\ Finish("failed")
    /\ UNCHANGED <<completed, contents>>

CopyNext == CopyWithHost \/ CopyOntoItself \/ CopyInGPU \/ CopyStaged \/ Fill \/ DriverFails

CopySpec == CopyInit /\ [][CopyNext]_copyVars

-----------------------------------------------------------------------------

\* A copy that reports success has moved the bytes as one memmove would have, whatever the overlap,
\* the alignment to the pieces and the path taken; a failed one has touched nothing outside the
\* destination range.  The same for a fill (memory.cpp:141-190, 414-440).
CopyIsMemmove ==
    /\ request.at = "done" => contents =
          IF request.op = "copy"
          THEN Moved(Original, request.src, request.srcOffset, request.dst, request.dstOffset, request.size)
          ELSE Filled(Original, request.dst, request.dstOffset, request.size)
    /\ request.at = "failed" => \A b \in Buffers, i \in 0 .. Length - 1 :
          contents[b][i] # Original[b][i] =>
             b = request.dst /\ i >= request.dstOffset /\ i < request.dstOffset + request.size

====
