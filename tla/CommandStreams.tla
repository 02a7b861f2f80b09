--------------------------- MODULE CommandStreams --------------------------
(***************************************************************************)
(* Raw command streams and their fences: the command-stream table of a     *)
(* client, SubmitIB and WaitFence (dext/MacAMDGPU.cpp), the one submission *)
(* in flight (ClientSubmission in amdgpu_client_lifecycle.h) and the       *)
(* write-back words of the two SDMA engines and of the graphics queue.     *)
(*                                                                         *)
(* SubmitIB needs exclusive ownership, so one client is enough; sessions   *)
(* and resets in general are DriverSession's.  Handles are the numbers the *)
(* code builds: fields of Radix = 2^16 values for a command stream, and    *)
(* generation * 2^32 + index for a buffer.                                 *)
(***************************************************************************)
EXTENDS Integers

CONSTANTS
    Streams,       \* MACAMDGPU_MAX_CS
    Buffers,       \* buffer slots used for legacy indirect buffers
    Radix,         \* 2^16: one field of a command-stream handle
    MaxFence,      \* UINT32_MAX
    MaxBOGen       \* bound on buffers allocated by the client

ASSUME StreamAssumption ==
    /\ Streams \in Nat \ {0} /\ Buffers \in Nat \ {0}
    /\ Radix \in Nat /\ Radix > 1 /\ Streams <= Radix /\ Buffers <= Radix * Radix
    /\ MaxFence \in Nat \ {0} /\ MaxBOGen \in Nat

VARIABLES
    cs,        \* ivars->cs
    csGen,     \* csGenCounter modulo Radix: only its low field is ever used
    bo,        \* generation of each buffer slot in use, 0 when free
    boGen,     \* boGenCounter
    sub,       \* driver->ivars->submission
    cpFence,   \* cp.fence_counter
    wb,        \* the fence word of each engine in VRAM
    hw         \* work an engine may be executing

vars == <<cs, csGen, bo, boGen, sub, cpFence, wb, hw>>

Engines == {"SDMA0", "SDMA1", "GFX"}
CSSlots == 0 .. Streams - 1
BOSlots == 0 .. Buffers - 1
Legacy == Streams      \* hw.slot of an indirect buffer without a stream

NoStream == [used |-> FALSE, gen |-> 0, engine |-> "SDMA0", written |-> FALSE,
             fence |-> 0]
NoWork == [engine |-> "none", fence |-> 0, slot |-> Legacy]
NoSubmission == [pending |-> FALSE, engine |-> "SDMA0", issued |-> 0, completed |-> 0,
                 expected |-> 0, lastCP |-> 0, completedCP |-> 0]

Init ==
    /\ cs = [i \in CSSlots |-> NoStream] /\ csGen = 0
    /\ bo = [i \in BOSlots |-> 0] /\ boGen = 0
    /\ sub = NoSubmission /\ cpFence = 0
    /\ wb = [e \in Engines |-> 0] /\ hw = NoWork

-----------------------------------------------------------------------------
(***************************************************************************)
(* Handles.                                                                *)
(***************************************************************************)
CSHandle(i) == i * Radix + cs[i].gen
BOHandle(i) == bo[i] * Radix * Radix + i

\* cs_lookup: the slot and the generation are taken from the low fields.
CSResolves(h) ==
    LET i == (h \div Radix) % Radix IN
    i \in CSSlots /\ cs[i].used /\ cs[i].gen = h % Radix
CSLookup(h) == (h \div Radix) % Radix

BOResolves(h) ==
    LET i == h % (Radix * Radix) IN
    i \in BOSlots /\ bo[i] # 0 /\ bo[i] = h \div (Radix * Radix)

\* Handles the client can present: those of its streams and its buffers.
Handles == {CSHandle(i) : i \in {j \in CSSlots : cs[j].used}}
             \cup {BOHandle(i) : i \in {j \in BOSlots : bo[j] # 0}}

(***************************************************************************)
(* ClientSubmission.                                                       *)
(***************************************************************************)
\* Mutant: takes any fence value for the expected one.
PolledAny(word) ==
    IF sub.pending /\ sub.expected # 0 /\ word # 0
      THEN IF sub.engine = "GFX" THEN [sub EXCEPT !.pending = FALSE, !.completedCP = sub.expected]
           ELSE [sub EXCEPT !.pending = FALSE, !.completed = sub.expected]
      ELSE sub

\* poll() after it read `word' from the engine's write-back.
Polled(word) ==
    IF sub.pending /\ sub.expected # 0 /\ word = sub.expected
      THEN IF sub.engine = "GFX" THEN [sub EXCEPT !.pending = FALSE, !.completedCP = sub.expected]
           ELSE [sub EXCEPT !.pending = FALSE, !.completed = sub.expected]
      ELSE sub

\* Admission: calls that may change anything wait for the submission.
Idle == ~sub.pending

\* Mutant: looks at the fence word instead of the latched value.
SignalledFromWord(i) ==
    cs[i].fence = 0 \/ cs[i].fence = wb[cs[i].engine]

\* WaitFence of the stream in slot i reports it signalled.
Signalled(i) ==
    \/ cs[i].fence = 0
    \/ IF cs[i].engine = "GFX" THEN cs[i].fence <= sub.completedCP
                               ELSE cs[i].fence <= sub.completed

-----------------------------------------------------------------------------
\* CSCreate: the first free slot; generation zero is skipped.
CSCreate(e) ==
    LET g == IF (csGen + 1) % Radix = 0 THEN 1 ELSE (csGen + 1) % Radix IN
    /\ Idle
    /\ \E i \in CSSlots :
         /\ ~cs[i].used /\ \A j \in CSSlots : j < i => cs[j].used
         /\ cs' = [cs EXCEPT ![i] = [NoStream EXCEPT !.used = TRUE, !.gen = g,
                                                     !.engine = e]]
    /\ csGen' = g
    /\ UNCHANGED <<bo, boGen, sub, cpFence, wb, hw>>

\* CSWriteDwords: appends; what matters is that the stream is not empty.
CSWriteDwords(h) ==
    /\ Idle /\ CSResolves(h)
    /\ cs' = [cs EXCEPT ![CSLookup(h)].written = TRUE]
    /\ UNCHANGED <<csGen, bo, boGen, sub, cpFence, wb, hw>>

CSDestroy(h) ==
    /\ Idle /\ CSResolves(h)
    /\ cs' = [cs EXCEPT ![CSLookup(h)] = [NoStream EXCEPT !.gen = cs[CSLookup(h)].gen]]
    /\ UNCHANGED <<csGen, bo, boGen, sub, cpFence, wb, hw>>

\* BOAlloc and BOFree of a legacy buffer, for the handles they make.
BOAlloc ==
    /\ Idle /\ boGen < MaxBOGen
    /\ \E i \in BOSlots :
         /\ bo[i] = 0 /\ \A j \in BOSlots : j < i => bo[j] # 0
         /\ bo' = [bo EXCEPT ![i] = boGen + 1]
    /\ boGen' = boGen + 1
    /\ UNCHANGED <<cs, csGen, sub, cpFence, wb, hw>>

BOFree(i) ==
    /\ Idle /\ bo[i] # 0
    /\ bo' = [bo EXCEPT ![i] = 0]
    /\ UNCHANGED <<cs, csGen, boGen, sub, cpFence, wb, hw>>

\* SubmitIB of an SDMA stream: clear the fence word, begin, write the packets
\* and the fence, ring the doorbell.  Any step may fail after begin; a failed
\* kick may still have published the write pointer.
SubmitSDMA(h, kicked, runs) ==
    LET i == CSLookup(h)  f == sub.issued + 1 IN
    /\ Idle /\ CSResolves(h) /\ cs[i].written /\ cs[i].engine # "GFX"
    /\ sub.issued < MaxFence - 1 /\ (kicked => runs)
    /\ wb' = [wb EXCEPT ![cs[i].engine] = 0]
    /\ sub' = [sub EXCEPT !.pending = TRUE, !.engine = cs[i].engine, !.issued = f,
                          !.expected = f]
    /\ cs' = [cs EXCEPT ![i].fence = f]
    /\ hw' = IF runs THEN [engine |-> cs[i].engine, fence |-> f, slot |-> i] ELSE hw
    /\ UNCHANGED <<csGen, bo, boGen, cpFence>>

\* beginCP, then a fence that may not be emitted.  Emitting it uses up a value
\* even when the ring has no room for it.
BeginCP(emitted, counted) ==
    /\ Idle /\ cpFence < MaxFence /\ (emitted => counted)
    /\ cpFence' = IF counted THEN cpFence + 1 ELSE cpFence

\* SubmitIB of a graphics stream.
SubmitGFX(h, counted, emitted, runs) ==
    LET i == CSLookup(h)  f == cpFence + 1 IN
    /\ BeginCP(emitted, counted) /\ (runs => emitted)
    /\ CSResolves(h) /\ cs[i].written /\ cs[i].engine = "GFX"
    /\ sub' = [sub EXCEPT !.pending = TRUE, !.engine = "GFX",
                          !.expected = IF emitted THEN f ELSE 0]
    /\ cs' = IF emitted THEN [cs EXCEPT ![i].fence = f] ELSE cs
    /\ hw' = IF runs THEN [engine |-> "GFX", fence |-> f, slot |-> i] ELSE hw
    /\ UNCHANGED <<csGen, bo, boGen, wb>>

\* SubmitIB falls back to a buffer handle when no stream has the handle.
SubmitLegacy(h, counted, emitted, runs) ==
    LET f == cpFence + 1 IN
    /\ BeginCP(emitted, counted) /\ (runs => emitted)
    /\ ~CSResolves(h) /\ BOResolves(h)
    /\ sub' = [sub EXCEPT !.pending = TRUE, !.engine = "GFX",
                          !.expected = IF emitted THEN f ELSE 0,
                          !.lastCP = IF emitted THEN f ELSE sub.lastCP]
    /\ hw' = IF runs THEN [engine |-> "GFX", fence |-> f, slot |-> Legacy] ELSE hw
    /\ UNCHANGED <<cs, csGen, bo, boGen, wb>>

\* The engine executes the packets and writes the fence word.
EngineDone ==
    /\ hw # NoWork
    /\ wb' = [wb EXCEPT ![hw.engine] = hw.fence]
    /\ hw' = NoWork
    /\ UNCHANGED <<cs, csGen, bo, boGen, sub, cpFence>>

\* cp_submit_eop_test: the driver's own fence on the graphics queue.
CPSelfTest ==
    /\ Idle /\ cpFence < MaxFence
    /\ cpFence' = cpFence + 1
    /\ wb' = [wb EXCEPT !["GFX"] = cpFence + 1]
    /\ UNCHANGED <<cs, csGen, bo, boGen, sub, hw>>

\* Any admission, and every round of WaitFence, polls the pending submission.
\* A write-back that cannot be read, or reads as all ones, completes nothing.
Poll ==
    /\ sub' = Polled(wb[sub.engine])
    /\ sub' # sub
    /\ UNCHANGED <<cs, csGen, bo, boGen, cpFence, wb, hw>>

\* ShutdownGPU: reset; streams and buffers are released, counters restart.
\* The next bring-up clears the write-back pages.
ShutdownGPU ==
    /\ sub' = NoSubmission /\ hw' = NoWork /\ cpFence' = 0
    /\ wb' = [e \in Engines |-> 0]
    /\ cs' = [i \in CSSlots |-> [NoStream EXCEPT !.gen = cs[i].gen]]
    /\ bo' = [i \in BOSlots |-> 0]
    /\ UNCHANGED <<csGen, boGen>>

Next ==
    \/ \E e \in Engines : CSCreate(e)
    \/ \E h \in Handles : CSWriteDwords(h) \/ CSDestroy(h)
    \/ BOAlloc
    \/ \E i \in BOSlots : BOFree(i)
    \/ \E h \in Handles, kicked, runs \in BOOLEAN : SubmitSDMA(h, kicked, runs)
    \/ \E h \in Handles, counted, emitted, runs \in BOOLEAN :
          SubmitGFX(h, counted, emitted, runs) \/ SubmitLegacy(h, counted, emitted, runs)
    \/ EngineDone
    \/ CPSelfTest
    \/ Poll
    \/ ShutdownGPU

Spec == Init /\ [][Next]_vars

-----------------------------------------------------------------------------
\* Every variable keeps its type; no SDMA fence takes the value a failed PCI
\* read returns.
TypeOK ==
    /\ cs \in [CSSlots -> [used : BOOLEAN, gen : 0 .. Radix - 1, engine : Engines,
                           written : BOOLEAN, fence : 0 .. MaxFence]]
    /\ csGen \in 0 .. Radix - 1 /\ boGen \in 0 .. MaxBOGen
    /\ bo \in [BOSlots -> 0 .. MaxBOGen]
    /\ sub \in [pending : BOOLEAN, engine : Engines, issued : 0 .. MaxFence - 1,
                completed : 0 .. MaxFence - 1, expected : 0 .. MaxFence,
                lastCP : 0 .. MaxFence, completedCP : 0 .. MaxFence]
    /\ cpFence \in 0 .. MaxFence
    /\ wb \in [Engines -> 0 .. MaxFence]
    /\ hw \in [engine : Engines \cup {"none"}, fence : 0 .. MaxFence, slot : 0 .. Streams]

\* WaitFence never reports work as done that an engine may still execute, for
\* streams and for indirect buffers, across resets of the counters.
SignalledIsDone ==
    hw # NoWork =>
        /\ hw.slot \in CSSlots => cs[hw.slot].used /\ ~Signalled(hw.slot)
        /\ hw.slot = Legacy => sub.lastCP > sub.completedCP

\* "On upload/kick failure the submission remains pending": while an engine
\* may execute raw packets, every other call is held off.
HeldWhileRunning == hw # NoWork => sub.pending

\* Work an engine may still execute is neither reported as done nor overtaken by another call.
CompletionHonest == TypeOK /\ SignalledIsDone /\ HeldWhileRunning

\* "Completion is latched before the shared WB slot is reused, so later
\* submissions cannot erase an older CS's result."
ResultsLatched ==
    [][\A i \in CSSlots :
         Signalled(i) /\ cs[i].used /\ cs'[i].used /\ cs'[i].fence = cs[i].fence
           => Signalled(i)']_vars

\* "Legacy callers that pass (bo_handle, ib_dw, 0) are still accepted via the
\* BO fallback path" (dext/MacAMDGPU.cpp:4531): SubmitIB never takes the handle
\* of a live buffer for that of a command stream.
BOHandlesFallBack == \A i \in BOSlots : bo[i] # 0 => ~CSResolves(BOHandle(i))
=============================================================================
