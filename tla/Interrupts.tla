----------------------------- MODULE Interrupts -----------------------------
(***************************************************************************)
(* Interrupt delivery of the driver: the interrupt-handler (IH) ring the   *)
(* GPU fills (dext/amdgpu/ih_v7_0.cpp), the handler that empties it, and   *)
(* the exclusive client that waits for the bits the handler raises         *)
(* (MacAMDGPU.cpp).                                                        *)
(*                                                                         *)
(* Handler, RPCs and Stop share the driver's serial queue, so none runs    *)
(* while a handler is under way.  The GPU writes entries, and the client   *)
(* clears bits in the shared page, between any two steps of the handler.   *)
(*                                                                         *)
(* The GPU's half of the ring is external: an entry advances the write     *)
(* pointer and its shadow; an entry that reaches the read pointer latches  *)
(* an overflow that only the clear bit of IH_RB_CNTL takes back; a message *)
(* is sent once and again only after a write of the read pointer           *)
(* (RPTR_REARM).                                                           *)
(***************************************************************************)
EXTENDS Naturals, FiniteSets

CONSTANTS Entries,     \* entries the ring holds
          Events,      \* event bits an entry can stand for
          MaxWritten   \* bound on entries written in one behaviour

ASSUME InterruptsAssumption ==
    /\ Entries \in Nat \ {0, 1} /\ MaxWritten \in Nat
    /\ Events # {} /\ {"vector", "overflow"} \cap Events = {}

VARIABLES irq,      \* the client's interrupt state and its shared page
          ih,       \* the driver's half: its IHContext, and whether it is stopping
          gpu,      \* the GPU's registers and its shadow of the write pointer
          slots,    \* ring slot -> event bit
          handler,  \* the InterruptOccurred under way
          written,  \* entries written so far
          dropped   \* a message was dropped: without a new read pointer there is no other

irqVars == <<irq, ih, gpu, slots, handler, written, dropped>>

Bits == {"vector", "overflow"} \cup Events
Advance(p) == (p + 1) % Entries

NoPage == [queue |-> FALSE, setUp |-> FALSE, enabled |-> {}, pending |-> {}, wait |-> "none",
           interest |-> {}, stopping |-> FALSE]
NoHandler == [at |-> "idle", wptr |-> 0, recovered |-> FALSE]
Offline == [online |-> FALSE, rptr |-> 0, overflows |-> FALSE, stopping |-> FALSE]
ResetRing == [wptr |-> 0, rptr |-> 0, overflow |-> FALSE, shadow |-> 0, shadowOverflow |-> FALSE,
              armed |-> TRUE, message |-> FALSE]

InterruptsInit ==
    /\ irq = NoPage /\ ih = Offline /\ gpu = ResetRing /\ handler = NoHandler
    /\ slots \in [0 .. Entries - 1 -> {CHOOSE e \in Events : TRUE}]
    /\ written = 0 /\ dropped = FALSE

HandlerIdle == handler.at = "idle"

-----------------------------------------------------------------------------
(* RPCs of the client, and Stop                                            *)

\* RPCs run one at a time with the handlers, and none once the driver or its client stops.
RPC == HandlerIdle /\ ~irq.stopping /\ ~ih.stopping

\* setup_interrupts: the queue and the shared page first (all bits enabled); then the sources,
\* of which none may register.  A failure before the page leaves nothing behind.
SetupInterrupts ==
    /\ RPC /\ ~irq.queue
    /\ \E page, registered \in BOOLEAN :
           irq' = IF page THEN [NoPage EXCEPT !.queue = TRUE, !.setUp = registered, !.enabled = Bits]
                          ELSE irq
    /\ UNCHANGED <<ih, gpu, slots, handler, written, dropped>>

\* Mutant: the completion is installed without a look at the pending words.
WaitInterruptSlow ==
    /\ RPC /\ irq.setUp /\ irq.wait # "waiting"
    /\ irq' = [irq EXCEPT !.wait = "waiting", !.interest = irq.enabled]
    /\ UNCHANGED <<ih, gpu, slots, handler, written, dropped>>

\* WaitInterrupt: completes at once if an enabled bit is pending; otherwise its completion is
\* kept for the handler.  A second wait is refused.
WaitInterrupt ==
    /\ RPC /\ irq.setUp /\ irq.wait # "waiting"
    /\ irq' = IF irq.enabled \cap irq.pending # {}
                  THEN [irq EXCEPT !.wait = "success"]
                  ELSE [irq EXCEPT !.wait = "waiting", !.interest = irq.enabled]
    /\ UNCHANGED <<ih, gpu, slots, handler, written, dropped>>

SetIRQMask ==
    /\ RPC /\ irq.queue
    /\ \E mask \in {Bits, Bits \ {"vector"}} : irq' = [irq EXCEPT !.enabled = mask]
    /\ UNCHANGED <<ih, gpu, slots, handler, written, dropped>>

\* The client takes bits out of the shared page.
ConsumePending ==
    /\ irq.pending # {}
    /\ irq' = [irq EXCEPT !.pending = {}]
    /\ UNCHANGED <<ih, gpu, slots, handler, written, dropped>>

\* The driver's Stop: PCI is closed, and bus mastering off, so the GPU writes nothing more; a message
\* that is already under way is still handled, and a wait is left to the client's own Stop.
DriverStop ==
    /\ HandlerIdle /\ ~ih.stopping
    /\ ih' = [ih EXCEPT !.stopping = TRUE]
    /\ UNCHANGED <<irq, gpu, slots, handler, written, dropped>>

\* The client's Stop: from here on every handler returns at its first line.
StopClient ==
    /\ HandlerIdle /\ irq.queue /\ ~irq.stopping
    /\ irq' = [irq EXCEPT !.stopping = TRUE]
    /\ UNCHANGED <<ih, gpu, slots, handler, written, dropped>>

\* Mutant: the page is given back, and the completion kept for a handler that will never come.
ReleaseAllSilently ==
    /\ HandlerIdle /\ irq.stopping /\ irq.queue
    /\ irq' = [NoPage EXCEPT !.stopping = TRUE, !.wait = irq.wait]
    /\ UNCHANGED <<ih, gpu, slots, handler, written, dropped>>

\* FinishStop, after every source has drained: release_all_interrupts aborts a wait that is
\* still pending and gives the page back.
ReleaseAll ==
    /\ HandlerIdle /\ irq.stopping /\ irq.queue
    /\ irq' = [NoPage EXCEPT !.stopping = TRUE,
                             !.wait = IF irq.wait = "waiting" THEN "aborted" ELSE irq.wait]
    /\ UNCHANGED <<ih, gpu, slots, handler, written, dropped>>

\* ih_init_full: the ring is disabled, its registers written, both pointers and the shadow reset,
\* and the ring enabled.  Bring-up runs on the same queue.
IHInitFull ==
    /\ HandlerIdle /\ ~ih.online /\ ~ih.stopping
    /\ ih' = [Offline EXCEPT !.online = TRUE] /\ gpu' = ResetRing
    /\ UNCHANGED <<irq, slots, handler, written, dropped>>

-----------------------------------------------------------------------------
(* InterruptOccurred                                                       *)

Handled == irq.setUp /\ ~irq.stopping /\ "vector" \in irq.enabled

\* The message reaches a client that has no use for it, or has masked the vector: the ring is
\* not drained and its read pointer not written.
InterruptDropped ==
    /\ HandlerIdle /\ gpu.message /\ ~Handled
    /\ gpu' = [gpu EXCEPT !.message = FALSE]
    /\ dropped' = TRUE
    /\ UNCHANGED <<irq, ih, slots, handler, written>>

\* The raw vector is raised.  If the driver is stopping, the handler returns there: nothing is
\* drained and nobody woken.  Otherwise ih_drain loads the shadow of the write pointer.
InterruptOccurred ==
    /\ HandlerIdle /\ gpu.message /\ Handled
    /\ gpu' = [gpu EXCEPT !.message = FALSE]
    /\ irq' = [irq EXCEPT !.pending = @ \cup {"vector"}]
    /\ \/ ih.stopping /\ dropped' = TRUE /\ UNCHANGED handler
       \/ /\ ~ih.stopping /\ UNCHANGED dropped
          /\ handler' = [NoHandler EXCEPT !.at = IF gpu.shadowOverflow THEN "reread" ELSE "dispatch",
                                          !.wptr = gpu.shadow]
    /\ UNCHANGED <<ih, slots, written>>

\* ih_drain, overflow: the write pointer is read again, from its register.
Reread ==
    /\ handler.at = "reread"
    /\ handler' = [handler EXCEPT !.at = "recover", !.wptr = gpu.wptr]
    /\ ih' = [ih EXCEPT !.overflows = TRUE]
    /\ UNCHANGED <<irq, gpu, slots, written, dropped>>

\* ... the latch is cleared, and the read pointer moves to the oldest entry still in the ring.
Recover ==
    /\ handler.at = "recover"
    /\ gpu' = [gpu EXCEPT !.overflow = FALSE]
    /\ ih' = [ih EXCEPT !.rptr = Advance(handler.wptr)]
    /\ handler' = [handler EXCEPT !.at = "dispatch", !.recovered = TRUE]
    /\ UNCHANGED <<irq, slots, written, dropped>>

\* Ring slots from the read pointer up to, and without, w.
Unread(r, w) == IF r <= w THEN r .. (w - 1) ELSE (r .. (Entries - 1)) \cup (0 .. (w - 1))

\* The bits of the drained entries that the client has not masked.
Raised == irq.enabled \cap ({slots[s] : s \in Unread(ih.rptr, handler.wptr)}
                              \cup (IF ih.overflows THEN {"overflow"} ELSE {}))

\* The GPU's answer to a write of the read pointer: armed again, or a message at once if there
\* are entries the driver has not read.
Rearmed(r) ==
    LET empty == r = gpu.wptr /\ ~gpu.overflow
    IN  [gpu EXCEPT !.rptr = r, !.armed = empty, !.message = ~empty]

Woken == IF irq.wait = "waiting" THEN "success" ELSE irq.wait

\* Mutant: the read pointer stays in the driver.
DrainSilently ==
    /\ handler.at = "dispatch"
    /\ irq' = [irq EXCEPT !.pending = @ \cup Raised, !.wait = Woken]
    /\ ih' = [ih EXCEPT !.rptr = handler.wptr]
    /\ handler' = NoHandler
    /\ UNCHANGED <<gpu, slots, written, dropped>>

\* ih_drain's walk: every entry raises its bit; the register follows if there was an entry.  Then
\* the overflow bit if an overflow was ever seen, and the pending wait completes.
DrainAndWake ==
    /\ handler.at = "dispatch"
    /\ irq' = [irq EXCEPT !.pending = @ \cup (IF ih.online THEN Raised ELSE {}), !.wait = Woken]
    /\ ih' = IF ih.online THEN [ih EXCEPT !.rptr = handler.wptr] ELSE ih
    /\ gpu' = IF ih.online /\ ih.rptr # handler.wptr THEN Rearmed(handler.wptr) ELSE gpu
    /\ handler' = NoHandler
    /\ UNCHANGED <<slots, written, dropped>>

-----------------------------------------------------------------------------
(* The GPU (external)                                                      *)

WriteEntry ==
    /\ ih.online /\ ~ih.stopping /\ written < MaxWritten
    /\ \E e \in Events :
        LET full == gpu.overflow \/ Advance(gpu.wptr) = gpu.rptr
        IN  /\ slots' = [slots EXCEPT ![gpu.wptr] = e]
            /\ gpu' = [gpu EXCEPT !.wptr = Advance(@), !.overflow = full,
                                  !.shadow = Advance(gpu.wptr), !.shadowOverflow = full,
                                  !.message = @ \/ gpu.armed, !.armed = FALSE]
    /\ written' = written + 1
    /\ UNCHANGED <<irq, ih, handler, dropped>>

HandlerStep == InterruptDropped \/ InterruptOccurred \/ Reread \/ Recover \/ DrainAndWake

InterruptsNext ==
    \/ SetupInterrupts \/ WaitInterrupt \/ SetIRQMask \/ ConsumePending \/ DriverStop \/ StopClient \/ ReleaseAll
    \/ IHInitFull
    \/ HandlerStep
    \/ WriteEntry

InterruptsSpec == InterruptsInit /\ [][InterruptsNext]_irqVars

\* The queue runs what is on it: a message's handler to its end, and the rest of a stop.  IOKit stops
\* the clients of a service that stops.
InterruptsFairness ==
    /\ WF_irqVars(HandlerStep)
    /\ WF_irqVars(ReleaseAll \/ (ih.stopping /\ StopClient))

-----------------------------------------------------------------------------
(* Properties                                                              *)

\* Every variable keeps its type.
InterruptsTypeOK ==
    /\ irq \in [queue : BOOLEAN, setUp : BOOLEAN, enabled : SUBSET Bits, pending : SUBSET Bits,
                wait : {"none", "waiting", "success", "aborted"}, interest : SUBSET Bits, stopping : BOOLEAN]
    /\ ih.rptr \in 0 .. Entries - 1 /\ gpu.wptr \in 0 .. Entries - 1
    /\ slots \in [0 .. Entries - 1 -> Events]
    /\ handler.at \in {"idle", "reread", "recover", "dispatch"}

\* No wakeup is lost between WaitInterrupt's look at the pending words and the completion it
\* installs, nor by a change of the mask or a stop: while nothing runs on the queue, a client that
\* waits has none of the bits it waits for pending, unless the driver is stopping, whose handlers wake
\* nobody; and no client waits once its page is gone.
NoLostWakeup ==
    /\ InterruptsTypeOK
    /\ irq.wait = "waiting" =>
        /\ irq.queue
        /\ HandlerIdle /\ irq.interest \cap irq.enabled \cap irq.pending # {} => ih.stopping

\* The wait that the handler of a stopping driver leaves asleep, perhaps with its bit pending, is
\* ended all the same: by the stop of its client, which the driver's own stop brings about.
StoppedWaitEnds == (irq.wait = "waiting" /\ (irq.stopping \/ ih.stopping)) ~> irq.wait # "waiting"

\* Every entry the GPU writes is reported: its bit becomes pending, or the overflow bit does,
\* unless the client masked a message away (nothing then writes the read pointer that would make
\* the GPU send another), masks that bit, or it or the driver stops.  Entries may arrive at any step
\* of the handler.
EntriesReported ==
    \A e \in Events :
        (handler.at = "idle" /\ \E s \in Unread(ih.rptr, gpu.wptr) : slots[s] = e)
            ~> (e \in irq.pending \/ "overflow" \in irq.pending \/ dropped \/ irq.stopping \/ ih.stopping)

\* Neither the GPU's entries nor the client's wait is left behind by the handler and the two stops.
InterruptsLive == EntriesReported /\ StoppedWaitEnds

=============================================================================
