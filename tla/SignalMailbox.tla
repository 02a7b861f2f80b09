--------------------------- MODULE SignalMailbox ---------------------------
(***************************************************************************)
(* CPU updates of GPU-visible HSA signals (hsa/src/signal_mailbox.h,       *)
(* signal_mailbox_service.cl, gpu_signal_service.cpp and the fallback in   *)
(* gpu_signals.cpp).  A resident GPU kernel applies requests that the CPU  *)
(* publishes in shared memory; sequence words hand the request and result  *)
(* words from one side to the other.  The service starts the kernel on     *)
(* demand, retires it when idle, when a public queue needs its slot, on    *)
(* any error and at shutdown.                                              *)
(*                                                                         *)
(* CPU callers and the idle worker hold one mutex, so the CPU side is one  *)
(* process; the kernel is the other.  Each acquire load, release store and *)
(* atomic update is a step; relaxed accesses belong to the step of the     *)
(* release that publishes or the acquire that precedes them.  Any deadline *)
(* may pass at any check of it; the kernel may stall forever.              *)
(***************************************************************************)
EXTENDS Naturals, Sequences

CONSTANTS
    Signals, Values, Ops, Effect, MaxBatch, NoCall,   \* as in AtomicUpdates
    Zero,         \* the word memset leaves
    MaxSequence   \* UINT64_MAX: where the sequence words end

ASSUME MailboxEffect == Effect \in [Ops -> [Values -> Values]]
ASSUME ZeroAssumption == Zero \in Values
ASSUME MailboxBatch == MaxBatch \in Nat \ {0}
ASSUME SequenceAssumption == MaxSequence \in Nat \ {0}
ASSUME NoCallAssumption ==
    NoCall \notin [signal : Signals, batch : UNION {[1..n -> Ops] : n \in 1..MaxBatch}]

VARIABLES
    \* mailbox words (signal_mailbox_layout.h)
    reqSeq, compSeq, ready, abort, state, slot, requests, results,
    value,                   \* the signal arena
    \* the resident kernel: program counter and registers
    gpc, gseq, job, gi, gold,
    \* the CPU: program counter, entry point, the word await() polls and saw
    pc, task, awaiting, observed,
    sequence, failed,        \* SignalMailboxClient
    handle, faulted, healthy, stopWorker, backingFreed,   \* GPUSignalService::State
    oneshot,                 \* the fallback's dispatch on the reserved queue
    dead, call, reply,       \* GPUSignalContext::faulted; the call; its result
    olds                     \* history: old values of the call's applied updates

wordVars    == <<reqSeq, compSeq, ready, abort, state, slot, requests, results>>
kernelVars  == <<gpc, gseq, job, gi, gold>>
awaitVars   == <<awaiting, observed>>
sequenceVars  == <<sequence, failed>>
serviceVars == <<handle, faulted, healthy, stopWorker, backingFreed>>
callVars    == <<dead, call, reply>>
mailboxVars == <<wordVars, value, kernelVars, pc, task, awaitVars, sequenceVars,
          serviceVars, oneshot, callVars, olds>>

Batches == UNION {[1..n -> Ops] : n \in 1..MaxBatch}
Calls == [signal : Signals, batch : Batches]
Failed == [ok |-> FALSE]
Success(vs) == [ok |-> TRUE, olds |-> vs]
Cleared == [i \in 1..MaxBatch |-> Zero]
NoJob == [slot |-> NoCall, count |-> 0]

MailboxInit ==
    /\ reqSeq = 0 /\ compSeq = 0 /\ ready = 0 /\ abort = FALSE /\ state = 0
    /\ slot = NoCall /\ requests = << >> /\ results = Cleared
    /\ value \in [Signals -> Values]
    /\ gpc = "none" /\ gseq = 0 /\ job = NoJob /\ gi = 0 /\ gold = Zero
    /\ pc = "idle" /\ task = "none" /\ awaiting = "ready" /\ observed = 0
    /\ sequence = 0 /\ failed = FALSE
    /\ handle = FALSE /\ faulted = FALSE /\ healthy = FALSE
    /\ stopWorker = FALSE /\ backingFreed = FALSE
    /\ oneshot = "none"
    /\ dead = FALSE /\ call = NoCall /\ reply = Failed /\ olds = << >>

-----------------------------------------------------------------------------
(***************************************************************************)
(* The service kernel.                                                     *)
(***************************************************************************)
cpuVars == <<pc, task, awaitVars, sequenceVars, serviceVars, oneshot, callVars>>

KernelReady ==
    /\ gpc = "launched"
    /\ ready' = 1 /\ gseq' = 1 /\ gpc' = "poll"
    /\ UNCHANGED <<reqSeq, compSeq, abort, state, slot, requests, results, value,
                   job, gi, gold, cpuVars, olds>>

\* One turn of the polling loop: the request word, then the abort word.
KernelPoll ==
    /\ gpc = "poll"
    /\ gpc' = IF reqSeq = gseq THEN "claim" ELSE "polled"
    /\ UNCHANGED <<wordVars, value, gseq, job, gi, gold, cpuVars, olds>>

\* expired: this was the last of max_attempts.
KernelPolled(expired) ==
    /\ gpc = "polled"
    /\ gpc' = IF abort THEN "stopped" ELSE IF expired THEN "cancelled" ELSE "poll"
    /\ UNCHANGED <<wordVars, value, gseq, job, gi, gold, cpuVars, olds>>

\* A request was acquired: last look at abort, then its slot and count.
KernelClaim ==
    /\ gpc = "claim"
    /\ job' = [slot |-> slot, count |-> Len(requests)]
    /\ gi' = 1
    /\ gpc' = IF abort THEN "stopped"
              ELSE IF slot \in Signals /\ Len(requests) \in 1..MaxBatch
                THEN "apply" ELSE "invalid"
    /\ UNCHANGED <<wordVars, value, gseq, gold, cpuVars, olds>>

\* The native atomic update of the signal.
KernelApply ==
    /\ gpc = "apply"
    /\ gold' = value[job.slot]
    /\ value' = [value EXCEPT ![job.slot] = Effect[requests[gi]][value[job.slot]]]
    /\ olds' = Append(olds, value[job.slot])
    /\ gpc' = "store"
    /\ UNCHANGED <<wordVars, gseq, job, gi, cpuVars>>

KernelStore ==
    /\ gpc = "store"
    /\ results' = [results EXCEPT ![gi] = gold]
    /\ gi' = gi + 1
    /\ gpc' = IF gi = job.count THEN "complete" ELSE "apply"
    /\ UNCHANGED <<reqSeq, compSeq, ready, abort, state, slot, requests, value,
                   gseq, job, gold, cpuVars, olds>>

\* ++sequence is a 64-bit increment: after the last one the kernel stops.
KernelComplete ==
    /\ gpc = "complete"
    /\ compSeq' = gseq
    /\ gseq' = (gseq + 1) % (MaxSequence + 1)
    /\ gpc' = IF gseq = MaxSequence THEN "stopped" ELSE "poll"
    /\ UNCHANGED <<reqSeq, ready, abort, state, slot, requests, results, value,
                   job, gi, gold, cpuVars, olds>>

KernelExit ==
    /\ gpc \in {"stopped", "cancelled", "invalid"}
    /\ state' = CASE gpc = "stopped" -> 1 [] gpc = "cancelled" -> 2
                  [] gpc = "invalid" -> 3
    /\ gpc' = "ending"
    /\ UNCHANGED <<reqSeq, compSeq, ready, abort, slot, requests, results, value,
                   gseq, job, gi, gold, cpuVars, olds>>

\* The dispatch ends: the packet processor writes its completion signal.
KernelEnd ==
    /\ gpc = "ending"
    /\ gpc' = "done"
    /\ UNCHANGED <<wordVars, value, gseq, job, gi, gold, cpuVars, olds>>

Kernel ==
    \/ KernelReady \/ KernelPoll \/ (\E expired \in BOOLEAN : KernelPolled(expired))
    \/ KernelClaim \/ KernelApply \/ KernelStore \/ KernelComplete
    \/ KernelExit \/ KernelEnd

-----------------------------------------------------------------------------
(***************************************************************************)
(* GPUSignalContext::execute and GPUSignalService::execute.                *)
(***************************************************************************)
\* An accepted call.  The context issues single updates; batches come from
\* direct users of a mailbox that is already running.
Execute(c) ==
    /\ pc = "idle" /\ ~dead /\ ~faulted /\ ~stopWorker
    /\ handle \/ Len(c.batch) = 1
    /\ call' = c /\ olds' = << >>
    /\ task' = "execute"
    /\ pc' = IF handle THEN "fill" ELSE "start"
    /\ UNCHANGED <<wordVars, value, kernelVars, awaitVars, sequenceVars,
                   serviceVars, oneshot, dead, reply>>

\* The service is broken or stopping: the context fails.
ExecuteRefused ==
    /\ pc = "idle" /\ ~dead /\ (faulted \/ stopWorker)
    /\ dead' = TRUE /\ reply' = Failed
    /\ UNCHANGED <<wordVars, value, kernelVars, pc, task, awaitVars, sequenceVars,
                   serviceVars, oneshot, call, olds>>

\* start(): no storage or no queue slot.  Nothing was published, so the
\* reserved queue may do the update.
StartUnavailable ==
    /\ pc = "start"
    /\ pc' = "oneshot" /\ oneshot' = "queued"
    /\ UNCHANGED <<wordVars, value, kernelVars, task, awaitVars, sequenceVars,
                   serviceVars, callVars, olds>>

\* start(): the queue may or may not be mapped; no kernel was published.
StartFails ==
    /\ pc = "start"
    /\ faulted' = TRUE /\ dead' = TRUE /\ reply' = Failed
    /\ pc' = "idle"
    /\ UNCHANGED <<wordVars, value, kernelVars, task, awaitVars, sequenceVars,
                   handle, healthy, stopWorker, backingFreed, oneshot, call, olds>>

\* start(): clear the mailbox, create the queue, publish the dispatch, ring.
StartQueue(kicked) ==
    /\ pc = "start"
    /\ reqSeq' = 0 /\ compSeq' = 0 /\ ready' = 0 /\ abort' = FALSE /\ state' = 0
    /\ slot' = NoCall /\ requests' = << >> /\ results' = Cleared
    /\ sequence' = 0 /\ failed' = FALSE
    /\ handle' = TRUE
    /\ gpc' = "launched"
    /\ IF kicked THEN pc' = "await" /\ faulted' = faulted
                 ELSE pc' = "retire" /\ faulted' = TRUE
    /\ awaiting' = "ready"
    /\ UNCHANGED <<value, gseq, job, gi, gold, task, observed, healthy,
                   stopWorker, backingFreed, oneshot, callVars, olds>>

-----------------------------------------------------------------------------
(***************************************************************************)
(* SignalMailboxClient.                                                    *)
(***************************************************************************)
\* After any result but Success the service is faulted and retires its queue.
FailCall ==
    /\ faulted' = TRUE
    /\ pc' = "retire"
    /\ UNCHANGED <<reqSeq, compSeq, ready, state, slot, requests, results, value,
                   kernelVars, task, awaitVars, sequence, handle, healthy,
                   stopWorker, backingFreed, oneshot, callVars, olds>>

\* execute() refuses when no next sequence number exists (InvalidArgument), or
\* cancels when the completion word is not the last one this client asked for.
FillRefused ==
    /\ pc = "fill"
    /\ compSeq # sequence \/ sequence = MaxSequence
    /\ failed' = (failed \/ sequence # MaxSequence)
    /\ abort' = (abort \/ sequence # MaxSequence)
    /\ FailCall

\* Slot, operations and count are written before the sequence is released.
Fill ==
    /\ pc = "fill"
    /\ compSeq = sequence /\ sequence # MaxSequence
    /\ slot' = call.signal /\ requests' = call.batch
    /\ pc' = "publish"
    /\ UNCHANGED <<reqSeq, compSeq, ready, abort, state, results, value,
                   kernelVars, task, awaitVars, sequenceVars, serviceVars, oneshot,
                   callVars, olds>>

Publish ==
    /\ pc = "publish"
    /\ sequence' = sequence + 1 /\ reqSeq' = sequence + 1
    /\ awaiting' = "completion"
    /\ pc' = "await"
    /\ UNCHANGED <<compSeq, ready, abort, state, slot, requests, results, value,
                   kernelVars, task, observed, failed, serviceVars, oneshot,
                   callVars, olds>>

\* await(): load the polled word, then look at it, at STATE and at the clock.
Expected == IF awaiting = "ready" THEN 1 ELSE sequence

AwaitLoad ==
    /\ pc = "await"
    /\ observed' = IF awaiting = "ready" THEN ready ELSE compSeq
    /\ pc' = "look"
    /\ UNCHANGED <<wordVars, value, kernelVars, task, awaiting, sequenceVars,
                   serviceVars, oneshot, callVars, olds>>

AwaitSuccess ==
    /\ pc = "look" /\ observed = Expected
    /\ pc' = IF awaiting = "ready" THEN "fill" ELSE "collect"
    /\ UNCHANGED <<wordVars, value, kernelVars, task, awaitVars, sequenceVars,
                   serviceVars, oneshot, callVars, olds>>

AwaitAgain ==
    /\ pc = "look" /\ observed < Expected /\ ~failed /\ state < 2
    /\ pc' = "await"
    /\ UNCHANGED <<wordVars, value, kernelVars, task, awaitVars, sequenceVars,
                   serviceVars, oneshot, callVars, olds>>

Cancel == failed' = TRUE /\ abort' = TRUE

\* Mutant: waits for the kernel without a deadline.
AwaitFailsOnState ==
    /\ pc = "look" /\ observed # Expected
    /\ failed \/ state >= 2 \/ observed > Expected
    /\ Cancel /\ FailCall

\* Failed (the kernel gave up), SequenceError or Timeout.
AwaitFails ==
    /\ pc = "look" /\ observed # Expected
    /\ Cancel /\ FailCall

Collect ==
    /\ pc = "collect"
    /\ reply' = Success([i \in 1 .. Len(call.batch) |-> results[i]])
    /\ call' = NoCall
    /\ pc' = "idle"
    /\ UNCHANGED <<wordVars, value, kernelVars, task, awaitVars, sequenceVars,
                   serviceVars, oneshot, dead, olds>>

-----------------------------------------------------------------------------
(***************************************************************************)
(* retire(), reached from a failed call, the idle worker, reclaim() before *)
(* a public queue is created, and shutdown().                              *)
(***************************************************************************)
BeginRetire(who) ==
    /\ pc = "idle" /\ handle
    /\ who = "idle" => ~faulted /\ ~stopWorker
    /\ who = "reclaim" => ~backingFreed
    /\ who = "shutdown" => ~backingFreed
    /\ stopWorker' = (stopWorker \/ who = "shutdown")
    /\ task' = who
    /\ pc' = "retire"
    /\ UNCHANGED <<wordVars, value, kernelVars, awaitVars, sequenceVars, handle,
                   faulted, healthy, backingFreed, oneshot, callVars, olds>>

RetireCancel ==
    /\ pc = "retire"
    /\ Cancel
    /\ pc' = "drain"
    /\ UNCHANGED <<reqSeq, compSeq, ready, state, slot, requests, results, value,
                   kernelVars, task, awaitVars, sequence, serviceVars, oneshot,
                   callVars, olds>>

\* The completion signal reached zero, or the deadline passed, or the driver
\* reported the queue inactive.
Drained(ok) ==
    /\ pc = "drain"
    /\ ok => gpc = "done"
    /\ healthy' = ok
    /\ pc' = "destroy"
    /\ UNCHANGED <<wordVars, value, kernelVars, task, awaitVars, sequenceVars,
                   handle, faulted, stopWorker, backingFreed, oneshot, callVars, olds>>

\* Mutant: a failed call is done again on the reserved queue.
AfterRetireRetries(clean) ==
    /\ pc' = CASE task = "execute" -> "oneshot" [] task = "shutdown" -> "release"
               [] OTHER -> "idle"
    /\ oneshot' = IF task = "execute" THEN "queued" ELSE oneshot
    /\ dead' = (dead \/ (task = "reclaim" /\ ~clean))
    /\ reply' = IF task = "reclaim" /\ ~clean /\ ~dead THEN Failed ELSE reply

\* Where retire() returns to.
AfterRetire(clean) ==
    /\ pc' = IF task = "shutdown" THEN "release" ELSE "idle"
    /\ dead' = (dead \/ task = "execute" \/ (task = "reclaim" /\ ~clean))
    /\ reply' = IF dead' /\ ~dead THEN Failed ELSE reply
    /\ UNCHANGED oneshot

\* destroyQueue: a confirmed unmap ends the kernel wherever it is.
Destroy(ok) ==
    /\ pc = "destroy"
    /\ handle' = ~ok
    /\ gpc' = IF ok THEN "none" ELSE gpc
    /\ faulted' = (faulted \/ ~ok \/ ~healthy)
    /\ AfterRetire(ok /\ healthy /\ ~faulted)
    /\ UNCHANGED <<wordVars, value, gseq, job, gi, gold, task, awaitVars,
                   sequenceVars, healthy, stopWorker, backingFreed, call, olds>>

\* reclaim() or shutdown() with no queue to retire.
NothingToRetire(who) ==
    /\ pc = "idle" /\ ~handle /\ ~backingFreed
    /\ stopWorker' = (stopWorker \/ who = "shutdown")
    /\ task' = who
    /\ pc' = IF who = "shutdown" THEN "release" ELSE "idle"
    /\ dead' = (dead \/ (who = "reclaim" /\ faulted))
    /\ reply' = IF dead' /\ ~dead THEN Failed ELSE reply
    /\ UNCHANGED <<wordVars, value, kernelVars, awaitVars, sequenceVars, handle,
                   faulted, healthy, backingFreed, oneshot, call, olds>>

\* Mutant: frees the backing whatever retire() said.
ReleaseAnyway(ok) ==
    /\ pc = "release"
    /\ pc' = "idle"
    /\ backingFreed' = TRUE
    /\ faulted' = (faulted \/ ~ok)
    /\ UNCHANGED <<wordVars, value, kernelVars, task, awaitVars, sequenceVars,
                   handle, healthy, stopWorker, oneshot, callVars, olds>>

\* shutdown(): a fault keeps every buffer; one free call may fail.
Release(ok) ==
    /\ pc = "release"
    /\ pc' = "idle"
    /\ backingFreed' = ~faulted
    /\ faulted' = (faulted \/ ~ok)
    /\ UNCHANGED <<wordVars, value, kernelVars, task, awaitVars, sequenceVars,
                   handle, healthy, stopWorker, oneshot, callVars, olds>>

-----------------------------------------------------------------------------
(***************************************************************************)
(* The one-shot fallback: a dispatch on the reserved queue.                *)
(***************************************************************************)
OneShotApply ==
    /\ oneshot = "queued"
    /\ LET s == call.signal IN
         /\ value' = [value EXCEPT ![s] = Effect[call.batch[1]][value[s]]]
         /\ olds' = Append(olds, value[s])
    /\ oneshot' = "done"
    /\ UNCHANGED <<wordVars, kernelVars, pc, task, awaitVars, sequenceVars,
                   serviceVars, callVars>>

OneShotReturn ==
    /\ pc = "oneshot" /\ oneshot = "done"
    /\ reply' = Success(olds) /\ call' = NoCall
    /\ oneshot' = "none"
    /\ pc' = "idle"
    /\ UNCHANGED <<wordVars, value, kernelVars, task, awaitVars, sequenceVars,
                   serviceVars, dead, olds>>

\* The dispatch was refused, or did not complete in time and stays queued.
OneShotFails(queued) ==
    /\ pc = "oneshot"
    /\ queued \/ oneshot = "queued"
    /\ oneshot' = IF queued THEN oneshot ELSE "none"
    /\ dead' = TRUE /\ reply' = Failed
    /\ pc' = "idle"
    /\ UNCHANGED <<wordVars, value, kernelVars, task, awaitVars, sequenceVars,
                   serviceVars, call, olds>>

CPU ==
    \/ \E c \in Calls : Execute(c)
    \/ ExecuteRefused
    \/ StartUnavailable \/ StartFails
    \/ \E kicked \in BOOLEAN : StartQueue(kicked)
    \/ FillRefused \/ Fill \/ Publish
    \/ AwaitLoad \/ AwaitSuccess \/ AwaitAgain \/ AwaitFails \/ Collect
    \/ \E who \in {"idle", "reclaim", "shutdown"} : BeginRetire(who)
    \/ \E who \in {"reclaim", "shutdown"} : NothingToRetire(who)
    \/ RetireCancel
    \/ \E ok \in BOOLEAN : Drained(ok) \/ Destroy(ok) \/ Release(ok)
    \/ OneShotReturn
    \/ \E queued \in BOOLEAN : OneShotFails(queued)

MailboxNext == Kernel \/ CPU \/ OneShotApply

MailboxSpec == MailboxInit /\ [][MailboxNext]_mailboxVars

\* Steps that finish what the CPU side began; none of them is a new call.
CPUStep == pc # "idle" /\ CPU
\* A wave that runs keeps running; one that was never started need not.
KernelStep == gpc # "launched" /\ Kernel

(***************************************************************************)
(* The thread that holds the mutex keeps running and its clock passes      *)
(* every deadline, so a wait that finds nothing cannot find nothing for    *)
(* ever.  Nothing is assumed of the GPU.                                   *)
(***************************************************************************)
CPUFairness == WF_mailboxVars(CPUStep) /\ SF_mailboxVars(AwaitFails)

-----------------------------------------------------------------------------
(***************************************************************************)
(* Properties.                                                             *)
(***************************************************************************)
\* Every variable keeps its type.
MailboxTypeOK ==
    /\ reqSeq \in 0..MaxSequence /\ compSeq \in 0..MaxSequence
    /\ ready \in 0..1 /\ abort \in BOOLEAN /\ state \in 0..3
    /\ slot \in Signals \cup {NoCall} /\ requests \in Batches \cup {<< >>}
    /\ results \in [1..MaxBatch -> Values]
    /\ value \in [Signals -> Values]
    /\ gpc \in {"none", "launched", "poll", "polled", "claim", "apply", "store",
                "complete", "stopped", "cancelled", "invalid", "ending", "done"}
    /\ gseq \in 0..MaxSequence /\ gi \in 0 .. MaxBatch + 1 /\ gold \in Values
    /\ job \in [slot : Signals \cup {NoCall}, count : 0..MaxBatch]
    /\ pc \in {"idle", "start", "fill", "publish", "await", "look", "collect",
               "retire", "drain", "destroy", "release", "oneshot"}
    /\ task \in {"none", "execute", "idle", "reclaim", "shutdown"}
    /\ awaiting \in {"ready", "completion"} /\ observed \in 0..MaxSequence
    /\ sequence \in 0..MaxSequence /\ failed \in BOOLEAN
    /\ handle \in BOOLEAN /\ faulted \in BOOLEAN /\ healthy \in BOOLEAN
    /\ stopWorker \in BOOLEAN /\ backingFreed \in BOOLEAN
    /\ oneshot \in {"none", "queued", "done"}
    /\ dead \in BOOLEAN /\ call \in Calls \cup {NoCall}
    /\ olds \in Seq(Values)

\* Request and result words belong to one side at a time: while the kernel
\* works on a request the CPU has published exactly that request and touches
\* nothing, and what the CPU collects are the old values of its own call.
WordsOwned ==
    /\ gpc \in {"claim", "apply", "store", "complete"} =>
         /\ gseq = sequence /\ reqSeq = sequence
         /\ pc \notin {"start", "fill", "publish", "collect", "oneshot"}
         /\ call # NoCall /\ slot = call.signal /\ requests = call.batch
    /\ pc = "collect" =>
         olds = [i \in 1 .. Len(call.batch) |-> results[i]]

\* Neither side ever sees a sequence it did not expect: the SequenceError and
\* invalid exits of the protocol are unreachable.
InStep ==
    /\ compSeq <= sequence /\ reqSeq <= sequence
    /\ pc = "fill" => compSeq = sequence
    /\ pc = "look" => observed <= Expected
    /\ gpc # "invalid" /\ state # 3

\* The service's buffers are freed only when no kernel can touch them.
BackingRetained == backingFreed => gpc = "none" /\ ~handle

\* The shared page, the sequence numbers and the storage are each one side's at a time, whatever the
\* resident kernel and gpu_signal_service.cpp do in between.
MailboxSafe == MailboxTypeOK /\ WordsOwned /\ InStep /\ BackingRetained

\* The signal path implements atomic updates that happen at most once, and
\* exactly once with the right old values when a call succeeds, through
\* kernel, fallback, cancellation, restart and late kernels.
Updates == INSTANCE AtomicUpdates
ImplementsAtomicUpdates == Updates!Spec

\* Every call, reclaim and shutdown returns although the GPU may stall.
CallReturns == pc # "idle" ~> pc = "idle"

\* A started kernel that is told to stop does stop, if a resident wave is
\* eventually scheduled.
KernelStops ==
    WF_mailboxVars(KernelStep) =>
      (abort /\ gpc \notin {"none", "launched"} ~> gpc \in {"none", "done"})

\* Neither side waits for ever for the other.
MailboxLive == CallReturns /\ KernelStops
=============================================================================
