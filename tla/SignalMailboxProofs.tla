------------------------ MODULE SignalMailboxProofs ------------------------
(***************************************************************************)
(* Proofs about SignalMailbox, for every arena, set of values and          *)
(* operations, batch size and length of the sequence words: the invariant  *)
(* MailboxSafe, and that the signal path implements AtomicUpdates.         *)
(*                                                                         *)
(* The argument is ownership.  A request is pending from the release of    *)
(* its sequence number to the kernel's completion word; while one is, the  *)
(* CPU writes no request word and starts no kernel, because the call that  *)
(* published it either still waits or failed and faulted the service for   *)
(* good.  So the kernel's registers and the history of applied updates     *)
(* agree word by word, and a late kernel or a late fallback has at most    *)
(* the rest of one call left to apply.                                     *)
(***************************************************************************)
EXTENDS SignalMailbox, TLAPS

-----------------------------------------------------------------------------
(***************************************************************************)
(* The inductive invariant.                                                *)
(***************************************************************************)
Working == {"claim", "apply", "store", "complete"}
Active  == {"fill", "publish", "await", "look", "collect"}
Retiring == {"retire", "drain", "destroy"}

\* A request was published that the kernel has not completed.
Pending == sequence # compSeq

\* The first n updates of the call took effect and their old values are in
\* the result words.
Returned(n) == Len(olds) >= n /\ \A i \in 1..n : results[i] = olds[i]

\* The service's queue, its kernel and its fault state.
QueueState ==
    /\ handle <=> gpc # "none"
    /\ abort <=> failed
    /\ backingFreed => ~handle /\ stopWorker
    /\ pc = "release" => stopWorker /\ (faulted \/ ~handle)
    /\ pc \in Active \cup Retiring => handle
    /\ pc \in {"drain", "destroy"} => abort
    /\ abort => ~handle \/ faulted \/ pc \in {"drain", "destroy"}
    /\ pc \in Retiring /\ task = "shutdown" => stopWorker

\* A call is in one of the call's steps, or it failed and is never forgotten.
CallState ==
    /\ pc \in Active \cup {"start", "oneshot"} =>
         call # NoCall /\ ~dead /\ ~faulted /\ ~stopWorker
    /\ pc \in Active \cup {"start"} => task = "execute"
    /\ pc = "idle" => call = NoCall \/ dead
    /\ pc = "release" => call = NoCall \/ dead
    /\ pc \in Retiring => call = NoCall \/ dead \/ (task = "execute" /\ faulted)

\* The fallback runs only where no kernel can be, and at most once.
FallbackState ==
    /\ pc \in {"start", "oneshot"} => ~handle /\ Len(call.batch) = 1
    /\ pc \in {"start", "fill", "publish"} => olds = << >>
    /\ pc = "oneshot" => oneshot # "none"
    /\ oneshot # "none" => ~handle /\ call # NoCall /\ (pc = "oneshot" \/ dead)
    /\ oneshot = "queued" => olds = << >> /\ Len(call.batch) = 1
    /\ oneshot = "done" => Len(olds) = 1

\* The sequence words and the kernel's register.
SequenceState ==
    /\ reqSeq = sequence
    /\ sequence \in {compSeq, compSeq + 1}
    /\ gpc = "launched" =>
         /\ sequence = 0 /\ ready = 0
         /\ faulted \/ (pc \in {"await", "look"} /\ awaiting = "ready")
         /\ pc = "look" => observed = 0
    /\ gpc \in Working \cup {"poll", "polled"} => gseq = compSeq + 1
    /\ gpc \in Working => Pending
    /\ pc = "publish" => sequence # MaxSequence
    /\ pc \in {"await", "look"} /\ awaiting = "ready" => sequence = 0 /\ olds = << >>
    /\ pc = "look" => observed <= IF awaiting = "ready" THEN 1 ELSE compSeq
    /\ state # 3 /\ gpc # "invalid"

\* A pending request is the call's, and nothing else is published while it is.
RequestState ==
    /\ Pending =>
         /\ faulted \/ (pc \in {"await", "look"} /\ awaiting = "completion")
         /\ call # NoCall /\ slot = call.signal /\ requests = call.batch
    /\ Pending /\ gpc \in {"poll", "polled", "claim"} => olds = << >>
    /\ pc = "publish" => slot = call.signal /\ requests = call.batch

\* Where the kernel is in the batch, and what it has written back.
ResultState ==
    /\ gpc \in {"apply", "store", "complete"} =>
         job.slot = call.signal /\ job.count = Len(call.batch)
    /\ gpc = "apply" => gi \in 1 .. job.count /\ Len(olds) = gi - 1 /\ Returned(gi - 1)
    /\ gpc = "store" =>
         /\ gi \in 1 .. job.count /\ Len(olds) = gi
         /\ olds[gi] = gold /\ Returned(gi - 1)
    /\ gpc = "complete" => Len(olds) = job.count /\ Returned(job.count)
    /\ pc = "collect" \/ (pc \in {"await", "look"} /\ awaiting = "completion") =>
         Pending \/ (Len(olds) = Len(call.batch) /\ Returned(Len(call.batch)))
    /\ pc = "collect" => ~Pending

\* The inductive invariant.
MailboxInv ==
    /\ MailboxTypeOK /\ QueueState /\ CallState /\ FallbackState
    /\ SequenceState /\ RequestState /\ ResultState

-----------------------------------------------------------------------------
(***************************************************************************)
(* Every step keeps the invariant, action by action.                       *)
(***************************************************************************)
\* A batch is a sequence of 1 .. MaxBatch operations.
LEMMA BatchType ==
    \A b \in Batches : b \in Seq(Ops) /\ Len(b) \in 1..MaxBatch
                          /\ DOMAIN b = 1 .. Len(b) /\ \A i \in 1 .. Len(b) : b[i] \in Ops
<1>1. SUFFICES ASSUME NEW b \in Batches
      PROVE  b \in Seq(Ops) /\ Len(b) \in 1..MaxBatch
                          /\ DOMAIN b = 1 .. Len(b) /\ \A i \in 1 .. Len(b) : b[i] \in Ops
  OBVIOUS
<1>2. PICK n \in 1..MaxBatch : b \in [1..n -> Ops]
  BY DEF Batches
<1>3. n \in Nat
  BY <1>2, MailboxBatch
<1>4. b \in Seq(Ops) /\ Len(b) = n
  BY <1>2, <1>3
<1>5. QED
  BY <1>2, <1>3, <1>4

\* The mark for "no call" is not a call.
LEMMA NoCallApart == NoCall \notin Calls
  BY NoCallAssumption DEF Calls, Batches

\* An operation takes values to values.
LEMMA EffectType ==
    \A op \in Ops, v \in Values : Effect[op][v] \in Values
  BY MailboxEffect

\* The kernel announces itself and waits for request 1.
LEMMA KernelReadyInv == ASSUME MailboxInv, KernelReady PROVE MailboxInv'
<1>1. MailboxTypeOK'
  BY SequenceAssumption DEF MailboxInv, MailboxTypeOK, KernelReady, cpuVars, awaitVars,
     sequenceVars, serviceVars, callVars
<1>2. QueueState'
  BY DEF MailboxInv, QueueState, Active, Retiring, KernelReady, cpuVars, awaitVars,
     sequenceVars, serviceVars, callVars
<1>3. CallState'
  BY DEF MailboxInv, CallState, Active, Retiring, KernelReady, cpuVars, awaitVars,
     sequenceVars, serviceVars, callVars
<1>4. FallbackState'
  BY DEF MailboxInv, FallbackState, KernelReady, cpuVars, awaitVars, sequenceVars,
     serviceVars, callVars
<1>5. SequenceState'
  BY DEF MailboxInv, MailboxTypeOK, SequenceState, Working, Pending, KernelReady, cpuVars,
     awaitVars, sequenceVars, serviceVars, callVars
<1>6. RequestState'
  BY DEF MailboxInv, MailboxTypeOK, SequenceState, RequestState, Working, Pending, KernelReady,
     cpuVars, awaitVars, sequenceVars, serviceVars, callVars
<1>7. ResultState'
  BY DEF MailboxInv, ResultState, Pending, Returned, KernelReady, cpuVars, awaitVars,
     sequenceVars, serviceVars, callVars
<1>8. QED
  BY <1>1, <1>2, <1>3, <1>4, <1>5, <1>6, <1>7 DEF MailboxInv

\* The kernel looks at the request word.
LEMMA KernelPollInv == ASSUME MailboxInv, KernelPoll PROVE MailboxInv'
<1>1. MailboxTypeOK'
  BY DEF MailboxInv, MailboxTypeOK, KernelPoll, wordVars, cpuVars, awaitVars, sequenceVars,
     serviceVars, callVars
<1>2. QueueState'
  BY DEF MailboxInv, QueueState, Active, Retiring, KernelPoll, wordVars, cpuVars,
     awaitVars, sequenceVars, serviceVars, callVars
<1>3. CallState'
  BY DEF MailboxInv, CallState, Active, Retiring, KernelPoll, wordVars, cpuVars,
     awaitVars, sequenceVars, serviceVars, callVars
<1>4. FallbackState'
  BY DEF MailboxInv, FallbackState, KernelPoll, wordVars, cpuVars, awaitVars,
     sequenceVars, serviceVars, callVars
<1>5. SequenceState'
  BY DEF MailboxInv, MailboxTypeOK, SequenceState, Working, Pending, KernelPoll, wordVars,
     cpuVars, awaitVars, sequenceVars, serviceVars, callVars
<1>6. RequestState'
  BY DEF MailboxInv, RequestState, Pending, KernelPoll, wordVars, cpuVars, awaitVars,
     sequenceVars, serviceVars, callVars
<1>7. ResultState'
  BY DEF MailboxInv, ResultState, Pending, Returned, KernelPoll, wordVars, cpuVars,
     awaitVars, sequenceVars, serviceVars, callVars
<1>8. QED
  BY <1>1, <1>2, <1>3, <1>4, <1>5, <1>6, <1>7 DEF MailboxInv

\* The kernel looks at the abort word and at its attempts.
LEMMA KernelPolledInv ==
    ASSUME NEW expired \in BOOLEAN, MailboxInv, KernelPolled(expired)
    PROVE  MailboxInv'
<1>1. MailboxTypeOK'
  BY DEF MailboxInv, MailboxTypeOK, KernelPolled, wordVars, cpuVars, awaitVars, sequenceVars,
     serviceVars, callVars
<1>2. QueueState'
  BY DEF MailboxInv, QueueState, Active, Retiring, KernelPolled, wordVars, cpuVars,
     awaitVars, sequenceVars, serviceVars, callVars
<1>3. CallState'
  BY DEF MailboxInv, CallState, Active, Retiring, KernelPolled, wordVars, cpuVars,
     awaitVars, sequenceVars, serviceVars, callVars
<1>4. FallbackState'
  BY DEF MailboxInv, FallbackState, KernelPolled, wordVars, cpuVars, awaitVars,
     sequenceVars, serviceVars, callVars
<1>5. SequenceState'
  BY DEF MailboxInv, SequenceState, Working, Pending, KernelPolled, wordVars, cpuVars,
     awaitVars, sequenceVars, serviceVars, callVars
<1>6. RequestState'
  BY DEF MailboxInv, RequestState, Pending, KernelPolled, wordVars, cpuVars, awaitVars,
     sequenceVars, serviceVars, callVars
<1>7. ResultState'
  BY DEF MailboxInv, ResultState, Pending, Returned, KernelPolled, wordVars, cpuVars,
     awaitVars, sequenceVars, serviceVars, callVars
<1>8. QED
  BY <1>1, <1>2, <1>3, <1>4, <1>5, <1>6, <1>7 DEF MailboxInv

\* A request the kernel acquires is the published one, whole and valid.
LEMMA KernelClaimInv == ASSUME MailboxInv, KernelClaim PROVE MailboxInv'
<1>1. MailboxTypeOK'
  BY BatchType, MailboxBatch DEF MailboxInv, MailboxTypeOK, KernelClaim, wordVars, cpuVars,
     awaitVars, sequenceVars, serviceVars, callVars
<1>2. QueueState'
  BY DEF MailboxInv, QueueState, Active, Retiring, KernelClaim, wordVars, cpuVars,
     awaitVars, sequenceVars, serviceVars, callVars
<1>3. CallState'
  BY DEF MailboxInv, CallState, Active, Retiring, KernelClaim, wordVars, cpuVars,
     awaitVars, sequenceVars, serviceVars, callVars
<1>4. FallbackState'
  BY DEF MailboxInv, FallbackState, KernelClaim, wordVars, cpuVars, awaitVars,
     sequenceVars, serviceVars, callVars
<1>5. SequenceState'
  <2>1. call \in Calls /\ slot = call.signal /\ requests = call.batch
    BY DEF MailboxInv, MailboxTypeOK, RequestState, SequenceState, Pending, Working, KernelClaim
  <2>2. slot \in Signals /\ Len(requests) \in 1..MaxBatch
    BY <2>1, BatchType DEF Calls
  <2>3. gpc' \in {"stopped", "apply"}
    BY <2>2 DEF KernelClaim
  <2>4. QED
    BY <2>3 DEF MailboxInv, MailboxTypeOK, SequenceState, Pending, Working, KernelClaim,
                wordVars, cpuVars, awaitVars, sequenceVars, serviceVars, callVars
<1>6. RequestState'
  BY DEF MailboxInv, RequestState, Pending, KernelClaim, wordVars, cpuVars, awaitVars,
     sequenceVars, serviceVars, callVars
<1>7. ResultState'
  BY DEF MailboxInv, SequenceState, RequestState, ResultState, Working, Pending,
     Returned, KernelClaim, wordVars, cpuVars, awaitVars, sequenceVars, serviceVars,
     callVars
<1>8. QED
  BY <1>1, <1>2, <1>3, <1>4, <1>5, <1>6, <1>7 DEF MailboxInv

\* The kernel applies the next update of the batch it claimed.
LEMMA KernelApplyInv == ASSUME MailboxInv, KernelApply PROVE MailboxInv'
<1>1. MailboxTypeOK'
  <2>1. call \in Calls /\ requests = call.batch /\ job.slot = call.signal
    BY DEF MailboxInv, MailboxTypeOK, SequenceState, RequestState, ResultState, Pending, Working,
           KernelApply
  <2>2. job.slot \in Signals /\ value[job.slot] \in Values
    BY <2>1 DEF MailboxInv, MailboxTypeOK, Calls
  <2>3. requests[gi] \in Ops
    BY <2>1, BatchType DEF MailboxInv, MailboxTypeOK, ResultState, KernelApply, Calls
  <2>4. Effect[requests[gi]][value[job.slot]] \in Values
    BY <2>2, <2>3, EffectType
  <2>5. value' \in [Signals -> Values]
    BY <2>4 DEF MailboxInv, MailboxTypeOK, KernelApply
  <2>6. olds' \in Seq(Values)
    BY <2>2 DEF MailboxInv, MailboxTypeOK, KernelApply
  <2>7. QED
    BY <2>2, <2>5, <2>6 DEF MailboxInv, MailboxTypeOK, KernelApply, wordVars, cpuVars, awaitVars, sequenceVars, serviceVars, callVars
<1>2. QueueState'
  BY DEF MailboxInv, QueueState, Active, Retiring, KernelApply, wordVars, cpuVars,
     awaitVars, sequenceVars, serviceVars, callVars
<1>3. CallState'
  BY DEF MailboxInv, CallState, Active, Retiring, KernelApply, wordVars, cpuVars,
     awaitVars, sequenceVars, serviceVars, callVars
<1>4. FallbackState'
  BY DEF MailboxInv, QueueState, CallState, FallbackState, SequenceState, RequestState,
     Active, Retiring, Working, Pending, KernelApply, wordVars, cpuVars, awaitVars,
     sequenceVars, serviceVars, callVars
<1>5. SequenceState'
  BY DEF MailboxInv, MailboxTypeOK, SequenceState, Working, Pending, KernelApply, wordVars,
     cpuVars, awaitVars, sequenceVars, serviceVars, callVars
<1>6. RequestState'
  BY DEF MailboxInv, RequestState, Pending, KernelApply, wordVars, cpuVars, awaitVars,
     sequenceVars, serviceVars, callVars
<1>7. ResultState'
  BY DEF MailboxInv, ResultState, Pending, Returned, KernelApply, wordVars, cpuVars,
     awaitVars, sequenceVars, serviceVars, callVars
<1>8. QED
  BY <1>1, <1>2, <1>3, <1>4, <1>5, <1>6, <1>7 DEF MailboxInv

\* It stores the old value in the result word of that update.
LEMMA KernelStoreInv == ASSUME MailboxInv, KernelStore PROVE MailboxInv'
<1>1. MailboxTypeOK'
  BY MailboxBatch DEF MailboxInv, MailboxTypeOK, ResultState, Pending, Returned, KernelStore,
     cpuVars, awaitVars, sequenceVars, serviceVars, callVars
<1>2. QueueState'
  BY DEF MailboxInv, QueueState, Active, Retiring, KernelStore, cpuVars, awaitVars,
     sequenceVars, serviceVars, callVars
<1>3. CallState'
  BY DEF MailboxInv, CallState, Active, Retiring, KernelStore, cpuVars, awaitVars,
     sequenceVars, serviceVars, callVars
<1>4. FallbackState'
  BY DEF MailboxInv, FallbackState, KernelStore, cpuVars, awaitVars, sequenceVars,
     serviceVars, callVars
<1>5. SequenceState'
  BY DEF MailboxInv, SequenceState, Working, Pending, KernelStore, cpuVars, awaitVars,
     sequenceVars, serviceVars, callVars
<1>6. RequestState'
  BY DEF MailboxInv, RequestState, Pending, KernelStore, cpuVars, awaitVars, sequenceVars,
     serviceVars, callVars
<1>7. ResultState'
  <2>1. /\ gi \in 1 .. job.count /\ job.count \in 0..MaxBatch
        /\ Len(olds) = gi /\ olds[gi] = gold /\ Returned(gi - 1)
    BY DEF MailboxInv, MailboxTypeOK, ResultState, KernelStore
  <2>2. /\ gi \in 1..MaxBatch /\ olds' = olds
        /\ results' = [results EXCEPT ![gi] = gold] /\ results \in [1..MaxBatch -> Values]
    BY <2>1, MailboxBatch DEF MailboxInv, MailboxTypeOK, KernelStore
  <2>3. \A i \in 1..gi : results'[i] = olds[i]
    BY <2>1, <2>2 DEF Returned
  <2>4. UNCHANGED <<job, call, pc, awaiting, sequence, compSeq, olds>>
    BY DEF KernelStore, cpuVars, awaitVars, sequenceVars, callVars
  <2>5. gpc' = (IF gi = job.count THEN "complete" ELSE "apply") /\ gi' = gi + 1
    BY DEF KernelStore
  <2>6. QED
    BY <2>1, <2>3, <2>4, <2>5 DEF MailboxInv, ResultState, Pending, Returned, KernelStore
<1>8. QED
  BY <1>1, <1>2, <1>3, <1>4, <1>5, <1>6, <1>7 DEF MailboxInv

\* It completes the request; the sequence register may reach its end.
LEMMA KernelCompleteInv == ASSUME MailboxInv, KernelComplete PROVE MailboxInv'
<1>1. MailboxTypeOK'
  BY SequenceAssumption DEF MailboxInv, MailboxTypeOK, KernelComplete, cpuVars, awaitVars,
     sequenceVars, serviceVars, callVars
<1>2. QueueState'
  BY DEF MailboxInv, QueueState, Active, Retiring, KernelComplete, cpuVars, awaitVars,
     sequenceVars, serviceVars, callVars
<1>3. CallState'
  BY DEF MailboxInv, CallState, Active, Retiring, KernelComplete, cpuVars, awaitVars,
     sequenceVars, serviceVars, callVars
<1>4. FallbackState'
  BY DEF MailboxInv, FallbackState, KernelComplete, cpuVars, awaitVars, sequenceVars,
     serviceVars, callVars
<1>5. SequenceState'
  <2>1. compSeq' = sequence /\ ~Pending'
    BY DEF MailboxInv, MailboxTypeOK, SequenceState, Pending, Working, KernelComplete, cpuVars, awaitVars, sequenceVars, serviceVars, callVars
  <2>2. gpc' = "poll" => gseq' = compSeq' + 1
    BY SequenceAssumption DEF MailboxInv, MailboxTypeOK, KernelComplete
  <2>3. gpc' \in {"poll", "stopped"}
    BY DEF KernelComplete
  <2>4. QED
    BY <2>1, <2>2, <2>3 DEF MailboxInv, MailboxTypeOK, SequenceState, Pending, Working,
                            KernelComplete, cpuVars, awaitVars, sequenceVars, serviceVars, callVars
<1>6. RequestState'
  BY DEF MailboxInv, SequenceState, RequestState, Working, Pending, KernelComplete,
     cpuVars, awaitVars, sequenceVars, serviceVars, callVars
<1>7. ResultState'
  BY DEF MailboxInv, SequenceState, ResultState, Working, Pending, Returned,
     KernelComplete, cpuVars, awaitVars, sequenceVars, serviceVars, callVars
<1>8. QED
  BY <1>1, <1>2, <1>3, <1>4, <1>5, <1>6, <1>7 DEF MailboxInv

\* The kernel writes why it stopped.
LEMMA KernelExitInv == ASSUME MailboxInv, KernelExit PROVE MailboxInv'
<1>1. MailboxTypeOK'
  BY DEF MailboxInv, MailboxTypeOK, KernelExit, cpuVars, awaitVars, sequenceVars, serviceVars,
     callVars
<1>2. QueueState'
  BY DEF MailboxInv, QueueState, Active, Retiring, KernelExit, cpuVars, awaitVars,
     sequenceVars, serviceVars, callVars
<1>3. CallState'
  BY DEF MailboxInv, CallState, Active, Retiring, KernelExit, cpuVars, awaitVars,
     sequenceVars, serviceVars, callVars
<1>4. FallbackState'
  BY DEF MailboxInv, FallbackState, KernelExit, cpuVars, awaitVars, sequenceVars,
     serviceVars, callVars
<1>5. SequenceState'
  BY DEF MailboxInv, SequenceState, Working, Pending, KernelExit, cpuVars, awaitVars,
     sequenceVars, serviceVars, callVars
<1>6. RequestState'
  BY DEF MailboxInv, RequestState, Pending, KernelExit, cpuVars, awaitVars, sequenceVars,
     serviceVars, callVars
<1>7. ResultState'
  BY DEF MailboxInv, ResultState, Pending, Returned, KernelExit, cpuVars, awaitVars,
     sequenceVars, serviceVars, callVars
<1>8. QED
  BY <1>1, <1>2, <1>3, <1>4, <1>5, <1>6, <1>7 DEF MailboxInv

\* The packet processor completes the dispatch.
LEMMA KernelEndInv == ASSUME MailboxInv, KernelEnd PROVE MailboxInv'
<1>1. MailboxTypeOK'
  BY DEF MailboxInv, MailboxTypeOK, KernelEnd, wordVars, cpuVars, awaitVars, sequenceVars,
     serviceVars, callVars
<1>2. QueueState'
  BY DEF MailboxInv, QueueState, Active, Retiring, KernelEnd, wordVars, cpuVars,
     awaitVars, sequenceVars, serviceVars, callVars
<1>3. CallState'
  BY DEF MailboxInv, CallState, Active, Retiring, KernelEnd, wordVars, cpuVars,
     awaitVars, sequenceVars, serviceVars, callVars
<1>4. FallbackState'
  BY DEF MailboxInv, FallbackState, KernelEnd, wordVars, cpuVars, awaitVars, sequenceVars,
     serviceVars, callVars
<1>5. SequenceState'
  BY DEF MailboxInv, SequenceState, Working, Pending, KernelEnd, wordVars, cpuVars,
     awaitVars, sequenceVars, serviceVars, callVars
<1>6. RequestState'
  BY DEF MailboxInv, RequestState, Pending, KernelEnd, wordVars, cpuVars, awaitVars,
     sequenceVars, serviceVars, callVars
<1>7. ResultState'
  BY DEF MailboxInv, ResultState, Pending, Returned, KernelEnd, wordVars, cpuVars,
     awaitVars, sequenceVars, serviceVars, callVars
<1>8. QED
  BY <1>1, <1>2, <1>3, <1>4, <1>5, <1>6, <1>7 DEF MailboxInv

\* A call is accepted only when the last one returned.
LEMMA ExecuteInv == ASSUME NEW c \in Calls, MailboxInv, Execute(c) PROVE MailboxInv'
<1>1. MailboxTypeOK'
  BY DEF MailboxInv, MailboxTypeOK, Execute, wordVars, kernelVars, awaitVars, sequenceVars,
     serviceVars
<1>2. QueueState'
  BY DEF MailboxInv, QueueState, Active, Retiring, Execute, wordVars, kernelVars,
     awaitVars, sequenceVars, serviceVars
<1>3. CallState'
  BY NoCallApart DEF MailboxInv, CallState, Active, Retiring, Execute, wordVars,
     kernelVars, awaitVars, sequenceVars, serviceVars
<1>4. FallbackState'
  BY DEF MailboxInv, FallbackState, Execute, wordVars, kernelVars, awaitVars,
     sequenceVars, serviceVars
<1>5. SequenceState'
  BY DEF MailboxInv, SequenceState, Working, Pending, Execute, wordVars, kernelVars,
     awaitVars, sequenceVars, serviceVars
<1>6. RequestState'
  BY DEF MailboxInv, RequestState, Pending, Execute, wordVars, kernelVars, awaitVars,
     sequenceVars, serviceVars
<1>7. ResultState'
  BY DEF MailboxInv, SequenceState, RequestState, ResultState, Working, Pending,
     Returned, Execute, wordVars, kernelVars, awaitVars, sequenceVars, serviceVars
<1>8. QED
  BY <1>1, <1>2, <1>3, <1>4, <1>5, <1>6, <1>7 DEF MailboxInv

\* A broken or stopping service fails the context.
LEMMA ExecuteRefusedInv == ASSUME MailboxInv, ExecuteRefused PROVE MailboxInv'
<1>1. MailboxTypeOK'
  BY DEF MailboxInv, MailboxTypeOK, ExecuteRefused, wordVars, kernelVars, awaitVars,
     sequenceVars, serviceVars
<1>2. QueueState'
  BY DEF MailboxInv, QueueState, Active, Retiring, ExecuteRefused, wordVars, kernelVars,
     awaitVars, sequenceVars, serviceVars
<1>3. CallState'
  BY DEF MailboxInv, CallState, Active, Retiring, ExecuteRefused, wordVars, kernelVars,
     awaitVars, sequenceVars, serviceVars
<1>4. FallbackState'
  BY DEF MailboxInv, FallbackState, ExecuteRefused, wordVars, kernelVars, awaitVars,
     sequenceVars, serviceVars
<1>5. SequenceState'
  BY DEF MailboxInv, SequenceState, Working, Pending, ExecuteRefused, wordVars,
     kernelVars, awaitVars, sequenceVars, serviceVars
<1>6. RequestState'
  BY DEF MailboxInv, RequestState, Pending, ExecuteRefused, wordVars, kernelVars,
     awaitVars, sequenceVars, serviceVars
<1>7. ResultState'
  BY DEF MailboxInv, ResultState, Pending, Returned, ExecuteRefused, wordVars,
     kernelVars, awaitVars, sequenceVars, serviceVars
<1>8. QED
  BY <1>1, <1>2, <1>3, <1>4, <1>5, <1>6, <1>7 DEF MailboxInv

\* Without a queue nothing was published, so the fallback has the update to itself.
LEMMA StartUnavailableInv == ASSUME MailboxInv, StartUnavailable PROVE MailboxInv'
<1>1. MailboxTypeOK'
  BY DEF MailboxInv, MailboxTypeOK, StartUnavailable, wordVars, kernelVars, awaitVars,
     sequenceVars, serviceVars, callVars
<1>2. QueueState'
  BY DEF MailboxInv, QueueState, Active, Retiring, StartUnavailable, wordVars,
     kernelVars, awaitVars, sequenceVars, serviceVars, callVars
<1>3. CallState'
  BY DEF MailboxInv, CallState, Active, Retiring, StartUnavailable, wordVars,
     kernelVars, awaitVars, sequenceVars, serviceVars, callVars
<1>4. FallbackState'
  BY DEF MailboxInv, CallState, FallbackState, Active, Retiring, StartUnavailable,
     wordVars, kernelVars, awaitVars, sequenceVars, serviceVars, callVars
<1>5. SequenceState'
  BY DEF MailboxInv, SequenceState, Working, Pending, StartUnavailable, wordVars,
     kernelVars, awaitVars, sequenceVars, serviceVars, callVars
<1>6. RequestState'
  BY DEF MailboxInv, RequestState, Pending, StartUnavailable, wordVars, kernelVars,
     awaitVars, sequenceVars, serviceVars, callVars
<1>7. ResultState'
  BY DEF MailboxInv, ResultState, Pending, Returned, StartUnavailable, wordVars,
     kernelVars, awaitVars, sequenceVars, serviceVars, callVars
<1>8. QED
  BY <1>1, <1>2, <1>3, <1>4, <1>5, <1>6, <1>7 DEF MailboxInv

\* start() fails before a kernel exists.
LEMMA StartFailsInv == ASSUME MailboxInv, StartFails PROVE MailboxInv'
<1>1. MailboxTypeOK'
  BY DEF MailboxInv, MailboxTypeOK, StartFails, wordVars, kernelVars, awaitVars, sequenceVars
<1>2. QueueState'
  BY DEF MailboxInv, QueueState, Active, Retiring, StartFails, wordVars, kernelVars,
     awaitVars, sequenceVars
<1>3. CallState'
  BY DEF MailboxInv, CallState, Active, Retiring, StartFails, wordVars, kernelVars,
     awaitVars, sequenceVars
<1>4. FallbackState'
  BY DEF MailboxInv, FallbackState, StartFails, wordVars, kernelVars, awaitVars,
     sequenceVars
<1>5. SequenceState'
  BY DEF MailboxInv, SequenceState, Working, Pending, StartFails, wordVars, kernelVars,
     awaitVars, sequenceVars
<1>6. RequestState'
  BY DEF MailboxInv, RequestState, Pending, StartFails, wordVars, kernelVars, awaitVars,
     sequenceVars
<1>7. ResultState'
  BY DEF MailboxInv, ResultState, Pending, Returned, StartFails, wordVars, kernelVars,
     awaitVars, sequenceVars
<1>8. QED
  BY <1>1, <1>2, <1>3, <1>4, <1>5, <1>6, <1>7 DEF MailboxInv

\* start() clears the words and registers of both sides before the kernel runs.
LEMMA StartQueueInv ==
    ASSUME NEW kicked \in BOOLEAN, MailboxInv, StartQueue(kicked)
    PROVE  MailboxInv'
<1>1. MailboxTypeOK'
  <2>1. results' \in [1..MaxBatch -> Values]
    BY ZeroAssumption DEF StartQueue, Cleared
  <2>2. reqSeq' \in 0..MaxSequence /\ compSeq' \in 0..MaxSequence /\ sequence' \in 0..MaxSequence
    BY SequenceAssumption DEF StartQueue
  <2>3. pc' \in {"await", "retire"} /\ faulted' \in BOOLEAN
    BY DEF MailboxInv, MailboxTypeOK, StartQueue
  <2>4. ready' \in 0..1 /\ state' \in 0..3
    BY DEF StartQueue
  <2>5. /\ abort' \in BOOLEAN /\ failed' \in BOOLEAN /\ handle' \in BOOLEAN
        /\ slot' \in Signals \cup {NoCall} /\ gpc' = "launched" /\ awaiting' = "ready"
    BY Zenon DEF StartQueue
  <2>6. UNCHANGED <<value, gseq, job, gi, gold, task, observed, healthy, stopWorker,
                    backingFreed, oneshot, dead, call, olds>>
    BY DEF StartQueue, callVars
  <2>7. requests' \in Batches \cup {<< >>}
    <3>1. requests' = << >>
      BY DEF StartQueue
    <3>2. QED
      BY <3>1, Zenon
  <2>8. QED
    BY <2>1, <2>2, <2>3, <2>4, <2>5, <2>6, <2>7 DEF MailboxInv, MailboxTypeOK
<1>2. QueueState'
  BY DEF MailboxInv, QueueState, CallState, Active, Retiring, StartQueue, Cleared,
     callVars
<1>3. CallState'
  BY DEF MailboxInv, CallState, Active, Retiring, StartQueue, Cleared, callVars
<1>4. FallbackState'
  BY DEF MailboxInv, CallState, FallbackState, Active, Retiring, StartQueue, Cleared,
     callVars
<1>5. SequenceState'
  BY DEF MailboxInv, FallbackState, SequenceState, Working, Pending, StartQueue,
     Cleared, callVars
<1>6. RequestState'
  BY DEF MailboxInv, RequestState, Pending, StartQueue, Cleared, callVars
<1>7. ResultState'
  BY DEF MailboxInv, ResultState, Pending, Returned, StartQueue, Cleared, callVars
<1>8. QED
  BY <1>1, <1>2, <1>3, <1>4, <1>5, <1>6, <1>7 DEF MailboxInv

\* execute() refuses a request it has no sequence number for.
LEMMA FillRefusedInv == ASSUME MailboxInv, FillRefused PROVE MailboxInv'
<1>1. MailboxTypeOK'
  BY DEF MailboxInv, MailboxTypeOK, FillRefused, FailCall, kernelVars, awaitVars, callVars
<1>2. QueueState'
  BY DEF MailboxInv, QueueState, CallState, Active, Retiring, FillRefused, FailCall,
     kernelVars, awaitVars, callVars
<1>3. CallState'
  BY DEF MailboxInv, CallState, Active, Retiring, FillRefused, FailCall, kernelVars,
     awaitVars, callVars
<1>4. FallbackState'
  BY DEF MailboxInv, FallbackState, FillRefused, FailCall, kernelVars, awaitVars,
     callVars
<1>5. SequenceState'
  BY DEF MailboxInv, SequenceState, Working, Pending, FillRefused, FailCall, kernelVars,
     awaitVars, callVars
<1>6. RequestState'
  BY DEF MailboxInv, RequestState, Pending, FillRefused, FailCall, kernelVars,
     awaitVars, callVars
<1>7. ResultState'
  BY DEF MailboxInv, ResultState, Pending, Returned, FillRefused, FailCall, kernelVars,
     awaitVars, callVars
<1>8. QED
  BY <1>1, <1>2, <1>3, <1>4, <1>5, <1>6, <1>7 DEF MailboxInv

\* The request words are written while the kernel has nothing to read.
LEMMA FillInv == ASSUME MailboxInv, Fill PROVE MailboxInv'
<1>1. MailboxTypeOK'
  <2>1. call \in Calls
    BY DEF MailboxInv, MailboxTypeOK, CallState, Active, Fill
  <2>2. slot' \in Signals /\ requests' \in Batches
    BY <2>1 DEF Fill, Calls
  <2>3. QED
    BY <2>2 DEF MailboxInv, MailboxTypeOK, Fill, wordVars, kernelVars, awaitVars, sequenceVars, serviceVars, callVars
<1>2. QueueState'
  BY DEF MailboxInv, QueueState, Active, Retiring, Fill, kernelVars, awaitVars,
     sequenceVars, serviceVars, callVars
<1>3. CallState'
  BY DEF MailboxInv, CallState, Active, Retiring, Fill, kernelVars, awaitVars,
     sequenceVars, serviceVars, callVars
<1>4. FallbackState'
  BY DEF MailboxInv, FallbackState, Fill, kernelVars, awaitVars, sequenceVars,
     serviceVars, callVars
<1>5. SequenceState'
  BY DEF MailboxInv, SequenceState, Working, Pending, Fill, kernelVars, awaitVars,
     sequenceVars, serviceVars, callVars
<1>6. RequestState'
  BY DEF MailboxInv, RequestState, Pending, Fill, kernelVars, awaitVars, sequenceVars,
     serviceVars, callVars
<1>7. ResultState'
  BY DEF MailboxInv, ResultState, Pending, Returned, Fill, kernelVars, awaitVars,
     sequenceVars, serviceVars, callVars
<1>8. QED
  BY <1>1, <1>2, <1>3, <1>4, <1>5, <1>6, <1>7 DEF MailboxInv

\* The sequence word hands them to the kernel.
LEMMA PublishInv == ASSUME MailboxInv, Publish PROVE MailboxInv'
<1>1. MailboxTypeOK'
  BY SequenceAssumption DEF MailboxInv, MailboxTypeOK, SequenceState, Working, Pending,
     Publish, kernelVars, serviceVars, callVars
<1>2. QueueState'
  BY DEF MailboxInv, QueueState, Active, Retiring, Publish, kernelVars, serviceVars,
     callVars
<1>3. CallState'
  BY DEF MailboxInv, CallState, Active, Retiring, Publish, kernelVars, serviceVars,
     callVars
<1>4. FallbackState'
  BY DEF MailboxInv, FallbackState, Publish, kernelVars, serviceVars, callVars
<1>5. SequenceState'
  BY DEF MailboxInv, CallState, SequenceState, RequestState, Active, Retiring, Working,
     Pending, Publish, kernelVars, serviceVars, callVars
<1>6. RequestState'
  BY DEF MailboxInv, CallState, FallbackState, RequestState, Active, Retiring, Pending,
     Publish, kernelVars, serviceVars, callVars
<1>7. ResultState'
  BY DEF MailboxInv, SequenceState, ResultState, Working, Pending, Returned, Publish,
     kernelVars, serviceVars, callVars
<1>8. QED
  BY <1>1, <1>2, <1>3, <1>4, <1>5, <1>6, <1>7 DEF MailboxInv

\* await() reads the word it polls.
LEMMA AwaitLoadInv == ASSUME MailboxInv, AwaitLoad PROVE MailboxInv'
<1>1. MailboxTypeOK'
  BY SequenceAssumption DEF MailboxInv, MailboxTypeOK, AwaitLoad, wordVars, kernelVars,
     sequenceVars, serviceVars, callVars
<1>2. QueueState'
  BY DEF MailboxInv, QueueState, Active, Retiring, AwaitLoad, wordVars, kernelVars,
     sequenceVars, serviceVars, callVars
<1>3. CallState'
  BY DEF MailboxInv, CallState, Active, Retiring, AwaitLoad, wordVars, kernelVars,
     sequenceVars, serviceVars, callVars
<1>4. FallbackState'
  BY DEF MailboxInv, FallbackState, AwaitLoad, wordVars, kernelVars, sequenceVars,
     serviceVars, callVars
<1>5. SequenceState'
  BY DEF MailboxInv, MailboxTypeOK, SequenceState, Working, Pending, AwaitLoad, wordVars,
     kernelVars, sequenceVars, serviceVars, callVars
<1>6. RequestState'
  BY DEF MailboxInv, RequestState, Pending, AwaitLoad, wordVars, kernelVars, sequenceVars,
     serviceVars, callVars
<1>7. ResultState'
  BY DEF MailboxInv, ResultState, Pending, Returned, AwaitLoad, wordVars, kernelVars,
     sequenceVars, serviceVars, callVars
<1>8. QED
  BY <1>1, <1>2, <1>3, <1>4, <1>5, <1>6, <1>7 DEF MailboxInv

\* await() found what it waited for.
LEMMA AwaitSuccessInv == ASSUME MailboxInv, AwaitSuccess PROVE MailboxInv'
<1>1. MailboxTypeOK'
  BY DEF MailboxInv, MailboxTypeOK, AwaitSuccess, Expected, wordVars, kernelVars, awaitVars,
     sequenceVars, serviceVars, callVars
<1>2. QueueState'
  BY DEF MailboxInv, QueueState, Active, Retiring, AwaitSuccess, Expected, wordVars,
     kernelVars, awaitVars, sequenceVars, serviceVars, callVars
<1>3. CallState'
  BY DEF MailboxInv, CallState, Active, Retiring, AwaitSuccess, Expected, wordVars,
     kernelVars, awaitVars, sequenceVars, serviceVars, callVars
<1>4. FallbackState'
  BY DEF MailboxInv, FallbackState, SequenceState, Working, Pending, AwaitSuccess,
     Expected, wordVars, kernelVars, awaitVars, sequenceVars, serviceVars, callVars
<1>5. SequenceState'
  BY DEF MailboxInv, SequenceState, Working, Pending, AwaitSuccess, Expected, wordVars,
     kernelVars, awaitVars, sequenceVars, serviceVars, callVars
<1>6. RequestState'
  BY DEF MailboxInv, MailboxTypeOK, SequenceState, RequestState, Working, Pending,
     AwaitSuccess, Expected, wordVars, kernelVars, awaitVars, sequenceVars, serviceVars,
     callVars
<1>7. ResultState'
  BY DEF MailboxInv, MailboxTypeOK, SequenceState, ResultState, Working, Pending, Returned,
     AwaitSuccess, Expected, wordVars, kernelVars, awaitVars, sequenceVars, serviceVars,
     callVars
<1>8. QED
  BY <1>1, <1>2, <1>3, <1>4, <1>5, <1>6, <1>7 DEF MailboxInv

\* await() goes on waiting.
LEMMA AwaitAgainInv == ASSUME MailboxInv, AwaitAgain PROVE MailboxInv'
<1>1. MailboxTypeOK'
  BY DEF MailboxInv, MailboxTypeOK, AwaitAgain, wordVars, kernelVars, awaitVars, sequenceVars,
     serviceVars, callVars
<1>2. QueueState'
  BY DEF MailboxInv, QueueState, Active, Retiring, AwaitAgain, wordVars, kernelVars,
     awaitVars, sequenceVars, serviceVars, callVars
<1>3. CallState'
  BY DEF MailboxInv, CallState, Active, Retiring, AwaitAgain, wordVars, kernelVars,
     awaitVars, sequenceVars, serviceVars, callVars
<1>4. FallbackState'
  BY DEF MailboxInv, FallbackState, AwaitAgain, wordVars, kernelVars, awaitVars,
     sequenceVars, serviceVars, callVars
<1>5. SequenceState'
  BY DEF MailboxInv, SequenceState, Working, Pending, AwaitAgain, wordVars, kernelVars,
     awaitVars, sequenceVars, serviceVars, callVars
<1>6. RequestState'
  BY DEF MailboxInv, RequestState, Pending, AwaitAgain, wordVars, kernelVars, awaitVars,
     sequenceVars, serviceVars, callVars
<1>7. ResultState'
  BY DEF MailboxInv, ResultState, Pending, Returned, AwaitAgain, wordVars, kernelVars,
     awaitVars, sequenceVars, serviceVars, callVars
<1>8. QED
  BY <1>1, <1>2, <1>3, <1>4, <1>5, <1>6, <1>7 DEF MailboxInv

\* await() gives up; the kernel may still be anywhere.
LEMMA AwaitFailsInv == ASSUME MailboxInv, AwaitFails PROVE MailboxInv'
<1>1. MailboxTypeOK'
  BY DEF MailboxInv, MailboxTypeOK, AwaitFails, FailCall, Cancel, kernelVars, awaitVars,
     callVars
<1>2. QueueState'
  BY DEF MailboxInv, QueueState, CallState, Active, Retiring, AwaitFails, FailCall,
     Cancel, kernelVars, awaitVars, callVars
<1>3. CallState'
  BY DEF MailboxInv, CallState, Active, Retiring, AwaitFails, FailCall, Cancel,
     kernelVars, awaitVars, callVars
<1>4. FallbackState'
  BY DEF MailboxInv, FallbackState, AwaitFails, FailCall, Cancel, kernelVars, awaitVars,
     callVars
<1>5. SequenceState'
  BY DEF MailboxInv, SequenceState, Working, Pending, AwaitFails, FailCall, Cancel,
     kernelVars, awaitVars, callVars
<1>6. RequestState'
  BY DEF MailboxInv, RequestState, Pending, AwaitFails, FailCall, Cancel, kernelVars,
     awaitVars, callVars
<1>7. ResultState'
  BY DEF MailboxInv, ResultState, Pending, Returned, AwaitFails, FailCall, Cancel,
     kernelVars, awaitVars, callVars
<1>8. QED
  BY <1>1, <1>2, <1>3, <1>4, <1>5, <1>6, <1>7 DEF MailboxInv

\* The results are copied out.
LEMMA CollectInv == ASSUME MailboxInv, Collect PROVE MailboxInv'
<1>1. MailboxTypeOK'
  BY DEF MailboxInv, MailboxTypeOK, Collect, wordVars, kernelVars, awaitVars, sequenceVars,
     serviceVars
<1>2. QueueState'
  BY DEF MailboxInv, QueueState, Active, Retiring, Collect, wordVars, kernelVars,
     awaitVars, sequenceVars, serviceVars
<1>3. CallState'
  BY DEF MailboxInv, CallState, Active, Retiring, Collect, wordVars, kernelVars,
     awaitVars, sequenceVars, serviceVars
<1>4. FallbackState'
  BY DEF MailboxInv, CallState, FallbackState, Active, Retiring, Collect, wordVars,
     kernelVars, awaitVars, sequenceVars, serviceVars
<1>5. SequenceState'
  BY DEF MailboxInv, SequenceState, Working, Pending, Collect, wordVars, kernelVars,
     awaitVars, sequenceVars, serviceVars
<1>6. RequestState'
  BY DEF MailboxInv, CallState, RequestState, Active, Retiring, Pending, Collect,
     wordVars, kernelVars, awaitVars, sequenceVars, serviceVars
<1>7. ResultState'
  BY DEF MailboxInv, SequenceState, ResultState, Working, Pending, Returned, Collect,
     wordVars, kernelVars, awaitVars, sequenceVars, serviceVars
<1>8. QED
  BY <1>1, <1>2, <1>3, <1>4, <1>5, <1>6, <1>7 DEF MailboxInv

\* The idle worker, reclaim() or shutdown() begins to retire the queue.
LEMMA BeginRetireInv ==
    ASSUME NEW who \in {"idle", "reclaim", "shutdown"}, MailboxInv, BeginRetire(who)
    PROVE  MailboxInv'
<1>1. MailboxTypeOK'
  BY DEF MailboxInv, MailboxTypeOK, BeginRetire, wordVars, kernelVars, awaitVars, sequenceVars,
     callVars
<1>2. QueueState'
  BY DEF MailboxInv, QueueState, Active, Retiring, BeginRetire, wordVars, kernelVars,
     awaitVars, sequenceVars, callVars
<1>3. CallState'
  BY DEF MailboxInv, CallState, Active, Retiring, BeginRetire, wordVars, kernelVars,
     awaitVars, sequenceVars, callVars
<1>4. FallbackState'
  BY DEF MailboxInv, FallbackState, BeginRetire, wordVars, kernelVars, awaitVars,
     sequenceVars, callVars
<1>5. SequenceState'
  BY DEF MailboxInv, SequenceState, Working, Pending, BeginRetire, wordVars, kernelVars,
     awaitVars, sequenceVars, callVars
<1>6. RequestState'
  BY DEF MailboxInv, RequestState, Pending, BeginRetire, wordVars, kernelVars,
     awaitVars, sequenceVars, callVars
<1>7. ResultState'
  BY DEF MailboxInv, ResultState, Pending, Returned, BeginRetire, wordVars, kernelVars,
     awaitVars, sequenceVars, callVars
<1>8. QED
  BY <1>1, <1>2, <1>3, <1>4, <1>5, <1>6, <1>7 DEF MailboxInv

\* reclaim() or shutdown() finds no queue.
LEMMA NothingToRetireInv ==
    ASSUME NEW who \in {"idle", "reclaim", "shutdown"}, MailboxInv, NothingToRetire(who)
    PROVE  MailboxInv'
<1>1. MailboxTypeOK'
  BY DEF MailboxInv, MailboxTypeOK, NothingToRetire, wordVars, kernelVars, awaitVars,
     sequenceVars
<1>2. QueueState'
  BY DEF MailboxInv, QueueState, Active, Retiring, NothingToRetire, wordVars,
     kernelVars, awaitVars, sequenceVars
<1>3. CallState'
  BY DEF MailboxInv, CallState, Active, Retiring, NothingToRetire, wordVars, kernelVars,
     awaitVars, sequenceVars
<1>4. FallbackState'
  BY DEF MailboxInv, FallbackState, NothingToRetire, wordVars, kernelVars, awaitVars,
     sequenceVars
<1>5. SequenceState'
  BY DEF MailboxInv, SequenceState, Working, Pending, NothingToRetire, wordVars,
     kernelVars, awaitVars, sequenceVars
<1>6. RequestState'
  BY DEF MailboxInv, RequestState, Pending, NothingToRetire, wordVars, kernelVars,
     awaitVars, sequenceVars
<1>7. ResultState'
  BY DEF MailboxInv, ResultState, Pending, Returned, NothingToRetire, wordVars,
     kernelVars, awaitVars, sequenceVars
<1>8. QED
  BY <1>1, <1>2, <1>3, <1>4, <1>5, <1>6, <1>7 DEF MailboxInv

\* retire() tells the kernel to stop.
LEMMA RetireCancelInv == ASSUME MailboxInv, RetireCancel PROVE MailboxInv'
<1>1. MailboxTypeOK'
  BY DEF MailboxInv, MailboxTypeOK, RetireCancel, Cancel, kernelVars, awaitVars, serviceVars,
     callVars
<1>2. QueueState'
  BY DEF MailboxInv, QueueState, Active, Retiring, RetireCancel, Cancel, kernelVars,
     awaitVars, serviceVars, callVars
<1>3. CallState'
  BY DEF MailboxInv, CallState, Active, Retiring, RetireCancel, Cancel, kernelVars,
     awaitVars, serviceVars, callVars
<1>4. FallbackState'
  BY DEF MailboxInv, FallbackState, RetireCancel, Cancel, kernelVars, awaitVars,
     serviceVars, callVars
<1>5. SequenceState'
  BY DEF MailboxInv, SequenceState, Working, Pending, RetireCancel, Cancel, kernelVars,
     awaitVars, serviceVars, callVars
<1>6. RequestState'
  BY DEF MailboxInv, RequestState, Pending, RetireCancel, Cancel, kernelVars, awaitVars,
     serviceVars, callVars
<1>7. ResultState'
  BY DEF MailboxInv, ResultState, Pending, Returned, RetireCancel, Cancel, kernelVars,
     awaitVars, serviceVars, callVars
<1>8. QED
  BY <1>1, <1>2, <1>3, <1>4, <1>5, <1>6, <1>7 DEF MailboxInv

\* retire() waited for the kernel to end, or in vain.
LEMMA DrainedInv == ASSUME NEW ok \in BOOLEAN, MailboxInv, Drained(ok) PROVE MailboxInv'
<1>1. MailboxTypeOK'
  BY DEF MailboxInv, MailboxTypeOK, Drained, wordVars, kernelVars, awaitVars, sequenceVars,
     callVars
<1>2. QueueState'
  BY DEF MailboxInv, QueueState, Active, Retiring, Drained, wordVars, kernelVars,
     awaitVars, sequenceVars, callVars
<1>3. CallState'
  BY DEF MailboxInv, CallState, Active, Retiring, Drained, wordVars, kernelVars,
     awaitVars, sequenceVars, callVars
<1>4. FallbackState'
  BY DEF MailboxInv, FallbackState, Drained, wordVars, kernelVars, awaitVars,
     sequenceVars, callVars
<1>5. SequenceState'
  BY DEF MailboxInv, SequenceState, Working, Pending, Drained, wordVars, kernelVars,
     awaitVars, sequenceVars, callVars
<1>6. RequestState'
  BY DEF MailboxInv, RequestState, Pending, Drained, wordVars, kernelVars, awaitVars,
     sequenceVars, callVars
<1>7. ResultState'
  BY DEF MailboxInv, ResultState, Pending, Returned, Drained, wordVars, kernelVars,
     awaitVars, sequenceVars, callVars
<1>8. QED
  BY <1>1, <1>2, <1>3, <1>4, <1>5, <1>6, <1>7 DEF MailboxInv

\* retire() destroys the queue, or fails to and keeps everything.
LEMMA DestroyInv == ASSUME NEW ok \in BOOLEAN, MailboxInv, Destroy(ok) PROVE MailboxInv'
<1>1. MailboxTypeOK'
  BY DEF MailboxInv, MailboxTypeOK, Destroy, AfterRetire, wordVars, awaitVars, sequenceVars
<1>2. QueueState'
  BY DEF MailboxInv, QueueState, Active, Retiring, Destroy, AfterRetire, wordVars,
     awaitVars, sequenceVars
<1>3. CallState'
  BY DEF MailboxInv, CallState, Active, Retiring, Destroy, AfterRetire, wordVars,
     awaitVars, sequenceVars
<1>4. FallbackState'
  BY DEF MailboxInv, QueueState, FallbackState, Active, Retiring, Destroy, AfterRetire,
     wordVars, awaitVars, sequenceVars
<1>5. SequenceState'
  BY DEF MailboxInv, SequenceState, Working, Pending, Destroy, AfterRetire, wordVars,
     awaitVars, sequenceVars
<1>6. RequestState'
  BY DEF MailboxInv, RequestState, Pending, Destroy, AfterRetire, wordVars, awaitVars,
     sequenceVars
<1>7. ResultState'
  BY DEF MailboxInv, ResultState, Pending, Returned, Destroy, AfterRetire, wordVars,
     awaitVars, sequenceVars
<1>8. QED
  BY <1>1, <1>2, <1>3, <1>4, <1>5, <1>6, <1>7 DEF MailboxInv

\* shutdown() frees the buffers unless a fault keeps them.
LEMMA ReleaseInv == ASSUME NEW ok \in BOOLEAN, MailboxInv, Release(ok) PROVE MailboxInv'
<1>1. MailboxTypeOK'
  BY DEF MailboxInv, MailboxTypeOK, Release, wordVars, kernelVars, awaitVars, sequenceVars,
     callVars
<1>2. QueueState'
  BY DEF MailboxInv, QueueState, Active, Retiring, Release, wordVars, kernelVars,
     awaitVars, sequenceVars, callVars
<1>3. CallState'
  BY DEF MailboxInv, CallState, Active, Retiring, Release, wordVars, kernelVars,
     awaitVars, sequenceVars, callVars
<1>4. FallbackState'
  BY DEF MailboxInv, FallbackState, Release, wordVars, kernelVars, awaitVars,
     sequenceVars, callVars
<1>5. SequenceState'
  BY DEF MailboxInv, SequenceState, Working, Pending, Release, wordVars, kernelVars,
     awaitVars, sequenceVars, callVars
<1>6. RequestState'
  BY DEF MailboxInv, RequestState, Pending, Release, wordVars, kernelVars, awaitVars,
     sequenceVars, callVars
<1>7. ResultState'
  BY DEF MailboxInv, ResultState, Pending, Returned, Release, wordVars, kernelVars,
     awaitVars, sequenceVars, callVars
<1>8. QED
  BY <1>1, <1>2, <1>3, <1>4, <1>5, <1>6, <1>7 DEF MailboxInv

\* The fallback completed in time.
LEMMA OneShotReturnInv == ASSUME MailboxInv, OneShotReturn PROVE MailboxInv'
<1>1. MailboxTypeOK'
  BY DEF MailboxInv, MailboxTypeOK, OneShotReturn, wordVars, kernelVars, awaitVars, sequenceVars,
     serviceVars
<1>2. QueueState'
  BY DEF MailboxInv, QueueState, Active, Retiring, OneShotReturn, wordVars, kernelVars,
     awaitVars, sequenceVars, serviceVars
<1>3. CallState'
  BY DEF MailboxInv, CallState, Active, Retiring, OneShotReturn, wordVars, kernelVars,
     awaitVars, sequenceVars, serviceVars
<1>4. FallbackState'
  BY DEF MailboxInv, FallbackState, OneShotReturn, wordVars, kernelVars, awaitVars,
     sequenceVars, serviceVars
<1>5. SequenceState'
  BY DEF MailboxInv, SequenceState, Working, Pending, OneShotReturn, wordVars,
     kernelVars, awaitVars, sequenceVars, serviceVars
<1>6. RequestState'
  BY DEF MailboxInv, CallState, RequestState, Active, Retiring, Pending, OneShotReturn,
     wordVars, kernelVars, awaitVars, sequenceVars, serviceVars
<1>7. ResultState'
  BY DEF MailboxInv, CallState, SequenceState, RequestState, ResultState, Active,
     Retiring, Working, Pending, Returned, OneShotReturn, wordVars, kernelVars,
     awaitVars, sequenceVars, serviceVars
<1>8. QED
  BY <1>1, <1>2, <1>3, <1>4, <1>5, <1>6, <1>7 DEF MailboxInv

\* The fallback was refused, or is late and may still run.
LEMMA OneShotFailsInv ==
    ASSUME NEW queued \in BOOLEAN, MailboxInv, OneShotFails(queued)
    PROVE  MailboxInv'
<1>1. MailboxTypeOK'
  BY DEF MailboxInv, MailboxTypeOK, OneShotFails, wordVars, kernelVars, awaitVars, sequenceVars,
     serviceVars
<1>2. QueueState'
  BY DEF MailboxInv, QueueState, Active, Retiring, OneShotFails, wordVars, kernelVars,
     awaitVars, sequenceVars, serviceVars
<1>3. CallState'
  BY DEF MailboxInv, CallState, Active, Retiring, OneShotFails, wordVars, kernelVars,
     awaitVars, sequenceVars, serviceVars
<1>4. FallbackState'
  BY DEF MailboxInv, FallbackState, OneShotFails, wordVars, kernelVars, awaitVars,
     sequenceVars, serviceVars
<1>5. SequenceState'
  BY DEF MailboxInv, SequenceState, Working, Pending, OneShotFails, wordVars,
     kernelVars, awaitVars, sequenceVars, serviceVars
<1>6. RequestState'
  BY DEF MailboxInv, RequestState, Pending, OneShotFails, wordVars, kernelVars,
     awaitVars, sequenceVars, serviceVars
<1>7. ResultState'
  BY DEF MailboxInv, ResultState, Pending, Returned, OneShotFails, wordVars, kernelVars,
     awaitVars, sequenceVars, serviceVars
<1>8. QED
  BY <1>1, <1>2, <1>3, <1>4, <1>5, <1>6, <1>7 DEF MailboxInv

\* The fallback applies the one update of the call, now or long after it failed.
LEMMA OneShotApplyInv == ASSUME MailboxInv, OneShotApply PROVE MailboxInv'
<1>1. MailboxTypeOK'
  <2>1. call \in Calls /\ Len(call.batch) = 1
    BY DEF MailboxInv, MailboxTypeOK, FallbackState, OneShotApply
  <2>2. call.signal \in Signals /\ call.batch[1] \in Ops
    BY <2>1, BatchType DEF Calls
  <2>3. value[call.signal] \in Values
    BY <2>2 DEF MailboxInv, MailboxTypeOK
  <2>4. Effect[call.batch[1]][value[call.signal]] \in Values
    BY <2>2, <2>3, EffectType
  <2>5. value' \in [Signals -> Values]
    BY <2>4 DEF MailboxInv, MailboxTypeOK, OneShotApply
  <2>6. olds' \in Seq(Values)
    BY <2>3 DEF MailboxInv, MailboxTypeOK, OneShotApply
  <2>7. QED
    BY <2>5, <2>6 DEF MailboxInv, MailboxTypeOK, OneShotApply, wordVars, kernelVars, awaitVars, sequenceVars, serviceVars, callVars
<1>2. QueueState'
  BY DEF MailboxInv, QueueState, Active, Retiring, OneShotApply, wordVars, kernelVars,
     awaitVars, sequenceVars, serviceVars, callVars
<1>3. CallState'
  BY DEF MailboxInv, CallState, Active, Retiring, OneShotApply, wordVars, kernelVars,
     awaitVars, sequenceVars, serviceVars, callVars
<1>4. FallbackState'
  BY DEF MailboxInv, CallState, FallbackState, Active, Retiring, OneShotApply, wordVars,
     kernelVars, awaitVars, sequenceVars, serviceVars, callVars
<1>5. SequenceState'
  BY DEF MailboxInv, CallState, FallbackState, SequenceState, Active, Retiring, Working,
     Pending, OneShotApply, wordVars, kernelVars, awaitVars, sequenceVars, serviceVars,
     callVars
<1>6. RequestState'
  BY DEF MailboxInv, QueueState, FallbackState, RequestState, Active, Retiring, Pending,
     OneShotApply, wordVars, kernelVars, awaitVars, sequenceVars, serviceVars, callVars
<1>7. ResultState'
  BY DEF MailboxInv, QueueState, FallbackState, ResultState, Active, Retiring, Pending,
     Returned, OneShotApply, wordVars, kernelVars, awaitVars, sequenceVars, serviceVars,
     callVars
<1>8. QED
  BY <1>1, <1>2, <1>3, <1>4, <1>5, <1>6, <1>7 DEF MailboxInv

-----------------------------------------------------------------------------
(***************************************************************************)
(* The invariant of every behaviour.                                       *)
(***************************************************************************)
\* An idle service without a kernel.
LEMMA InitInductive == MailboxInit => MailboxInv
<1>1. SUFFICES ASSUME MailboxInit PROVE MailboxInv
  OBVIOUS
<1>2. MailboxTypeOK
  <2>1. results \in [1..MaxBatch -> Values] /\ gold \in Values
    BY <1>1, ZeroAssumption DEF MailboxInit, Cleared
  <2>2. /\ reqSeq \in 0..MaxSequence /\ compSeq \in 0..MaxSequence
        /\ gseq \in 0..MaxSequence /\ observed \in 0..MaxSequence
        /\ sequence \in 0..MaxSequence
    BY <1>1, SequenceAssumption DEF MailboxInit
  <2>3. job \in [slot : Signals \cup {NoCall}, count : 0..MaxBatch] /\ gi \in 0 .. MaxBatch + 1
    BY <1>1, MailboxBatch DEF MailboxInit, NoJob
  <2>4. requests \in Batches \cup {<< >>}
    <3>1. requests = << >>
      BY <1>1 DEF MailboxInit
    <3>2. QED
      BY <3>1, Zenon
  <2>5. olds \in Seq(Values)
    BY <1>1 DEF MailboxInit
  <2>6. value \in [Signals -> Values] /\ ready \in 0..1 /\ state \in 0..3
    BY <1>1 DEF MailboxInit
  <2>7. QED
    BY <1>1, <2>1, <2>2, <2>3, <2>4, <2>5, <2>6, Zenon DEF MailboxInit, MailboxTypeOK
<1>3. QED
  BY <1>1, <1>2 DEF MailboxInit, MailboxInv, QueueState, CallState, FallbackState, SequenceState,
                    RequestState, ResultState, Active, Retiring, Working, Pending, Returned

\* The invariant is about the variables of the specification.
LEMMA MailboxStutter == MailboxInv /\ UNCHANGED mailboxVars => MailboxInv'
<1>1. SUFFICES ASSUME MailboxInv, UNCHANGED mailboxVars PROVE MailboxInv'
  OBVIOUS
<1>2. /\ UNCHANGED <<reqSeq, compSeq, ready, abort, state, slot, requests, results, value>>
      /\ UNCHANGED <<gpc, gseq, job, gi, gold, pc, task, awaiting, observed, sequence, failed>>
      /\ UNCHANGED <<handle, faulted, healthy, stopWorker, backingFreed, oneshot, dead, call, olds>>
  BY <1>1 DEF mailboxVars, wordVars, kernelVars, awaitVars, sequenceVars, serviceVars, callVars
<1>3. MailboxTypeOK'
  BY <1>1, <1>2 DEF MailboxInv, MailboxTypeOK
<1>4. QueueState' /\ CallState' /\ FallbackState'
  BY <1>1, <1>2 DEF MailboxInv, QueueState, CallState, FallbackState
<1>5. SequenceState' /\ RequestState' /\ ResultState'
  BY <1>1, <1>2 DEF MailboxInv, SequenceState, RequestState, ResultState, Pending, Returned
<1>6. QED
  BY <1>3, <1>4, <1>5 DEF MailboxInv

\* Every step of the kernel, of the CPU and of the fallback keeps the invariant.
LEMMA MailboxStep == MailboxInv /\ [MailboxNext]_mailboxVars => MailboxInv'
<1>1. SUFFICES ASSUME MailboxInv, [MailboxNext]_mailboxVars PROVE MailboxInv'
  OBVIOUS
<1>2. CASE Kernel
  BY <1>1, <1>2, KernelReadyInv, KernelPollInv, KernelPolledInv, KernelClaimInv,
     KernelApplyInv, KernelStoreInv, KernelCompleteInv, KernelExitInv, KernelEndInv, Zenon
     DEF Kernel
<1>3. CASE CPU
  BY <1>1, <1>3, ExecuteInv, ExecuteRefusedInv, StartUnavailableInv, StartFailsInv,
     StartQueueInv, FillRefusedInv, FillInv, PublishInv, AwaitLoadInv, AwaitSuccessInv,
     AwaitAgainInv, AwaitFailsInv, CollectInv, BeginRetireInv, NothingToRetireInv,
     RetireCancelInv, DrainedInv, DestroyInv, ReleaseInv, OneShotReturnInv, OneShotFailsInv, Zenon
     DEF CPU
<1>4. CASE OneShotApply
  BY <1>1, <1>4, OneShotApplyInv
<1>5. CASE UNCHANGED mailboxVars
  BY <1>1, <1>5, MailboxStutter
<1>6. QED
  BY <1>1, <1>2, <1>3, <1>4, <1>5 DEF MailboxNext

\* The ownership of the mailbox words, of the sequence numbers, of the service's
\* buffers and of the one pending request, in every reachable state of the
\* service and its kernel.
THEOREM MailboxInductive == MailboxSpec => []MailboxInv
  BY InitInductive, MailboxStep, PTL DEF MailboxSpec

\* The invariant contains the property the runs check.
LEMMA InvImpliesSafe == MailboxInv => MailboxSafe
<1>1. SUFFICES ASSUME MailboxInv PROVE MailboxSafe
  OBVIOUS
<1>2. ASSUME gpc \in {"claim", "apply", "store", "complete"}
      PROVE  /\ gseq = sequence /\ reqSeq = sequence
             /\ pc \notin {"start", "fill", "publish", "collect", "oneshot"}
             /\ call # NoCall /\ slot = call.signal /\ requests = call.batch
  BY <1>1, <1>2 DEF MailboxInv, MailboxTypeOK, QueueState, CallState, FallbackState, SequenceState,
                    RequestState, Working, Active, Pending
<1>3. ASSUME pc = "collect"
      PROVE  olds = [i \in 1 .. Len(call.batch) |-> results[i]]
  <2>1. Len(olds) = Len(call.batch) /\ \A i \in 1 .. Len(call.batch) : results[i] = olds[i]
    BY <1>1, <1>3 DEF MailboxInv, ResultState, Returned
  <2>2. olds \in Seq(Values)
    BY <1>1 DEF MailboxInv, MailboxTypeOK
  <2>3. olds = [i \in 1 .. Len(olds) |-> olds[i]]
    BY <2>2
  <2>4. QED
    BY <2>1, <2>3
<1>4. WordsOwned
  BY <1>2, <1>3 DEF WordsOwned
<1>5. InStep
  BY <1>1 DEF MailboxInv, MailboxTypeOK, QueueState, CallState, SequenceState, RequestState, Active, Pending, InStep, Expected
<1>6. BackingRetained
  BY <1>1 DEF MailboxInv, QueueState, BackingRetained
<1>7. QED
  BY <1>1, <1>4, <1>5, <1>6 DEF MailboxInv, MailboxSafe

\* The kernel works only on the request the CPU published last, results are those
\* of the caller's own batch, no sequence is out of step and no buffer is freed
\* under a kernel, whatever deadlines pass and whichever retire() fails.
THEOREM MailboxSafety == MailboxSpec => []MailboxSafe
  BY MailboxInductive, InvImpliesSafe, PTL

-----------------------------------------------------------------------------
(***************************************************************************)
(* Refinement of AtomicUpdates.                                            *)
(***************************************************************************)
\* Nothing was called and nothing applied.
LEMMA InitRefines == MailboxInit => Updates!Init
  BY DEF MailboxInit, Updates!Init, Failed, Updates!Failed

\* An accepted call of GPUSignalService::execute is an invocation.
LEMMA ExecuteRefines ==
    ASSUME NEW c \in Calls, MailboxInv, Execute(c) PROVE Updates!Invoke(c)
  BY DEF MailboxInv, MailboxTypeOK, CallState, Execute, Updates!Invoke

\* The kernel's atomic is the next update of the call, also when the call failed
\* long ago.
LEMMA KernelApplyRefines == ASSUME MailboxInv, KernelApply PROVE Updates!Apply
<1>1. call # NoCall /\ requests = call.batch /\ job.slot = call.signal
  BY DEF MailboxInv, SequenceState, RequestState, ResultState, Pending, Working, KernelApply
<1>2. gi = Len(olds) + 1 /\ Len(olds) < Len(call.batch)
  BY DEF MailboxInv, MailboxTypeOK, ResultState, KernelApply
<1>3. UNCHANGED <<call, reply, dead>>
  BY DEF KernelApply, cpuVars, callVars
<1>4. QED
  BY <1>1, <1>2, <1>3 DEF KernelApply, Updates!Apply

\* So is the fallback's dispatch, which may be just as late.
LEMMA OneShotApplyRefines == ASSUME MailboxInv, OneShotApply PROVE Updates!Apply
<1>1. call # NoCall /\ Len(olds) = 0 /\ Len(call.batch) = 1
  BY DEF MailboxInv, FallbackState, OneShotApply
<1>2. UNCHANGED <<call, reply, dead>>
  BY DEF OneShotApply, callVars
<1>3. QED
  BY <1>1, <1>2 DEF OneShotApply, Updates!Apply

\* A successful call returns the old values of its updates.
LEMMA CollectRefines == ASSUME MailboxInv, Collect PROVE Updates!Return
<1>1. olds = [i \in 1 .. Len(call.batch) |-> results[i]]
  BY InvImpliesSafe DEF MailboxSafe, WordsOwned, Collect
<1>2. call # NoCall /\ ~dead /\ Len(olds) = Len(call.batch)
  BY DEF MailboxInv, CallState, ResultState, Active, Collect
<1>3. QED
  BY <1>1, <1>2 DEF Collect, Updates!Return, Success, Updates!Success

\* And so does one the fallback served.
LEMMA OneShotReturnRefines == ASSUME MailboxInv, OneShotReturn PROVE Updates!Return
<1>1. call # NoCall /\ ~dead /\ Len(olds) = Len(call.batch)
  BY DEF MailboxInv, CallState, FallbackState, OneShotReturn
<1>2. QED
  BY <1>1 DEF OneShotReturn, Updates!Return, Success, Updates!Success

\* Wherever the path fails, the context fails with it, once.
LEMMA FailureRefines ==
    ASSUME NEW ok \in BOOLEAN, NEW who, MailboxInv,
           ExecuteRefused \/ StartFails \/ OneShotFails(ok) \/ Destroy(ok) \/ NothingToRetire(who)
    PROVE  Updates!Fail \/ UNCHANGED Updates!vars
<1>1. CASE ExecuteRefused
  BY <1>1 DEF ExecuteRefused, Updates!Fail, Failed, Updates!Failed
<1>2. CASE StartFails
  BY <1>2 DEF StartFails, Updates!Fail, Failed, Updates!Failed, MailboxInv, CallState
<1>3. CASE OneShotFails(ok)
  BY <1>3 DEF OneShotFails, Updates!Fail, Failed, Updates!Failed, MailboxInv, CallState
<1>4. CASE Destroy(ok)
  BY <1>4 DEF Destroy, AfterRetire, Updates!Fail, Updates!vars, Failed, Updates!Failed,
              MailboxInv, MailboxTypeOK
<1>5. CASE NothingToRetire(who)
  BY <1>5 DEF NothingToRetire, Updates!Fail, Updates!vars, Failed, Updates!Failed,
              MailboxInv, MailboxTypeOK
<1>6. QED
  BY <1>1, <1>2, <1>3, <1>4, <1>5

\* No other step changes a signal or what the caller sees.
LEMMA OthersStutter ==
    ASSUME NEW b \in BOOLEAN, NEW who,
           \/ KernelReady \/ KernelPoll \/ KernelPolled(b) \/ KernelClaim \/ KernelStore
           \/ KernelComplete \/ KernelExit \/ KernelEnd
           \/ StartUnavailable \/ StartQueue(b) \/ FillRefused \/ Fill \/ Publish
           \/ AwaitLoad \/ AwaitSuccess \/ AwaitAgain \/ AwaitFails
           \/ BeginRetire(who) \/ RetireCancel \/ Drained(b) \/ Release(b)
           \/ UNCHANGED mailboxVars
    PROVE  UNCHANGED Updates!vars
<1>1. UNCHANGED <<value, call, olds, reply, dead>>
  <2>1. CASE KernelReady \/ KernelPoll \/ KernelPolled(b) \/ KernelClaim \/ KernelStore
             \/ KernelComplete \/ KernelExit \/ KernelEnd
    BY <2>1 DEF KernelReady, KernelPoll, KernelPolled, KernelClaim, KernelStore,
                KernelComplete, KernelExit, KernelEnd, cpuVars, callVars
  <2>2. CASE StartUnavailable \/ StartQueue(b) \/ FillRefused \/ Fill \/ Publish
             \/ AwaitLoad \/ AwaitSuccess \/ AwaitAgain \/ AwaitFails
    BY <2>2 DEF StartUnavailable, StartQueue, FillRefused, Fill, Publish, AwaitLoad,
                AwaitSuccess, AwaitAgain, AwaitFails, FailCall, callVars
  <2>3. CASE BeginRetire(who) \/ RetireCancel \/ Drained(b) \/ Release(b) \/ UNCHANGED mailboxVars
    BY <2>3 DEF BeginRetire, RetireCancel, Drained, Release, mailboxVars, callVars
  <2>4. QED
    BY <2>1, <2>2, <2>3
<1>2. QED
  BY <1>1 DEF Updates!vars

\* Every step is a step of AtomicUpdates or changes nothing it knows.
LEMMA StepRefines == MailboxInv /\ [MailboxNext]_mailboxVars => [Updates!Next]_(Updates!vars)
<1>1. SUFFICES ASSUME MailboxInv, [MailboxNext]_mailboxVars
      PROVE  Updates!Next \/ UNCHANGED Updates!vars
  OBVIOUS
<1>2. CASE \E c \in Calls : Execute(c)
  BY <1>1, <1>2, ExecuteRefines DEF Updates!Next, Calls, Updates!Calls, Batches, Updates!Batches
<1>3. CASE KernelApply \/ OneShotApply
  BY <1>1, <1>3, KernelApplyRefines, OneShotApplyRefines DEF Updates!Next
<1>4. CASE Collect \/ OneShotReturn
  BY <1>1, <1>4, CollectRefines, OneShotReturnRefines DEF Updates!Next
<1>5. ASSUME NEW ok \in BOOLEAN, NEW who \in {"reclaim", "shutdown"},
             ExecuteRefused \/ StartFails \/ OneShotFails(ok) \/ Destroy(ok) \/ NothingToRetire(who)
      PROVE  Updates!Next \/ UNCHANGED Updates!vars
  BY <1>1, <1>5, FailureRefines DEF Updates!Next
<1>6. ASSUME NEW b \in BOOLEAN, NEW who \in {"idle", "reclaim", "shutdown"},
           \/ KernelReady \/ KernelPoll \/ KernelPolled(b) \/ KernelClaim \/ KernelStore
           \/ KernelComplete \/ KernelExit \/ KernelEnd
           \/ StartUnavailable \/ StartQueue(b) \/ FillRefused \/ Fill \/ Publish
           \/ AwaitLoad \/ AwaitSuccess \/ AwaitAgain \/ AwaitFails
           \/ BeginRetire(who) \/ RetireCancel \/ Drained(b) \/ Release(b)
           \/ UNCHANGED mailboxVars
      PROVE  UNCHANGED Updates!vars
  BY <1>6, OthersStutter
<1>7. CASE Kernel
  BY <1>7, <1>3, <1>6, Zenon DEF Kernel
<1>8. CASE CPU
  BY <1>8, <1>2, <1>4, <1>5, <1>6, Zenon DEF CPU
<1>9. QED
  BY <1>1, <1>3, <1>6, <1>7, <1>8 DEF MailboxNext

\* The signal path implements AtomicUpdates: every update of a call happens at most
\* once and in order, all of them exactly once with the right old values when the
\* call succeeds, and none of a later call after one failed.
THEOREM MailboxRefines == MailboxSpec => ImplementsAtomicUpdates
<1>1. MailboxSpec => Updates!Init
  BY InitRefines DEF MailboxSpec
<1>2. MailboxSpec => [][Updates!Next]_(Updates!vars)
  BY MailboxInductive, StepRefines, PTL DEF MailboxSpec
<1>3. QED
  BY <1>1, <1>2 DEF Updates!Spec, ImplementsAtomicUpdates
=============================================================================
