-------------------------- MODULE EventPathProofs --------------------------
(***************************************************************************)
(* Proofs about the event paths: the driver's AQL queues (AQLQueues), its  *)
(* interrupts (Interrupts), the runtime's GPU-backed signals               *)
(* (RuntimeSignals) and its queues (RuntimeQueues).  For each of them an   *)
(* inductive invariant, one step or lemma per action, and the theorems     *)
(* about the specification.                                                *)
(***************************************************************************)
EXTENDS AQLQueues, Interrupts, RuntimeSignals, RuntimeQueues,
        FiniteSetTheorems, FunctionTheorems, SequenceTheorems, WellFoundedInduction, TLAPS

-----------------------------------------------------------------------------
(* AQL queues                                                              *)

\* Types of the driver's record and of the shared indices, and that the CP's write pointer is at
\* most the write index: a doorbell is refused for a packet nobody reserved.
AQLTypes ==
    /\ aql \in [st : {"closed", "mapped", "retained"}, storage : BOOLEAN, scratch : Nat,
                published : BOOLEAN, lastDoorbell : Nat, error : BOOLEAN]
    /\ hw \in {"mapped", "unmapped"}
    /\ inactive \in 0 .. 2
    /\ write \in Nat /\ wptr \in Nat /\ wptr <= write
    /\ ring \in [0 .. Packets - 1 -> [index : Nat, need : Nat, valid : BOOLEAN]]
    /\ read \in Nat /\ fetch \in Nat
    /\ producer \in [Producers -> [at : {"idle", "reserved", "published"}, index : Nat]]
    /\ launch \in [Kinds -> {"idle", "retained"}] /\ owned \subseteq Kinds

\* What the driver's record says about the firmware's side: storage exists unless the queue is
\* closed; a closed queue is unmapped and has nothing running; while scratch is wanted nothing
\* runs; and the doorbell latch agrees with the write pointer of a mapped queue.
AQLLinks ==
    /\ aql.storage <=> aql.st # "closed"
    /\ aql.st = "closed" => hw = "unmapped" /\ running = {}
    /\ inactive = 1 => running = {}
    /\ aql.st = "mapped" => /\ \A r \in running : r[2] = aql.scratch
                            /\ wptr = IF aql.published THEN aql.lastDoorbell + 1 ELSE 0
    /\ \A k \in owned : launch[k] = "retained"

AQLInv == AQLTypes /\ AQLLinks

\* Every index falls on a slot of the ring.
LEMMA SlotInRing == \A i \in Nat : Slot(i) \in 0 .. Packets - 1
BY AQLAssumption DEF Slot

\* The scratch a service call grants is the need of a packet in the ring, a natural number.
LEMMA RequiredIsNeed ==
    ASSUME AQLTypes, Needy # {}
    PROVE  Required \in Nat
<1> DEFINE R == OpToRel(<, Nat)
<1>1. Needy \subseteq Nat
  BY DEF Needy, Visible, AQLTypes
<1>2. IsWellFoundedOn(R, Nat)
  BY NatLessThanWellFounded DEF R
<1>3. PICK x \in Needy : \A y \in Needy : ~(<<y, x>> \in R)
  <2> HIDE DEF R
  <2> QED BY <1>1, <1>2, WFMin
<1>4. \A y \in Needy : ~(y < x)
  BY <1>1, <1>3 DEF R, OpToRel
<1>5. \A y \in Needy : x <= y
  BY <1>1, <1>4
<1>6. (CHOOSE i \in Needy : \A j \in Needy : i <= j) \in Needy
  BY <1>5
<1> QED
  BY <1>1, <1>6, SlotInRing DEF Required, AQLTypes

\* Initially the queue is closed and nothing is submitted.
LEMMA AQLInitInv == AQLInit => AQLInv
<1> SUFFICES ASSUME AQLInit PROVE AQLInv
  OBVIOUS
<1>1. ring \in [0 .. Packets - 1 -> [index : Nat, need : Nat, valid : BOOLEAN]]
  BY DEF AQLInit, Invalid
<1>2. AQLTypes
  BY <1>1 DEF AQLInit, AQLTypes, Closed, Kinds
<1>3. AQLLinks
  BY DEF AQLInit, AQLLinks, Closed
<1> QED
  BY <1>2, <1>3 DEF AQLInv

\* A doorbell, refused, ignored or written through, moves the write pointer forward only.
LEMMA KickAdvances ==
    ASSUME AQLInv, NEW last \in Nat, Kick(last)
    PROVE  /\ aql' \in [st : {"closed", "mapped", "retained"}, storage : BOOLEAN, scratch : Nat,
                        published : BOOLEAN, lastDoorbell : Nat, error : BOOLEAN]
           /\ aql'.st = "mapped" /\ aql'.storage = aql.storage /\ aql'.scratch = aql.scratch
           /\ wptr' \in Nat /\ wptr <= wptr' /\ wptr' <= write
           /\ wptr' = IF aql'.published THEN aql'.lastDoorbell + 1 ELSE 0
<1>1. aql.st = "mapped" /\ last < write
  BY DEF Kick
<1>2. CASE aql.published /\ last <= aql.lastDoorbell
  <2>1. UNCHANGED <<aql, wptr>>
    BY <1>2 DEF Kick
  <2> QED
    BY <1>1, <2>1 DEF AQLInv, AQLTypes, AQLLinks
<1>3. CASE ~(aql.published /\ last <= aql.lastDoorbell)
  <2>1. wptr' = last + 1 /\ aql' = [aql EXCEPT !.lastDoorbell = last, !.published = TRUE]
    BY <1>3 DEF Kick
  <2>2. wptr <= last + 1
    BY <1>1, <1>3 DEF AQLInv, AQLTypes, AQLLinks
  <2>3. /\ aql'.st = aql.st /\ aql'.storage = aql.storage /\ aql'.scratch = aql.scratch
        /\ aql'.published = TRUE /\ aql'.lastDoorbell = last
        /\ aql' \in [st : {"closed", "mapped", "retained"}, storage : BOOLEAN, scratch : Nat,
                     published : BOOLEAN, lastDoorbell : Nat, error : BOOLEAN]
    BY <2>1 DEF AQLInv, AQLTypes
  <2> QED
    BY <1>1, <2>1, <2>2, <2>3 DEF AQLInv, AQLTypes
<1> QED
  BY <1>2, <1>3

\* Every step of the driver, the producers and the CP keeps the invariant.
LEMMA AQLNextInv == AQLInv /\ [AQLNext]_aqlVars => AQLInv'
<1> SUFFICES ASSUME AQLInv, [AQLNext]_aqlVars PROVE AQLInv'
  OBVIOUS
<1> USE DEF AQLInv
<1>1. CASE OpenQueue
  <2>1. PICK scratch \in {0, 1}, acknowledged \in BOOLEAN :
          /\ aql' = [Closed EXCEPT !.st = IF acknowledged THEN "mapped" ELSE "retained",
                                   !.storage = TRUE, !.scratch = scratch]
          /\ hw' \in {"mapped"} \union (IF acknowledged THEN {} ELSE {"unmapped"})
    BY <1>1 DEF OpenQueue
  <2>2. /\ aql'.st \in {"mapped", "retained"} /\ aql'.storage = TRUE /\ aql'.scratch = scratch
        /\ aql'.published = FALSE
        /\ aql' \in [st : {"closed", "mapped", "retained"}, storage : BOOLEAN, scratch : Nat,
                     published : BOOLEAN, lastDoorbell : Nat, error : BOOLEAN]
    <3>1. /\ Closed \in [st : {"closed", "mapped", "retained"}, storage : BOOLEAN, scratch : Nat,
                         published : BOOLEAN, lastDoorbell : Nat, error : BOOLEAN]
          /\ Closed.published = FALSE
      BY DEF Closed
    <3>2. PICK st \in {"mapped", "retained"} :
            aql' = [Closed EXCEPT !.st = st, !.storage = TRUE, !.scratch = scratch]
      BY <2>1
    <3>3. scratch \in Nat /\ st \in {"closed", "mapped", "retained"}
      BY <2>1, <3>2
    <3>4. aql' \in [st : {"closed", "mapped", "retained"}, storage : BOOLEAN, scratch : Nat,
                     published : BOOLEAN, lastDoorbell : Nat, error : BOOLEAN]
      BY <3>1, <3>2, <3>3
    <3>5. aql'.st = st /\ aql'.storage = TRUE /\ aql'.scratch = scratch /\ aql'.published = Closed.published
      BY <3>1, <3>2, <3>3
    <3> QED
      BY <3>1, <3>2, <3>4, <3>5
  <2>3. /\ aql.st = "closed" /\ write = 0 /\ hw' \in {"mapped", "unmapped"}
        /\ UNCHANGED <<ring, write, read, fetch, running, inactive, producer, wptr, launch, owned>>
    BY <1>1, <2>1 DEF OpenQueue
  <2> QED
    BY <2>2, <2>3 DEF AQLTypes, AQLLinks
<1>2. CASE ServiceQueue
  <2>1. CASE inactive = 1 /\ Needy # {} /\ aql' = [aql EXCEPT !.scratch = Required] /\ inactive' = 0
    BY <1>2, <2>1, RequiredIsNeed, SMTT(30) DEF ServiceQueue, AQLTypes, AQLLinks
  <2>2. CASE aql' = [aql EXCEPT !.error = TRUE] /\ UNCHANGED inactive
    BY <1>2, <2>2 DEF ServiceQueue, AQLTypes, AQLLinks
  <2> QED
    BY <1>2, <2>1, <2>2 DEF ServiceQueue
<1>3. CASE ServiceNoMemory
  BY <1>3 DEF ServiceNoMemory, AQLTypes, AQLLinks
<1>4. CASE CloseQueue
  <2>1. CASE hw' = "unmapped" /\ aql' = Closed /\ running' = {}
    BY <1>4, <2>1 DEF CloseQueue, AQLTypes, AQLLinks, Closed
  <2>2. CASE aql' = [aql EXCEPT !.st = "retained"] /\ UNCHANGED running /\ hw' \in {"mapped", "unmapped"}
    BY <1>4, <2>2 DEF CloseQueue, AQLTypes, AQLLinks
  <2> QED
    BY <1>4, <2>1, <2>2 DEF CloseQueue
<1>5. ASSUME NEW k \in Kinds, NEW outcome \in {"idle", "retained"}, NEW busy \in BOOLEAN,
             Launched(k, outcome, busy), busy => outcome = "retained"
      PROVE  AQLInv'
  BY <1>5 DEF Launched, AQLTypes, AQLLinks
<1>6. CASE AQLLaunch \/ ComputeLaunch
  BY <1>5, <1>6 DEF AQLLaunch, ComputeLaunch, Kinds
<1>7. ASSUME NEW p \in Producers, Reserve(p)
      PROVE  AQLInv'
  BY <1>7 DEF Reserve, Producing, AQLTypes, AQLLinks
<1>8. ASSUME NEW p \in Producers, PublishPacket(p)
      PROVE  AQLInv'
  <2>1. producer[p].index \in Nat
    BY DEF AQLTypes
  <2>2. ring' \in [0 .. Packets - 1 -> [index : Nat, need : Nat, valid : BOOLEAN]]
    <3>1. PICK need \in 0 .. 2 : ring' = [ring EXCEPT ![Slot(producer[p].index)] =
                [index |-> producer[p].index, need |-> need, valid |-> TRUE]]
      BY <1>8 DEF PublishPacket
    <3>2. [index |-> producer[p].index, need |-> need, valid |-> TRUE]
             \in [index : Nat, need : Nat, valid : BOOLEAN]
      BY <2>1
    <3> QED
      BY <3>1, <3>2 DEF AQLTypes
  <2> QED
    BY <1>8, <2>1, <2>2 DEF PublishPacket, Producing, AQLTypes, AQLLinks
<1>9. ASSUME NEW p \in Producers, RingDoorbell(p)
      PROVE  AQLInv'
  <2>1. producer[p].index \in Nat
    BY DEF AQLTypes
  <2>2. producer' \in [Producers -> [at : {"idle", "reserved", "published"}, index : Nat]]
    BY <1>9 DEF RingDoorbell, Producing, AQLTypes
  <2>3. CASE aql.st = "mapped"
    <3>1. Kick(producer[p].index)
      BY <1>9, <2>3 DEF RingDoorbell
    <3> QED
      BY <1>9, <2>1, <2>2, <2>3, <3>1, KickAdvances DEF RingDoorbell, AQLTypes, AQLLinks
  <2>4. CASE aql.st # "mapped"
    BY <1>9, <2>2, <2>4 DEF RingDoorbell, AQLTypes, AQLLinks
  <2> QED
    BY <2>3, <2>4
<1>10. CASE CPFetch
  BY <1>10 DEF CPFetch, Ready, AQLTypes, AQLLinks
<1>11. CASE CPRetire
  BY <1>11 DEF CPRetire, AQLTypes, AQLLinks
<1>12. CASE CPAdvance
  <2>1. ring' \in [0 .. Packets - 1 -> [index : Nat, need : Nat, valid : BOOLEAN]]
    BY <1>12 DEF CPAdvance, Invalid, AQLTypes
  <2> QED
    BY <1>12, <2>1 DEF CPAdvance, AQLTypes, AQLLinks
<1>13. CASE CPWantsScratch
  BY <1>13 DEF CPWantsScratch, AQLTypes, AQLLinks
<1>14. CASE CPFaults
  BY <1>14 DEF CPFaults, AQLTypes, AQLLinks
<1>15. CASE UNCHANGED aqlVars
  BY <1>15 DEF aqlVars, AQLTypes, AQLLinks
<1> QED
  BY <1>1, <1>2, <1>3, <1>4, <1>6, <1>7, <1>8, <1>9, <1>10, <1>11, <1>12, <1>13, <1>14, <1>15
  DEF AQLNext, CPStep

\* The invariant holds in every behaviour of the queue.
THEOREM AQLQueueSafe == AQLSpec => []AQLInv
<1>1. AQLInit => AQLInv
  BY AQLInitInv
<1>2. AQLInv /\ [AQLNext]_aqlVars => AQLInv'
  BY AQLNextInv
<1> QED
  BY <1>1, <1>2, PTL DEF AQLSpec

\* The driver keeps a queue's ring, metadata and scratch, and a launch's storage, as long as the
\* GPU may use them, whatever acknowledgements are lost (aql_queue_open, _service, _close,
\* aql_launch, compute_launch).
THEOREM QueueMemorySafe == AQLSpec => []QueueMemoryHeld
<1>1. AQLInv => QueueMemoryHeld
  BY DEF AQLInv, AQLTypes, AQLLinks, QueueMemoryHeld
<1> QED
  BY <1>1, AQLQueueSafe, PTL

\* The doorbells of any number of producers, ringing in any order, never move the CP's write
\* pointer back nor past the last reserved packet (aql_queue_kick).
THEOREM DoorbellsMonotone == AQLSpec => WritePointerAdvances
<1>1. ASSUME AQLInv, [AQLNext]_aqlVars
      PROVE  [wptr' >= wptr /\ wptr' <= write']_aqlVars
  <2>1. CASE UNCHANGED aqlVars
    BY <2>1
  <2>2. ASSUME NEW p \in Producers, RingDoorbell(p)
        PROVE  wptr' >= wptr /\ wptr' <= write'
    <3>1. producer[p].index \in Nat /\ write' = write
      BY <1>1, <2>2 DEF AQLInv, AQLTypes, RingDoorbell
    <3>2. CASE aql.st = "mapped"
      BY <1>1, <2>2, <3>1, <3>2, KickAdvances DEF RingDoorbell, AQLInv, AQLTypes
    <3>3. CASE aql.st # "mapped"
      BY <1>1, <2>2, <3>3 DEF RingDoorbell, AQLInv, AQLTypes
    <3> QED
      BY <3>2, <3>3
  <2>3. ASSUME NEW p \in Producers, Reserve(p)
        PROVE  wptr' >= wptr /\ wptr' <= write'
    BY <1>1, <2>3 DEF Reserve, AQLInv, AQLTypes
  <2>4. ASSUME UNCHANGED <<wptr, write>>
        PROVE  wptr' >= wptr /\ wptr' <= write'
    BY <1>1, <2>4 DEF AQLInv, AQLTypes
  <2>5. CASE AQLNext
    <3>1. \/ UNCHANGED <<wptr, write>>
          \/ \E p \in Producers : Reserve(p) \/ RingDoorbell(p)
      BY <2>5 DEF AQLNext, CPStep, OpenQueue, ServiceQueue, ServiceNoMemory, CloseQueue, AQLLaunch,
                  ComputeLaunch, Launched, PublishPacket, CPFetch, CPRetire, CPAdvance,
                  CPWantsScratch, CPFaults
    <3> QED
      BY <3>1, <2>2, <2>3, <2>4
  <2> QED
    BY <1>1, <2>1, <2>5
<1> QED
  BY <1>1, AQLQueueSafe, PTL DEF AQLSpec, WritePointerAdvances

-----------------------------------------------------------------------------
(* Interrupts                                                              *)

Positions == 0 .. Entries - 1

IrqStates ==
    [queue : BOOLEAN, setUp : BOOLEAN, enabled : SUBSET Bits, pending : SUBSET Bits,
     wait : {"none", "waiting", "success", "aborted"}, interest : SUBSET Bits, stopping : BOOLEAN]

\* Types of the driver's and the GPU's records: the handler's copy of the write pointer and its
\* shadow are positions of the ring too.
IrqTypes ==
    /\ irq \in IrqStates
    /\ ih \in [online : BOOLEAN, rptr : Positions, overflows : BOOLEAN, stopping : BOOLEAN]
    /\ gpu \in [wptr : Positions, rptr : Positions, overflow : BOOLEAN, shadow : Positions,
                shadowOverflow : BOOLEAN, armed : BOOLEAN, message : BOOLEAN]
    /\ slots \in [Positions -> Events]
    /\ handler \in [at : {"idle", "reread", "recover", "dispatch"}, wptr : Positions, recovered : BOOLEAN]

\* The sources and the wait live no longer than the page; and while no handler runs, nothing the
\* client waits for is pending, whatever the mask has become since the wait was installed, unless the
\* driver is stopping.
IrqLinks ==
    /\ irq.setUp => irq.queue
    /\ irq.wait = "waiting" => irq.queue
    /\ irq.wait = "waiting" /\ HandlerIdle /\ ~ih.stopping => irq.interest \cap irq.pending = {}

IrqInv == IrqTypes /\ IrqLinks

\* The next position of the ring is a position of the ring.
LEMMA AdvanceInRing == \A p \in Positions : Advance(p) \in Positions
BY InterruptsAssumption DEF Positions, Advance

\* The records a release, a reset or an idle handler leaves behind are well formed.
LEMMA RestStates ==
    /\ NoPage \in IrqStates /\ NoPage.setUp = FALSE /\ NoPage.wait = "none"
    /\ Offline \in [online : BOOLEAN, rptr : Positions, overflows : BOOLEAN, stopping : BOOLEAN]
    /\ ResetRing \in [wptr : Positions, rptr : Positions, overflow : BOOLEAN, shadow : Positions,
                      shadowOverflow : BOOLEAN, armed : BOOLEAN, message : BOOLEAN]
    /\ NoHandler \in [at : {"idle", "reread", "recover", "dispatch"}, wptr : Positions, recovered : BOOLEAN]
    /\ NoHandler.at = "idle"
<1>1. 0 \in Positions
  BY InterruptsAssumption DEF Positions
<1>2. NoPage \in IrqStates /\ NoPage.setUp = FALSE /\ NoPage.wait = "none"
  BY DEF NoPage, IrqStates
<1> QED
  BY <1>1, <1>2 DEF Offline, ResetRing, NoHandler

\* Initially nobody waits.
LEMMA IrqInitInv == InterruptsInit => IrqInv
<1> SUFFICES ASSUME InterruptsInit PROVE IrqInv
  OBVIOUS
<1>1. (CHOOSE e \in Events : TRUE) \in Events
  BY InterruptsAssumption
<1>2. slots \in [Positions -> Events]
  BY <1>1 DEF InterruptsInit, Positions
<1> QED
  BY <1>2, RestStates DEF InterruptsInit, IrqInv, IrqTypes, IrqLinks

\* Every RPC, every step of the handler and every entry of the GPU keeps the invariant.
LEMMA IrqNextInv == IrqInv /\ [InterruptsNext]_irqVars => IrqInv'
<1> SUFFICES ASSUME IrqInv, [InterruptsNext]_irqVars PROVE IrqInv'
  OBVIOUS
<1> USE DEF IrqInv, HandlerIdle, RPC
<1>1. CASE SetupInterrupts
  <2>1. PICK page \in BOOLEAN, registered \in BOOLEAN :
            irq' = IF page THEN [NoPage EXCEPT !.queue = TRUE, !.setUp = registered, !.enabled = Bits]
                           ELSE irq
    BY <1>1 DEF SetupInterrupts
  <2>2. CASE page
    <3>1. irq' \in IrqStates
      BY <2>1, <2>2, RestStates DEF IrqStates
    <3>2. irq'.queue = TRUE /\ irq'.wait = "none"
      BY <2>1, <2>2, RestStates DEF IrqStates
    <3> QED
      BY <1>1, <3>1, <3>2 DEF SetupInterrupts, IrqTypes, IrqLinks
  <2>3. CASE ~page
    BY <1>1, <2>1, <2>3 DEF SetupInterrupts, IrqTypes, IrqLinks
  <2> QED
    BY <2>2, <2>3
<1>2. CASE WaitInterrupt
  <2>1. CASE irq.enabled \cap irq.pending # {}
    BY <1>2, <2>1 DEF WaitInterrupt, IrqTypes, IrqLinks, IrqStates
  <2>2. CASE irq.enabled \cap irq.pending = {}
    <3>1. irq' = [irq EXCEPT !.wait = "waiting", !.interest = irq.enabled]
      BY <1>2, <2>2 DEF WaitInterrupt
    <3>2. irq' \in IrqStates
      BY <3>1 DEF IrqTypes, IrqStates
    <3>3. irq'.queue = irq.queue /\ irq'.setUp = irq.setUp /\ irq'.pending = irq.pending /\ irq'.interest = irq.enabled
      BY <3>1 DEF IrqTypes, IrqStates
    <3> QED
      BY <1>2, <2>2, <3>2, <3>3 DEF WaitInterrupt, IrqTypes, IrqLinks
  <2> QED
    BY <2>1, <2>2
<1>3. CASE SetIRQMask
  <2>1. PICK mask \in SUBSET Bits : irq' = [irq EXCEPT !.enabled = mask]
    BY <1>3 DEF SetIRQMask
  <2> QED
    BY <1>3, <2>1 DEF SetIRQMask, IrqTypes, IrqLinks, IrqStates
<1>4. CASE ConsumePending
  BY <1>4 DEF ConsumePending, IrqTypes, IrqLinks, IrqStates
<1>5. CASE StopClient
  BY <1>5 DEF StopClient, IrqTypes, IrqLinks, IrqStates
<1>6. CASE ReleaseAll
  <2>1. PICK w \in {"none", "success", "aborted"} : irq' = [NoPage EXCEPT !.stopping = TRUE, !.wait = w]
    BY <1>6 DEF ReleaseAll, IrqTypes, IrqStates
  <2>2. irq' \in IrqStates
    BY <2>1, RestStates DEF IrqStates
  <2>3. irq'.wait # "waiting" /\ irq'.setUp = FALSE
    BY <2>1, RestStates DEF IrqStates
  <2> QED
    BY <1>6, <2>2, <2>3 DEF ReleaseAll, IrqTypes, IrqLinks
<1>7. CASE IHInitFull
  BY <1>7, RestStates DEF IHInitFull, IrqTypes, IrqLinks
<1>8. CASE InterruptDropped
  BY <1>8 DEF InterruptDropped, IrqTypes, IrqLinks
<1>9. CASE InterruptOccurred
  <2>1. irq' \in IrqStates /\ irq'.queue = irq.queue /\ irq'.setUp = irq.setUp /\ irq'.wait = irq.wait
    BY <1>9 DEF InterruptOccurred, IrqTypes, IrqStates, Bits
  <2>2. gpu' \in [wptr : Positions, rptr : Positions, overflow : BOOLEAN, shadow : Positions,
                  shadowOverflow : BOOLEAN, armed : BOOLEAN, message : BOOLEAN]
    BY <1>9 DEF InterruptOccurred, IrqTypes
  <2>3. UNCHANGED <<ih, slots>>
    BY <1>9 DEF InterruptOccurred
  <2>4. CASE ih.stopping
    <3>1. UNCHANGED handler
      BY <1>9, <2>4 DEF InterruptOccurred
    <3> QED
      BY <2>1, <2>2, <2>3, <2>4, <3>1 DEF IrqTypes, IrqLinks
  <2>5. CASE ~ih.stopping
    <3>1. PICK at \in {"reread", "dispatch"} : handler' = [NoHandler EXCEPT !.at = at, !.wptr = gpu.shadow]
      BY <1>9, <2>5 DEF InterruptOccurred
    <3>2. handler' \in [at : {"idle", "reread", "recover", "dispatch"}, wptr : Positions, recovered : BOOLEAN]
      BY <3>1, RestStates DEF IrqTypes
    <3>3. handler'.at # "idle"
      BY <3>1, RestStates
    <3> QED
      BY <2>1, <2>2, <2>3, <3>2, <3>3 DEF IrqTypes, IrqLinks
  <2> QED
    BY <2>4, <2>5
<1>10. CASE Reread
  BY <1>10 DEF Reread, IrqTypes, IrqLinks
<1>11. CASE Recover
  BY <1>11, AdvanceInRing DEF Recover, IrqTypes, IrqLinks
<1>12. CASE DrainAndWake
  <2>1. Raised \subseteq Bits
    BY DEF Raised, IrqTypes, IrqStates
  <2>2. Woken \in {"none", "success", "aborted"}
    BY DEF Woken, IrqTypes, IrqStates
  <2>3. PICK more \in SUBSET Bits : irq' = [irq EXCEPT !.pending = @ \cup more, !.wait = Woken]
    BY <1>12, <2>1 DEF DrainAndWake
  <2>4. irq' \in IrqStates /\ irq'.queue = irq.queue /\ irq'.setUp = irq.setUp /\ irq'.wait = Woken
    BY <2>2, <2>3 DEF IrqTypes, IrqStates
  <2>5. ih' \in [online : BOOLEAN, rptr : Positions, overflows : BOOLEAN, stopping : BOOLEAN]
    BY <1>12 DEF DrainAndWake, IrqTypes
  <2>6. gpu' \in [wptr : Positions, rptr : Positions, overflow : BOOLEAN, shadow : Positions,
                  shadowOverflow : BOOLEAN, armed : BOOLEAN, message : BOOLEAN]
    BY <1>12 DEF DrainAndWake, Rearmed, IrqTypes
  <2> QED
    BY <1>12, <2>2, <2>4, <2>5, <2>6, RestStates DEF DrainAndWake, IrqTypes, IrqLinks
<1>13. CASE WriteEntry
  <2>1. PICK e \in Events : LET full == gpu.overflow \/ Advance(gpu.wptr) = gpu.rptr
                            IN  /\ slots' = [slots EXCEPT ![gpu.wptr] = e]
                                /\ gpu' = [gpu EXCEPT !.wptr = Advance(@), !.overflow = full,
                                              !.shadow = Advance(gpu.wptr), !.shadowOverflow = full,
                                              !.message = @ \/ gpu.armed, !.armed = FALSE]
    BY <1>13 DEF WriteEntry
  <2>2. gpu.wptr \in Positions /\ Advance(gpu.wptr) \in Positions
    BY AdvanceInRing DEF IrqTypes
  <2>3. gpu' \in [wptr : Positions, rptr : Positions, overflow : BOOLEAN, shadow : Positions,
                  shadowOverflow : BOOLEAN, armed : BOOLEAN, message : BOOLEAN]
    BY <2>1, <2>2 DEF IrqTypes
  <2>4. slots' \in [Positions -> Events]
    BY <2>1, <2>2 DEF IrqTypes
  <2> QED
    BY <1>13, <2>3, <2>4 DEF WriteEntry, IrqTypes, IrqLinks
<1>15. CASE DriverStop
  BY <1>15 DEF DriverStop, IrqTypes, IrqLinks
<1>14. CASE UNCHANGED irqVars
  BY <1>14 DEF irqVars, IrqTypes, IrqLinks
<1> QED
  BY <1>1, <1>2, <1>3, <1>4, <1>5, <1>6, <1>7, <1>8, <1>9, <1>10, <1>11, <1>12, <1>13, <1>14, <1>15
  DEF InterruptsNext, HandlerStep

\* The invariant holds in every behaviour of the interrupt path.
THEOREM InterruptsSafe == InterruptsSpec => []IrqInv
<1>1. InterruptsInit => IrqInv
  BY IrqInitInv
<1>2. IrqInv /\ [InterruptsNext]_irqVars => IrqInv'
  BY IrqNextInv
<1> QED
  BY <1>1, <1>2, PTL DEF InterruptsSpec

\* For a ring of any size, no wakeup is lost between WaitInterrupt's look at the pending words and
\* the completion it installs, nor by a mask that changes under the wait, nor by a stop
\* of its client; only the handlers of a driver that is stopping leave a waited-for bit pending.
THEOREM WakeupsKept == InterruptsSpec => []NoLostWakeup
<1>1. IrqInv => NoLostWakeup
  BY DEF IrqInv, IrqTypes, IrqLinks, IrqStates, NoLostWakeup, InterruptsTypeOK, Positions
<1> QED
  BY <1>1, InterruptsSafe, PTL

-----------------------------------------------------------------------------
(* GPU-backed signals                                                      *)

Points == {"idle", "slot", "publish", "register", "operate", "execute", "lease", "fail", "kill", "wait"}
Creating == {"slot", "publish", "register"}

ClientStates == [at : Points, sig : Signals \cup {Nobody}, ctx : Contexts \cup {NoCtx}, hold : SUBSET Signals]
SignalStates == [st : {"unborn", "made", "gone"}, alive : BOOLEAN, ctx : Contexts \cup {NoCtx},
                 slot : Nat, value : {0, 1}]
ContextStates == [st : {"unborn", "live", "gone"}, faulted : BOOLEAN, used : SUBSET Slots,
                  published : SUBSET Signals]

SigTypes(tab, cl, sg, cx) ==
    /\ tab \in SUBSET Signals
    /\ cl \in [Clients -> ClientStates]
    /\ sg \in [Signals -> SignalStates]
    /\ cx \in [Contexts -> ContextStates]

\* What a thread works on, by where it is: a creation has claimed no slot before "publish", and has
\* published its signal at "register"; only fail() holds an array of signals; and every signal and
\* context a thread refers to exists.
ThreadOK(r, sg, cx) ==
    /\ r.at = "idle" => r.sig = Nobody /\ r.ctx = NoCtx
    /\ r.hold # {} => r.at = "kill"
    /\ r.at \in Creating \cup {"operate", "execute", "wait"} => r.sig \in Signals
    /\ r.at \in {"slot", "publish", "execute", "lease", "fail", "kill"} => r.ctx \in Contexts
    /\ r.at = "slot" => sg[r.sig].st = "unborn"
    /\ r.at = "publish" => sg[r.sig].ctx = r.ctx
    /\ r.at = "register" => r.sig \in cx[sg[r.sig].ctx].published
    /\ r.ctx \in Contexts => cx[r.ctx].st = "live"
    /\ \A s \in Signals : s \in r.hold \/ (s = r.sig /\ r.at # "slot") => sg[s].st = "made"

\* Creations exclude each other (executableLifecycleMutex).
SigThreads(cl, sg, cx) ==
    /\ \A t \in Clients : ThreadOK(cl[t], sg, cx)
    /\ \A t, u \in Clients : cl[t].at \in Creating /\ cl[u].at \in Creating => t = u

\* The signals of the map are made, and published in their context.
SigTable(tab, sg, cx) ==
    \A s \in tab : sg[s].st = "made" /\ s \in cx[sg[s].ctx].published

\* A signal that is made has its own slot in a live context; a context publishes its own signals and
\* uses their slots and no other.
SigSlots(sg, cx) ==
    /\ \A s \in Signals : sg[s].st = "made" => sg[s].ctx \in Contexts /\ cx[sg[s].ctx].st = "live"
    /\ \A r, s \in Signals :
          sg[r].st = "made" /\ sg[s].st = "made" /\ sg[r].ctx = sg[s].ctx /\ sg[r].slot = sg[s].slot => r = s
    /\ \A c \in Contexts :
          /\ cx[c].used = {sg[s].slot : s \in {x \in Signals : sg[x].st = "made" /\ sg[x].ctx = c}}
          /\ \A s \in cx[c].published : sg[s].st = "made" /\ sg[s].ctx = c

\* A signal published in a failed context is dead, or some fail() is about to kill it.
SigFaults(cl, sg, cx) ==
    \A c \in Contexts : cx[c].faulted =>
        \A s \in cx[c].published :
            \/ sg[s].alive = FALSE
            \/ \E t \in Clients : cl[t].at = "kill" /\ cl[t].ctx = c /\ (s \in cl[t].hold \/ s = cl[t].sig)

SigConsistent(tab, cl, sg, cx) ==
    SigTypes(tab, cl, sg, cx) /\ SigThreads(cl, sg, cx) /\ SigTable(tab, sg, cx)
    /\ SigSlots(sg, cx) /\ SigFaults(cl, sg, cx)

\* Between steps every signal that exists has a reference: its last holder destroyed it otherwise.
SigInv ==
    /\ SigConsistent(table, client, signal, context)
    /\ \A s \in Signals : signal[s].st = "made" => PinnedBy(table, client, s)

\* The end of a step, Settle, destroys what nobody refers to any more: from a consistent state it
\* leads to a consistent one in which every signal has a reference.
LEMMA SettleInv ==
    ASSUME NEW tab, NEW cl, NEW sg, NEW cx, SigConsistent(tab, cl, sg, cx), Settle(tab, cl, sg, cx)
    PROVE  SigInv'
<1> DEFINE dying == {s \in Signals : sg[s].st = "made" /\ ~PinnedBy(tab, cl, s)}
           sg2 == [s \in Signals |-> IF s \in dying THEN [sg[s] EXCEPT !.st = "gone"] ELSE sg[s]]
           lost(c) == {sg[s].slot : s \in {d \in dying : sg[d].ctx = c}}
           cx2 == [c \in Contexts |-> [cx[c] EXCEPT !.used = @ \ lost(c), !.published = @ \ dying]]
           kept(c) == \/ \E s \in Signals : sg2[s].st = "made" /\ sg2[s].ctx = c
                      \/ \E t \in Clients : cl[t].ctx = c
<1>1. table' = tab /\ client' = cl
  BY DEF Settle
<1>2. signal' = sg2
  BY DEF Settle
<1>3. context' = [c \in Contexts |-> IF cx[c].st = "live" /\ ~kept(c) THEN [cx2[c] EXCEPT !.st = "gone"] ELSE cx2[c]]
  BY DEF Settle
<1>4. SigTypes(tab, cl, sg, cx) /\ SigThreads(cl, sg, cx) /\ SigTable(tab, sg, cx)
      /\ SigSlots(sg, cx) /\ SigFaults(cl, sg, cx)
  BY DEF SigConsistent
<1>5. \A s \in Signals : /\ signal'[s].ctx = sg[s].ctx /\ signal'[s].slot = sg[s].slot
                         /\ signal'[s].alive = sg[s].alive
                         /\ signal'[s].st = IF s \in dying THEN "gone" ELSE sg[s].st
                         /\ signal'[s] \in SignalStates
  BY <1>2, <1>4 DEF SigTypes, SignalStates
<1>6. \A c \in Contexts : /\ cx2[c] \in ContextStates /\ cx2[c].st = cx[c].st /\ cx2[c].faulted = cx[c].faulted
                          /\ cx2[c].used = cx[c].used \ lost(c) /\ cx2[c].published = cx[c].published \ dying
  <2> HIDE DEF dying, lost
  <2> QED BY <1>4 DEF SigTypes, ContextStates
<1>7. \A c \in Contexts : /\ context'[c] \in ContextStates
                          /\ context'[c].faulted = cx[c].faulted
                          /\ context'[c].used = cx[c].used \ lost(c)
                          /\ context'[c].published = cx[c].published \ dying
                          /\ kept(c) => context'[c].st = cx[c].st
  <2> HIDE DEF dying, lost, cx2, kept
  <2> SUFFICES ASSUME NEW c \in Contexts
               PROVE  /\ context'[c] \in ContextStates
                      /\ context'[c].faulted = cx[c].faulted
                      /\ context'[c].used = cx[c].used \ lost(c)
                      /\ context'[c].published = cx[c].published \ dying
                      /\ kept(c) => context'[c].st = cx[c].st
    OBVIOUS
  <2>1. CASE cx[c].st = "live" /\ ~kept(c)
    <3>1. context'[c] = [cx2[c] EXCEPT !.st = "gone"]
      BY <1>3, <2>1
    <3> QED BY <2>1, <3>1, <1>6 DEF ContextStates
  <2>2. CASE ~(cx[c].st = "live" /\ ~kept(c))
    <3>1. context'[c] = cx2[c]
      BY <1>3, <2>2
    <3> QED BY <3>1, <1>6
  <2> QED BY <2>1, <2>2
<1>8. \A s \in Signals : s \in dying <=> sg[s].st = "made" /\ ~PinnedBy(tab, cl, s)
  OBVIOUS
<1>9. \A s \in tab : s \notin dying
  BY <1>8 DEF PinnedBy
<1>10. \A t \in Clients, s \in Signals : s \in cl[t].hold \/ s = cl[t].sig => s \notin dying
  BY <1>8 DEF PinnedBy
<1>11. \A s \in Signals : signal'[s].st = "made" <=> sg[s].st = "made" /\ s \notin dying
  BY <1>5
<1>12. \A c \in Contexts : kept(c) <=> \/ \E s \in Signals : signal'[s].st = "made" /\ signal'[s].ctx = c
                                       \/ \E t \in Clients : client'[t].ctx = c
  BY <1>1, <1>2
<1>13. \A c \in Contexts : lost(c) = {sg[s].slot : s \in {d \in dying : sg[d].ctx = c}}
  OBVIOUS
<1> HIDE DEF dying, sg2, lost, cx2, kept
<1>14. SigTypes(table', client', signal', context')
  <2>1. signal' \in [Signals -> SignalStates]
    BY <1>2, <1>5 DEF sg2
  <2>2. context' \in [Contexts -> ContextStates]
    BY <1>3, <1>7
  <2> QED BY <2>1, <2>2, <1>1, <1>4 DEF SigTypes
<1>15. SigThreads(client', signal', context')
  <2>1. ASSUME NEW t \in Clients PROVE ThreadOK(cl[t], signal', context')
    <3> DEFINE r == cl[t]
    <3>1. /\ r.at = "idle" => r.sig = Nobody /\ r.ctx = NoCtx
          /\ r.hold # {} => r.at = "kill"
          /\ r.at \in Creating \cup {"operate", "execute", "wait"} => r.sig \in Signals
          /\ r.at \in {"slot", "publish", "execute", "lease", "fail", "kill"} => r.ctx \in Contexts
      BY <1>4 DEF SigThreads, ThreadOK
    <3>2. r.at = "slot" => signal'[r.sig].st = "unborn"
      BY <3>1, <1>4, <1>5, <1>10 DEF SigThreads, ThreadOK, Creating
    <3>3. r.at = "publish" => signal'[r.sig].ctx = r.ctx
      BY <3>1, <1>4, <1>5 DEF SigThreads, ThreadOK, Creating
    <3>4. ASSUME r.at = "register"
          PROVE  r.sig \in context'[signal'[r.sig].ctx].published
      <4>1. r.sig \in Signals /\ r.sig \in cx[sg[r.sig].ctx].published /\ r.sig \notin dying
        BY <3>1, <3>4, <1>4, <1>10 DEF SigThreads, ThreadOK, Creating
      <4>2. sg[r.sig].ctx \in Contexts
        BY <3>4, <4>1, <1>4 DEF SigThreads, ThreadOK, SigSlots
      <4> QED BY <4>1, <4>2, <1>5, <1>7
    <3>5. r.ctx \in Contexts => context'[r.ctx].st = "live"
      BY <1>1, <1>4, <1>7, <1>12 DEF SigThreads, ThreadOK
    <3>6. \A s \in Signals : s \in r.hold \/ (s = r.sig /\ r.at # "slot") => signal'[s].st = "made"
      BY <1>4, <1>10, <1>11 DEF SigThreads, ThreadOK
    <3> HIDE DEF r
    <3>7. ThreadOK(r, signal', context')
      BY <3>1, <3>2, <3>3, <3>4, <3>5, <3>6 DEF ThreadOK
    <3> QED BY <3>7 DEF r
  <2> QED BY <2>1, <1>1, <1>4 DEF SigThreads
<1>16. SigTable(table', signal', context')
  <2>1. ASSUME NEW s \in tab PROVE signal'[s].st = "made" /\ s \in context'[signal'[s].ctx].published
    <3>1. s \in Signals /\ sg[s].st = "made" /\ s \in cx[sg[s].ctx].published
      BY <1>4 DEF SigTable, SigTypes
    <3>2. sg[s].ctx \in Contexts
      BY <3>1, <1>4 DEF SigSlots
    <3> QED BY <3>1, <3>2, <1>5, <1>7, <1>9
  <2> QED BY <2>1, <1>1 DEF SigTable
<1>17. SigSlots(signal', context')
  <2>1. ASSUME NEW s \in Signals, signal'[s].st = "made"
        PROVE  signal'[s].ctx \in Contexts /\ context'[signal'[s].ctx].st = "live"
    <3>1. sg[s].ctx \in Contexts /\ cx[sg[s].ctx].st = "live" /\ signal'[s].ctx = sg[s].ctx
      BY <2>1, <1>4, <1>5, <1>11 DEF SigSlots
    <3> QED BY <2>1, <3>1, <1>7, <1>12
  <2>2. ASSUME NEW r \in Signals, NEW s \in Signals, signal'[r].st = "made", signal'[s].st = "made",
               signal'[r].ctx = signal'[s].ctx, signal'[r].slot = signal'[s].slot
        PROVE  r = s
    BY <2>2, <1>4, <1>5, <1>11 DEF SigSlots
  <2>3. ASSUME NEW c \in Contexts
        PROVE  context'[c].used = {signal'[s].slot : s \in {x \in Signals : signal'[x].st = "made" /\ signal'[x].ctx = c}}
    <3>1. cx[c].used = {sg[s].slot : s \in {x \in Signals : sg[x].st = "made" /\ sg[x].ctx = c}}
      BY <1>4 DEF SigSlots
    <3>2. \A r, s \in Signals : sg[r].st = "made" /\ sg[s].st = "made" /\ sg[r].ctx = c /\ sg[s].ctx = c
                                /\ sg[r].slot = sg[s].slot => r = s
      BY <1>4 DEF SigSlots
    <3>3. ASSUME NEW n \in context'[c].used
          PROVE  \E s \in Signals : signal'[s].st = "made" /\ signal'[s].ctx = c /\ n = signal'[s].slot
      <4>1. n \in cx[c].used /\ n \notin lost(c)
        BY <1>7, <3>3
      <4>2. PICK s \in Signals : sg[s].st = "made" /\ sg[s].ctx = c /\ n = sg[s].slot
        BY <3>1, <4>1
      <4>3. s \notin dying
        BY <4>1, <4>2, <1>13
      <4> QED BY <4>2, <4>3, <1>5, <1>11
    <3>4. ASSUME NEW s \in Signals, signal'[s].st = "made", signal'[s].ctx = c
          PROVE  signal'[s].slot \in context'[c].used
      <4>1. sg[s].st = "made" /\ s \notin dying /\ sg[s].ctx = c /\ signal'[s].slot = sg[s].slot
        BY <3>4, <1>5, <1>11
      <4>2. sg[s].slot \in cx[c].used
        BY <3>1, <4>1
      <4>3. sg[s].slot \notin lost(c)
        BY <1>8, <1>13, <3>2, <4>1 DEF dying
      <4> QED BY <4>1, <4>2, <4>3, <1>7
    <3> QED BY <3>3, <3>4
  <2>4. ASSUME NEW c \in Contexts, NEW s \in context'[c].published
        PROVE  signal'[s].st = "made" /\ signal'[s].ctx = c
    <3>1. s \in cx[c].published /\ s \notin dying
      BY <2>4, <1>7
    <3>2. s \in Signals
      BY <3>1, <1>4 DEF SigTypes, ContextStates
    <3> QED BY <3>1, <3>2, <1>4, <1>5, <1>11 DEF SigSlots
  <2> QED BY <2>1, <2>2, <2>3, <2>4 DEF SigSlots
<1>18. SigFaults(client', signal', context')
  <2> SUFFICES ASSUME NEW c \in Contexts, context'[c].faulted, NEW s \in context'[c].published
               PROVE  \/ signal'[s].alive = FALSE
                      \/ \E t \in Clients : /\ client'[t].at = "kill" /\ client'[t].ctx = c
                                            /\ (s \in client'[t].hold \/ s = client'[t].sig)
    BY Zenon DEF SigFaults
  <2>1. cx[c].faulted /\ s \in cx[c].published
    BY <1>7
  <2>2. s \in Signals
    BY <2>1, <1>4 DEF SigTypes, ContextStates
  <2> QED BY <2>1, <2>2, <1>1, <1>4, <1>5 DEF SigFaults
<1>19. \A s \in Signals : signal'[s].st = "made" => PinnedBy(table', client', s)
  BY <1>1, <1>8, <1>11
<1> QED
  BY <1>14, <1>15, <1>16, <1>17, <1>18, <1>19 DEF SigInv, SigConsistent


\* A thread's next state, if it is in order, changes nothing else.  (fail() leaves "kill" below.)
LEMMA MoveConsistent ==
    ASSUME NEW tab, NEW cl, NEW sg, NEW cx, SigConsistent(tab, cl, sg, cx), NEW t \in Clients,
           NEW r \in ClientStates, ThreadOK(r, sg, cx), r.at \in Creating => cl[t].at \in Creating,
           \A c \in Contexts : \A s \in cx[c].published :
              cl[t].at = "kill" /\ cl[t].ctx = c /\ (s \in cl[t].hold \/ s = cl[t].sig) => sg[s].alive = FALSE
    PROVE  SigConsistent(tab, [cl EXCEPT ![t] = r], sg, cx)
<1> DEFINE cl2 == [cl EXCEPT ![t] = r]
<1>1. SigTypes(tab, cl, sg, cx) /\ SigThreads(cl, sg, cx) /\ SigTable(tab, sg, cx)
      /\ SigSlots(sg, cx) /\ SigFaults(cl, sg, cx)
  BY DEF SigConsistent
<1>2. cl2 \in [Clients -> ClientStates] /\ cl2[t] = r /\ \A u \in Clients : u # t => cl2[u] = cl[u]
  BY <1>1 DEF SigTypes
<1> HIDE DEF cl2
<1>3. SigTypes(tab, cl2, sg, cx)
  BY <1>1, <1>2 DEF SigTypes
<1>4. SigThreads(cl2, sg, cx)
  BY <1>1, <1>2 DEF SigThreads
<1>5. SigFaults(cl2, sg, cx)
  <2> SUFFICES ASSUME NEW c \in Contexts, cx[c].faulted, NEW s \in cx[c].published, ~(sg[s].alive = FALSE)
               PROVE  \E u \in Clients : /\ cl2[u].at = "kill" /\ cl2[u].ctx = c
                                         /\ (s \in cl2[u].hold \/ s = cl2[u].sig)
    BY Zenon DEF SigFaults
  <2>1. PICK u \in Clients : cl[u].at = "kill" /\ cl[u].ctx = c /\ (s \in cl[u].hold \/ s = cl[u].sig)
    BY <1>1, Zenon DEF SigFaults
  <2>2. u # t
    BY <2>1
  <2> QED BY <1>2, <2>1, <2>2
<1>6. SigConsistent(tab, cl2, sg, cx)
  BY <1>1, <1>3, <1>4, <1>5 DEF SigConsistent
<1> QED BY <1>6 DEF cl2

\* Signals that die, or whose value changes, leave the rest in order.
LEMMA DeadConsistent ==
    ASSUME NEW tab, NEW cl, NEW sg, NEW cx, SigConsistent(tab, cl, sg, cx),
           NEW sg2 \in [Signals -> SignalStates],
           \A s \in Signals : /\ sg2[s].st = sg[s].st /\ sg2[s].ctx = sg[s].ctx /\ sg2[s].slot = sg[s].slot
                              /\ sg[s].alive = FALSE => sg2[s].alive = FALSE
    PROVE  SigConsistent(tab, cl, sg2, cx)
<1>1. SigTypes(tab, cl, sg, cx) /\ SigThreads(cl, sg, cx) /\ SigTable(tab, sg, cx)
      /\ SigSlots(sg, cx) /\ SigFaults(cl, sg, cx)
  BY DEF SigConsistent
<1>2. SigTypes(tab, cl, sg2, cx)
  BY <1>1 DEF SigTypes
<1>3. \A t \in Clients : ThreadOK(cl[t], sg2, cx)
  BY <1>1 DEF SigThreads, ThreadOK, Creating
<1>4. SigThreads(cl, sg2, cx)
  BY <1>1, <1>3 DEF SigThreads
<1>5. SigTable(tab, sg2, cx)
  BY <1>1 DEF SigTypes, SigTable
<1>6. SigSlots(sg2, cx)
  <2>1. \A c \in Contexts :
          /\ {sg2[s].slot : s \in {x \in Signals : sg2[x].st = "made" /\ sg2[x].ctx = c}}
             = {sg[s].slot : s \in {x \in Signals : sg[x].st = "made" /\ sg[x].ctx = c}}
    OBVIOUS
  <2>2. \A c \in Contexts : cx[c].published \subseteq Signals
    BY <1>1 DEF SigTypes, ContextStates
  <2> QED BY <1>1, <2>1, <2>2 DEF SigSlots
<1>7. SigFaults(cl, sg2, cx)
  <2>1. \A c \in Contexts : \A s \in cx[c].published : s \in Signals
    BY <1>1 DEF SigTypes, ContextStates
  <2> QED BY <1>1, <2>1, Zenon DEF SigFaults
<1> QED BY <1>2, <1>4, <1>5, <1>6, <1>7 DEF SigConsistent


\* The record of a thread outside the runtime.
LEMMA IdleState ==
    /\ IdleClient \in ClientStates
    /\ IdleClient.at = "idle" /\ IdleClient.sig = Nobody /\ IdleClient.ctx = NoCtx /\ IdleClient.hold = {}
BY DEF IdleClient, ClientStates, Points

\* Back to "idle": every call that does not leave fail() may end.
LEMMA ReturnConsistent ==
    ASSUME NEW tab, NEW cl, NEW sg, NEW cx, SigConsistent(tab, cl, sg, cx), NEW t \in Clients,
           cl[t].at # "kill"
    PROVE  SigConsistent(tab, [cl EXCEPT ![t] = IdleClient], sg, cx)
<1>1. IdleClient \in ClientStates /\ ThreadOK(IdleClient, sg, cx) /\ IdleClient.at \notin Creating
  BY SignalsAssumption DEF IdleClient, ClientStates, ThreadOK, Points, Creating, Nobody, NoCtx
<1> HIDE DEF IdleClient
<1> QED BY <1>1, MoveConsistent

\* Initially there are no signals, contexts or calls.
LEMMA SigInitInv == SignalsInit => SigInv
<1> SUFFICES ASSUME SignalsInit PROVE SigInv
  OBVIOUS
<1>1. /\ table = {} /\ \A s \in Signals : signal[s] = Unmade /\ signal[s].st = "unborn"
      /\ \A c \in Contexts : context[c].used = {} /\ context[c].published = {} /\ context[c].faulted = FALSE
      /\ \A t \in Clients : client[t] = IdleClient
  BY DEF SignalsInit, Unmade
<1>2. SigTypes(table, client, signal, context)
  <2>1. Unmade \in SignalStates
    BY DEF Unmade, SignalStates
  <2>2. IdleClient \in ClientStates
    BY DEF IdleClient, ClientStates, Points
  <2>3. [st |-> "unborn", faulted |-> FALSE, used |-> {}, published |-> {}] \in ContextStates
    BY DEF ContextStates
  <2> QED BY <2>1, <2>2, <2>3 DEF SignalsInit, SigTypes
<1>3. SigThreads(client, signal, context)
  <2>1. \A sg, cx : ThreadOK(IdleClient, sg, cx)
    BY SignalsAssumption DEF IdleClient, ThreadOK, Creating, Nobody, NoCtx
  <2>2. IdleClient.at \notin Creating
    BY DEF IdleClient, Creating
  <2> QED BY <1>1, <2>1, <2>2 DEF SigThreads
<1>4. SigTable(table, signal, context) /\ SigFaults(client, signal, context)
  BY <1>1 DEF SigTable, SigFaults
<1>5. SigSlots(signal, context)
  BY <1>1 DEF SigSlots
<1> QED BY <1>1, <1>2, <1>3, <1>4, <1>5 DEF SigInv, SigConsistent

\* hsa_signal_create picks or sets up the context and occupies the creation lock.
LEMMA SignalCreateInv ==
    ASSUME SigInv, NEW t \in Clients, NEW s \in Signals, SignalCreate(t, s)
    PROVE  SigInv'
<1>1. PICK c \in Contexts : /\ context' = [context EXCEPT ![c].st = "live"]
                            /\ client' = [client EXCEPT ![t] = [IdleClient EXCEPT !.at = "slot", !.sig = s, !.ctx = c]]
  BY DEF SignalCreate, Become
<1>2. /\ client[t].at = "idle" /\ signal[s].st = "unborn" /\ UNCHANGED <<table, signal>>
      /\ \A u \in Clients : client[u].at \notin Creating
  BY DEF SignalCreate, Creating
<1>3. SigTypes(table, client, signal, context) /\ SigThreads(client, signal, context) /\ SigTable(table, signal, context)
      /\ SigSlots(signal, context) /\ SigFaults(client, signal, context)
      /\ \A x \in Signals : signal[x].st = "made" => PinnedBy(table, client, x)
  BY DEF SigInv, SigConsistent
<1>4. /\ context' \in [Contexts -> ContextStates] /\ context'[c].st = "live"
      /\ \A d \in Contexts : /\ context'[d].used = context[d].used /\ context'[d].published = context[d].published
                             /\ context'[d].faulted = context[d].faulted
                             /\ d # c => context'[d].st = context[d].st
  BY <1>1, <1>3 DEF SigTypes, ContextStates
<1> DEFINE r == [IdleClient EXCEPT !.at = "slot", !.sig = s, !.ctx = c]
<1>5. "slot" \in Points
  BY DEF Points
<1>6. r \in ClientStates /\ r.at = "slot" /\ r.sig = s /\ r.ctx = c /\ r.hold = {}
  BY <1>5, IdleState DEF ClientStates
<1>7. client' = [client EXCEPT ![t] = r]
  BY <1>1
<1> HIDE DEF r
<1>8. /\ client' \in [Clients -> ClientStates] /\ client'[t] = r
      /\ \A u \in Clients : u # t => client'[u] = client[u]
  BY <1>6, <1>7, <1>3 DEF SigTypes
<1>9. SigTypes(table', client', signal', context')
  BY <1>2, <1>3, <1>4, <1>8 DEF SigTypes
<1>10. \A u \in Clients : ThreadOK(client'[u], signal', context')
  <2>1. ThreadOK(r, signal', context')
    BY <1>2, <1>4, <1>6 DEF ThreadOK, Creating
  <2>2. ASSUME NEW u \in Clients, u # t PROVE ThreadOK(client[u], signal', context')
    <3>1. ThreadOK(client[u], signal, context)
      BY <1>3 DEF SigThreads
    <3>2. client[u].at = "register" => FALSE
      BY <1>2 DEF Creating
    <3> QED BY <1>2, <1>4, <3>1, <3>2 DEF ThreadOK
  <2> QED BY <1>8, <2>1, <2>2
<1>11. SigThreads(client', signal', context')
  BY <1>2, <1>8, <1>10 DEF SigThreads
<1>12. \A x \in Signals : signal[x].st = "made" => signal[x].ctx \in Contexts
  BY <1>3 DEF SigSlots
<1>13. SigTable(table', signal', context')
  BY <1>2, <1>3, <1>4, <1>12 DEF SigTable, SigTypes
<1>14. SigSlots(signal', context')
  BY <1>2, <1>3, <1>4, <1>12 DEF SigSlots
<1>15. SigFaults(client', signal', context')
  <2>1. \A u \in Clients : client[u].at = "kill" => client'[u] = client[u]
    BY <1>2, <1>8
  <2> QED BY <1>2, <1>3, <1>4, <2>1 DEF SigFaults
<1>16. \A x \in Signals : signal'[x].st = "made" => PinnedBy(table', client', x)
  <2>1. client[t].sig \notin Signals /\ client[t].hold = {}
    BY <1>2, <1>3, SignalsAssumption DEF SigThreads, ThreadOK, Nobody
  <2> QED BY <1>2, <1>3, <1>8, <2>1 DEF PinnedBy
<1> QED BY <1>9, <1>11, <1>13, <1>14, <1>15, <1>16 DEF SigInv, SigConsistent


\* A thread's step that leaves table, signals and contexts alone and keeps its references.
LEMMA ThreadStepInv ==
    ASSUME SigInv, NEW t \in Clients, NEW r \in ClientStates, ThreadOK(r, signal, context),
           r.at \notin Creating, client[t].at # "kill", client[t].sig \in {Nobody, r.sig},
           client' = [client EXCEPT ![t] = r], UNCHANGED <<table, signal, context>>
    PROVE  SigInv'
<1>1. SigConsistent(table, client, signal, context)
  BY DEF SigInv
<1>2. SigConsistent(table, [client EXCEPT ![t] = r], signal, context)
  BY <1>1, MoveConsistent
<1>3. client' = [client EXCEPT ![t] = r] /\ client[t].hold = {} /\ client \in [Clients -> ClientStates]
  BY <1>1 DEF SigConsistent, SigThreads, ThreadOK, SigTypes
<1>4. \A x \in Signals : PinnedBy(table, client, x) => PinnedBy(table, client', x)
  <2>1. client'[t].sig = r.sig /\ \A u \in Clients : u # t => client'[u] = client[u]
    BY <1>3
  <2>2. \A x \in Signals : x # Nobody
    BY SignalsAssumption DEF Nobody
  <2> QED BY <1>3, <2>1, <2>2 DEF PinnedBy
<1>5. SigConsistent(table', client', signal', context')
  BY <1>2
<1> QED BY <1>4, <1>5 DEF SigInv

\* A call that ends, or is refused, without leaving fail(): what it alone referred to is destroyed.
LEMMA ReturnInv ==
    ASSUME SigInv, NEW t \in Clients, client[t].at # "kill",
           Settle(table, Become(t, IdleClient), signal, context)
    PROVE  SigInv'
<1>1. SigConsistent(table, Become(t, IdleClient), signal, context)
  BY ReturnConsistent DEF SigInv, Become
<1> QED BY <1>1, SettleInv

\* A call that ends with its signals in another state: dead, or with another value.
LEMMA ReturnDeadInv ==
    ASSUME SigInv, NEW t \in Clients, client[t].at # "kill", NEW sg \in [Signals -> SignalStates],
           \A s \in Signals : /\ sg[s].st = signal[s].st /\ sg[s].ctx = signal[s].ctx /\ sg[s].slot = signal[s].slot
                              /\ signal[s].alive = FALSE => sg[s].alive = FALSE,
           Settle(table, Become(t, IdleClient), sg, context)
    PROVE  SigInv'
<1>1. SigConsistent(table, client, sg, context)
  BY DeadConsistent DEF SigInv
<1>2. SigConsistent(table, Become(t, IdleClient), sg, context)
  BY <1>1, ReturnConsistent DEF Become
<1> QED BY <1>2, SettleInv

\* Signals that die or change their value, without any thread's moving.
LEMMA DeadInv ==
    ASSUME SigInv, signal' \in [Signals -> SignalStates], UNCHANGED <<table, client, context>>,
           \A s \in Signals : /\ signal'[s].st = signal[s].st /\ signal'[s].ctx = signal[s].ctx
                              /\ signal'[s].slot = signal[s].slot
                              /\ signal[s].alive = FALSE => signal'[s].alive = FALSE
    PROVE  SigInv'
<1> DEFINE sg == signal'
<1>1. sg \in [Signals -> SignalStates]
  OBVIOUS
<1>2. \A s \in Signals : /\ sg[s].st = signal[s].st /\ sg[s].ctx = signal[s].ctx /\ sg[s].slot = signal[s].slot
                         /\ signal[s].alive = FALSE => sg[s].alive = FALSE
  OBVIOUS
<1>3. SigConsistent(table, client, signal, context)
  BY DEF SigInv
<1>4. SigConsistent(table, client, sg, context)
  <2> HIDE DEF sg
  <2> QED BY <1>1, <1>2, <1>3, DeadConsistent
<1>5. SigConsistent(table', client', signal', context')
  BY <1>4
<1>6. \A x \in Signals : signal'[x].st = "made" => PinnedBy(table', client', x)
  BY DEF SigInv, PinnedBy
<1> QED BY <1>5, <1>6 DEF SigInv


\* A set of slots that is not empty has a first one.
LEMMA FirstSlot ==
    ASSUME NEW F \in SUBSET Slots, F # {}
    PROVE  (CHOOSE i \in F : \A j \in F : i <= j) \in F
<1> DEFINE R == OpToRel(<, Nat)
<1>1. F \subseteq Nat
  BY SignalsAssumption
<1>2. IsWellFoundedOn(R, Nat)
  BY NatLessThanWellFounded DEF R
<1>3. PICK x \in F : \A y \in F : ~(<<y, x>> \in R)
  <2> HIDE DEF R
  <2> QED BY <1>1, <1>2, WFMin
<1>4. \A y \in F : ~(y < x)
  BY <1>1, <1>3 DEF R, OpToRel
<1>5. \A y \in F : x <= y
  BY <1>1, <1>4
<1> QED BY <1>5

\* The slot a creation claims was free, so it is this signal's alone.
LEMMA ClaimSlotInv ==
    ASSUME SigInv, NEW t \in Clients, ClaimSlot(t)
    PROVE  SigInv'
<1> DEFINE c == client[t].ctx
           s == client[t].sig
           free == Slots \ context[c].used
           slot == CHOOSE i \in free : \A j \in free : i <= j
<1>1. CASE context[c].faulted \/ free = {}
  <2>1. Settle(table, Become(t, IdleClient), signal, context) /\ client[t].at # "kill"
    BY <1>1 DEF ClaimSlot
  <2> QED BY <2>1, ReturnInv
<1>2. CASE ~(context[c].faulted \/ free = {})
  <2> DEFINE r == [client[t] EXCEPT !.at = "publish"]
             cl == [client EXCEPT ![t] = r]
             sg == [signal EXCEPT ![s].st = "made", ![s].ctx = c, ![s].slot = slot]
             cx == [context EXCEPT ![c].used = @ \union {slot}]
  <2>1. Settle(table, cl, sg, cx) /\ client[t].at = "slot"
    BY <1>2 DEF ClaimSlot, Become
  <2>2. SigTypes(table, client, signal, context) /\ SigThreads(client, signal, context) /\ SigTable(table, signal, context)
        /\ SigSlots(signal, context) /\ SigFaults(client, signal, context)
    BY DEF SigInv, SigConsistent
  <2>3. /\ c \in Contexts /\ s \in Signals /\ signal[s].st = "unborn" /\ context[c].st = "live"
        /\ client[t].hold = {} /\ client[t] \in ClientStates
    BY <2>1, <2>2 DEF SigThreads, ThreadOK, Creating, SigTypes
  <2>4. slot \in Slots /\ slot \notin context[c].used /\ slot \in Nat
    <3>1. free \in SUBSET Slots /\ free # {}
      BY <1>2
    <3>2. slot \in free
      <4> HIDE DEF free
      <4> QED BY <3>1, FirstSlot
    <3> QED BY <3>2, SignalsAssumption
  <2> HIDE DEF slot
  <2>5. r \in ClientStates /\ r.at = "publish" /\ r.sig = s /\ r.ctx = c /\ r.hold = {}
    <3>1. "publish" \in Points
      BY DEF Points
    <3> QED BY <2>3, <3>1 DEF ClientStates
  <2> HIDE DEF r
  <2>6. cl \in [Clients -> ClientStates] /\ cl[t] = r /\ \A u \in Clients : u # t => cl[u] = client[u]
    BY <2>2, <2>5 DEF SigTypes
  <2> HIDE DEF c, s
  <2>7. /\ sg \in [Signals -> SignalStates] /\ sg[s].st = "made" /\ sg[s].ctx = c /\ sg[s].slot = slot
        /\ \A x \in Signals : x # s => sg[x] = signal[x]
    BY <2>2, <2>3, <2>4 DEF SigTypes, SignalStates
  <2>8. /\ cx \in [Contexts -> ContextStates] /\ cx[c].used = context[c].used \cup {slot}
        /\ \A d \in Contexts : /\ cx[d].published = context[d].published /\ cx[d].faulted = context[d].faulted
                               /\ cx[d].st = context[d].st
                               /\ d # c => cx[d].used = context[d].used
    BY <2>2, <2>3, <2>4 DEF SigTypes, ContextStates
  <2> HIDE DEF cl, sg, cx
  <2>9. \A x \in Signals : signal[x].st = "made" => x # s /\ signal[x].ctx \in Contexts
    BY <2>2, <2>3 DEF SigSlots
  <2>10. SigTypes(table, cl, sg, cx)
    BY <2>2, <2>6, <2>7, <2>8 DEF SigTypes
  <2>11. SigThreads(cl, sg, cx)
    <3>1. ThreadOK(r, sg, cx)
      BY <2>3, <2>5, <2>7, <2>8 DEF ThreadOK, Creating
    <3>2. ASSUME NEW u \in Clients, u # t PROVE ThreadOK(client[u], sg, cx)
      <4>1. ThreadOK(client[u], signal, context) /\ client[u].at \notin Creating
        BY <2>1, <2>2, <3>2 DEF SigThreads, Creating
      <4> QED BY <4>1, <2>7, <2>8, <2>9 DEF ThreadOK, Creating
    <3> QED BY <2>1, <2>2, <2>6, <3>1, <3>2 DEF SigThreads, Creating
  <2>12. SigTable(table, sg, cx)
    BY <2>2, <2>7, <2>8, <2>9 DEF SigTable, SigTypes
  <2>13. SigSlots(sg, cx)
    <3>1. \A x \in Signals : sg[x].st = "made" => sg[x].ctx \in Contexts /\ cx[sg[x].ctx].st = "live"
      BY <2>2, <2>3, <2>7, <2>8 DEF SigSlots
    <3>2. \A x \in Signals : signal[x].st = "made" /\ signal[x].ctx = c => signal[x].slot # slot
      BY <2>2, <2>3, <2>4 DEF SigSlots
    <3>3. \A x, y \in Signals : sg[x].st = "made" /\ sg[y].st = "made" /\ sg[x].ctx = sg[y].ctx /\ sg[x].slot = sg[y].slot => x = y
      BY <2>2, <2>7, <2>9, <3>2 DEF SigSlots
    <3>4. ASSUME NEW d \in Contexts
          PROVE  cx[d].used = {sg[x].slot : x \in {y \in Signals : sg[y].st = "made" /\ sg[y].ctx = d}}
      <4>1. context[d].used = {signal[x].slot : x \in {y \in Signals : signal[y].st = "made" /\ signal[y].ctx = d}}
        BY <2>2 DEF SigSlots
      <4>2. CASE d = c
        BY <2>3, <2>7, <2>8, <2>9, <4>1, <4>2
      <4>3. CASE d # c
        BY <2>3, <2>7, <2>8, <2>9, <4>1, <4>3
      <4> QED BY <4>2, <4>3
    <3>5. \A d \in Contexts : \A x \in cx[d].published : x \in Signals /\ signal[x].st = "made" /\ signal[x].ctx = d
      BY <2>2, <2>8 DEF SigSlots, SigTypes, ContextStates
    <3>6. \A d \in Contexts : \A x \in cx[d].published : sg[x].st = "made" /\ sg[x].ctx = d
      BY <2>7, <2>9, <3>5
    <3> QED BY <3>1, <3>3, <3>4, <3>6 DEF SigSlots
  <2>14. SigFaults(cl, sg, cx)
    <3>1. \A d \in Contexts : \A x \in context[d].published : x \in Signals /\ x # s
      BY <2>2, <2>9 DEF SigSlots, SigTypes, ContextStates
    <3>2. \A u \in Clients : client[u].at = "kill" => cl[u] = client[u]
      BY <2>1, <2>6
    <3> QED BY <2>2, <2>7, <2>8, <3>1, <3>2 DEF SigFaults
  <2>15. SigConsistent(table, cl, sg, cx)
    BY <2>10, <2>11, <2>12, <2>13, <2>14 DEF SigConsistent
  <2> QED BY <2>1, <2>15, SettleInv
<1> QED BY <1>1, <1>2

\* A signal is published in a context that has not failed, or it dies with its creation.
LEMMA PublishInv ==
    ASSUME SigInv, NEW t \in Clients, Publish(t)
    PROVE  SigInv'
<1> DEFINE c == client[t].ctx
           s == client[t].sig
<1>1. SigTypes(table, client, signal, context) /\ SigThreads(client, signal, context) /\ SigTable(table, signal, context)
      /\ SigSlots(signal, context) /\ SigFaults(client, signal, context)
  BY DEF SigInv, SigConsistent
<1>2. client[t].at = "publish"
  BY DEF Publish
<1>3. /\ c \in Contexts /\ s \in Signals /\ signal[s].ctx = c /\ signal[s].st = "made" /\ client[t].hold = {}
      /\ client[t] \in ClientStates
  BY <1>1, <1>2 DEF SigThreads, ThreadOK, Creating, SigTypes
<1>4. CASE context[c].faulted
  <2> DEFINE sg == [signal EXCEPT ![s].alive = FALSE]
  <2>1. Settle(table, Become(t, IdleClient), sg, context)
    BY <1>4 DEF Publish
  <2> HIDE DEF s
  <2>2. sg \in [Signals -> SignalStates]
    BY <1>1, <1>3 DEF SigTypes, SignalStates
  <2>3. \A x \in Signals : /\ sg[x].st = signal[x].st /\ sg[x].ctx = signal[x].ctx /\ sg[x].slot = signal[x].slot
                           /\ signal[x].alive = FALSE => sg[x].alive = FALSE
    BY <1>1, <1>3 DEF SigTypes, SignalStates
  <2> HIDE DEF sg
  <2> QED BY <1>2, <2>1, <2>2, <2>3, ReturnDeadInv
<1>5. CASE ~context[c].faulted
  <2> DEFINE r == [client[t] EXCEPT !.at = "register", !.ctx = NoCtx]
             cl == [client EXCEPT ![t] = r]
             cx == [context EXCEPT ![c].published = @ \union {s}]
  <2>1. Settle(table, cl, signal, cx)
    BY <1>5 DEF Publish, Become
  <2>2. r \in ClientStates /\ r.at = "register" /\ r.sig = s /\ r.ctx = NoCtx /\ r.hold = {}
    <3>1. "register" \in Points
      BY DEF Points
    <3> QED BY <1>3, <3>1 DEF ClientStates
  <2> HIDE DEF r
  <2>3. cl \in [Clients -> ClientStates] /\ cl[t] = r /\ \A u \in Clients : u # t => cl[u] = client[u]
    BY <1>1, <2>2 DEF SigTypes
  <2> HIDE DEF c, s
  <2>4. /\ cx \in [Contexts -> ContextStates] /\ cx[c].published = context[c].published \cup {s}
        /\ \A d \in Contexts : /\ cx[d].used = context[d].used /\ cx[d].faulted = context[d].faulted
                               /\ cx[d].st = context[d].st
                               /\ d # c => cx[d].published = context[d].published
    BY <1>1, <1>3 DEF SigTypes, ContextStates
  <2> HIDE DEF cl, cx
  <2>5. SigTypes(table, cl, signal, cx)
    BY <1>1, <2>3, <2>4 DEF SigTypes
  <2>6. SigThreads(cl, signal, cx)
    <3>1. ThreadOK(r, signal, cx)
      BY <1>3, <2>2, <2>4, SignalsAssumption DEF ThreadOK, Creating, NoCtx
    <3>2. ASSUME NEW u \in Clients, u # t PROVE ThreadOK(client[u], signal, cx)
      <4>1. ThreadOK(client[u], signal, context) /\ client[u].at \notin Creating
        BY <1>1, <1>2, <3>2 DEF SigThreads, Creating
      <4> QED BY <4>1, <2>4 DEF ThreadOK, Creating
    <3> QED BY <1>1, <1>2, <2>3, <3>1, <3>2 DEF SigThreads, Creating
  <2>7. SigTable(table, signal, cx)
    <3>1. \A x \in table : x \in Signals /\ signal[x].ctx \in Contexts
      BY <1>1 DEF SigTable, SigTypes, SigSlots
    <3> QED BY <1>1, <2>4, <3>1 DEF SigTable
  <2>8. SigSlots(signal, cx)
    BY <1>1, <1>3, <2>4 DEF SigSlots
  <2>9. SigFaults(cl, signal, cx)
    <3>1. \A u \in Clients : client[u].at = "kill" => cl[u] = client[u]
      BY <1>2, <2>3
    <3>2. ~cx[c].faulted
      BY <1>3, <1>5, <2>4 DEF c
    <3>3. \A d \in Contexts : cx[d].faulted => d # c /\ context[d].faulted
      BY <2>4, <3>2
    <3> QED BY <1>1, <2>4, <3>1, <3>3 DEF SigFaults
  <2>10. SigConsistent(table, cl, signal, cx)
    BY <2>5, <2>6, <2>7, <2>8, <2>9 DEF SigConsistent
  <2> QED BY <2>1, <2>10, SettleInv
<1> QED BY <1>4, <1>5


\* Registration puts a published signal into the map.
LEMMA RegisterInv ==
    ASSUME SigInv, NEW t \in Clients, Register(t)
    PROVE  SigInv'
<1> DEFINE tab == table \union {client[t].sig}
<1>1. SigConsistent(table, client, signal, context) /\ client[t].at = "register"
  BY DEF SigInv, Register
<1>2. /\ client[t].sig \in Signals /\ signal[client[t].sig].st = "made"
      /\ client[t].sig \in context[signal[client[t].sig].ctx].published
  BY <1>1 DEF SigConsistent, SigThreads, ThreadOK, Creating
<1>3. SigConsistent(tab, client, signal, context)
  BY <1>1, <1>2 DEF SigConsistent, SigTypes, SigTable
<1> HIDE DEF tab
<1>4. SigConsistent(tab, [client EXCEPT ![t] = IdleClient], signal, context)
  BY <1>1, <1>3, ReturnConsistent
<1>5. Settle(tab, [client EXCEPT ![t] = IdleClient], signal, context)
  BY DEF Register, Become, tab
<1> QED BY <1>4, <1>5, SettleInv

\* hsa_signal_destroy and hsa_shut_down take signals out of the map, dead.
LEMMA SignalDestroyInv ==
    ASSUME SigInv, NEW t \in Clients, NEW doomed, SignalDestroy(t, doomed)
    PROVE  SigInv'
<1> DEFINE sg == [s \in Signals |-> IF s \in doomed THEN [signal[s] EXCEPT !.alive = FALSE] ELSE signal[s]]
<1>1. SigConsistent(table, client, signal, context)
  BY DEF SigInv
<1>2. sg \in [Signals -> SignalStates]
  BY <1>1 DEF SigConsistent, SigTypes, SignalStates
<1>3. \A s \in Signals : /\ sg[s].st = signal[s].st /\ sg[s].ctx = signal[s].ctx /\ sg[s].slot = signal[s].slot
                         /\ signal[s].alive = FALSE => sg[s].alive = FALSE
  BY <1>1 DEF SigConsistent, SigTypes, SignalStates
<1>4. Settle(table \ doomed, client, sg, context)
  BY DEF SignalDestroy
<1> HIDE DEF sg
<1>5. SigConsistent(table, client, sg, context)
  BY <1>1, <1>2, <1>3, DeadConsistent
<1>6. SigConsistent(table \ doomed, client, sg, context)
  BY <1>5 DEF SigConsistent, SigTypes, SigTable
<1> QED BY <1>4, <1>6, SettleInv

\* fail() latches the fault and holds every signal published in the context: all of them are
\* referenced, so none escapes the array of strong references.
LEMMA FailInv ==
    ASSUME SigInv, NEW t \in Clients, Fail(t)
    PROVE  SigInv'
<1> DEFINE c == client[t].ctx
           hold == {s \in context[c].published : PinnedBy(table, client, s)}
           r == [client[t] EXCEPT !.at = "kill", !.hold = hold]
<1>1. SigTypes(table, client, signal, context) /\ SigThreads(client, signal, context) /\ SigTable(table, signal, context)
      /\ SigSlots(signal, context) /\ SigFaults(client, signal, context)
      /\ \A x \in Signals : signal[x].st = "made" => PinnedBy(table, client, x)
  BY DEF SigInv, SigConsistent
<1>2. /\ client[t].at = "fail" /\ UNCHANGED <<table, signal>>
      /\ context' = [context EXCEPT ![c].faulted = TRUE] /\ client' = [client EXCEPT ![t] = r]
  BY DEF Fail, Become
<1>3. c \in Contexts /\ client[t] \in ClientStates /\ client[t].hold = {} /\ context[c].st = "live"
      /\ \A s \in Signals : s = client[t].sig => signal[s].st = "made"
  BY <1>1, <1>2 DEF SigTypes, SigThreads, ThreadOK
<1>4. hold = context[c].published /\ hold \in SUBSET Signals /\ \A s \in hold : signal[s].st = "made"
  BY <1>1, <1>3 DEF SigTypes, SigSlots, ContextStates
<1> HIDE DEF hold
<1>5. r \in ClientStates /\ r.at = "kill" /\ r.sig = client[t].sig /\ r.ctx = c /\ r.hold = hold
  <2>1. "kill" \in Points
    BY DEF Points
  <2> QED BY <1>3, <1>4, <2>1 DEF ClientStates
<1> HIDE DEF r
<1>6. client' \in [Clients -> ClientStates] /\ client'[t] = r /\ \A u \in Clients : u # t => client'[u] = client[u]
  BY <1>1, <1>2, <1>5 DEF SigTypes
<1> HIDE DEF c
<1>7. /\ context' \in [Contexts -> ContextStates]
      /\ \A d \in Contexts : /\ context'[d].used = context[d].used /\ context'[d].published = context[d].published
                             /\ context'[d].st = context[d].st
                             /\ d # c => context'[d].faulted = context[d].faulted
  BY <1>1, <1>2, <1>3 DEF SigTypes, ContextStates
<1>8. SigTypes(table', client', signal', context')
  BY <1>1, <1>2, <1>6, <1>7 DEF SigTypes
<1>9. \A x \in Signals : signal[x].st = "made" => signal[x].ctx \in Contexts
  BY <1>1 DEF SigSlots
<1>10. SigThreads(client', signal', context')
  <2>1. ThreadOK(r, signal', context')
    BY <1>2, <1>3, <1>4, <1>5, <1>7 DEF ThreadOK, Creating, c
  <2>2. ASSUME NEW u \in Clients, u # t PROVE ThreadOK(client[u], signal', context')
    <3>1. ThreadOK(client[u], signal, context)
      BY <1>1 DEF SigThreads
    <3>2. client[u].at = "register" => signal[client[u].sig].ctx \in Contexts
      BY <3>1, <1>9 DEF ThreadOK, Creating
    <3> QED BY <1>2, <1>7, <3>1, <3>2 DEF ThreadOK
  <2> QED BY <1>1, <1>2, <1>5, <1>6, <2>1, <2>2 DEF SigThreads, Creating
<1>11. SigTable(table', signal', context')
  BY <1>1, <1>2, <1>7, <1>9 DEF SigTable, SigTypes
<1>12. SigSlots(signal', context')
  BY <1>1, <1>2, <1>7, <1>9 DEF SigSlots
<1>13. SigFaults(client', signal', context')
  <2> SUFFICES ASSUME NEW d \in Contexts, context'[d].faulted, NEW s \in context'[d].published
               PROVE  \/ signal'[s].alive = FALSE
                      \/ \E u \in Clients : /\ client'[u].at = "kill" /\ client'[u].ctx = d
                                            /\ (s \in client'[u].hold \/ s = client'[u].sig)
    BY Zenon DEF SigFaults
  <2>1. CASE d = c
    BY <1>4, <1>5, <1>6, <1>7, <2>1
  <2>2. CASE d # c
    <3>1. \A u \in Clients : client[u].at = "kill" => client'[u] = client[u]
      BY <1>2, <1>6
    <3>2. context[d].faulted /\ s \in context[d].published
      BY <1>7, <2>2
    <3> QED BY <1>1, <1>2, <3>1, <3>2 DEF SigFaults
  <2> QED BY <2>1, <2>2
<1>14. \A x \in Signals : signal'[x].st = "made" => PinnedBy(table', client', x)
  BY <1>1, <1>2, <1>3, <1>5, <1>6 DEF PinnedBy
<1> QED BY <1>8, <1>10, <1>11, <1>12, <1>13, <1>14 DEF SigInv, SigConsistent

\* fail() kills what it holds before it leaves, so the fault is delivered.
LEMMA KillInv ==
    ASSUME SigInv, NEW t \in Clients, Kill(t)
    PROVE  SigInv'
<1> DEFINE dead == [x \in Signals |-> IF x \in client[t].hold \/ x = client[t].sig
                                      THEN [signal[x] EXCEPT !.alive = FALSE] ELSE signal[x]]
<1>1. SigConsistent(table, client, signal, context)
  BY DEF SigInv
<1>2. dead \in [Signals -> SignalStates]
  BY <1>1 DEF SigConsistent, SigTypes, SignalStates
<1>3. \A s \in Signals : /\ dead[s].st = signal[s].st /\ dead[s].ctx = signal[s].ctx /\ dead[s].slot = signal[s].slot
                         /\ signal[s].alive = FALSE => dead[s].alive = FALSE
                         /\ s \in client[t].hold \/ s = client[t].sig => dead[s].alive = FALSE
  BY <1>1 DEF SigConsistent, SigTypes, SignalStates
<1>4. Settle(table, [client EXCEPT ![t] = IdleClient], dead, context)
  BY DEF Kill, Become
<1> HIDE DEF dead
<1>5. SigConsistent(table, client, dead, context)
  BY <1>1, <1>2, <1>3, DeadConsistent
<1>6. IdleClient \in ClientStates /\ ThreadOK(IdleClient, dead, context) /\ IdleClient.at \notin Creating
  BY SignalsAssumption, IdleState DEF ThreadOK, Creating, Nobody, NoCtx
<1>7. \A c \in Contexts : \A s \in context[c].published : s \in Signals
  BY <1>1 DEF SigConsistent, SigTypes, ContextStates
<1>8. \A c \in Contexts : \A s \in context[c].published :
         client[t].at = "kill" /\ client[t].ctx = c /\ (s \in client[t].hold \/ s = client[t].sig) => dead[s].alive = FALSE
  BY <1>3, <1>7
<1>9. SigConsistent(table, [client EXCEPT ![t] = IdleClient], dead, context)
  BY <1>5, <1>6, <1>8, MoveConsistent
<1> QED BY <1>4, <1>9, SettleInv


\* Calls that begin: they find a signal in the map, or a live context.
LEMMA BeginInv ==
    ASSUME SigInv, NEW t \in Clients, client[t].at = "idle", NEW r \in ClientStates, r.hold = {},
           \/ r.at \in {"operate", "wait"} /\ r.sig \in table /\ r.ctx = NoCtx
           \/ r.at \in {"lease", "fail"} /\ r.sig = Nobody /\ r.ctx \in Contexts /\ context[r.ctx].st = "live",
           client' = [client EXCEPT ![t] = r], UNCHANGED <<table, signal, context>>
    PROVE  SigInv'
<1>1. SigConsistent(table, client, signal, context)
  BY DEF SigInv
<1>2. r.at \notin Creating \cup {"execute", "kill", "idle"}
  BY DEF Creating
<1>3. ThreadOK(r, signal, context)
  <2>1. \A x \in table : x \in Signals /\ signal[x].st = "made"
    BY <1>1 DEF SigConsistent, SigTable, SigTypes
  <2>2. NoCtx \notin Contexts /\ Nobody \notin Signals
    BY SignalsAssumption DEF NoCtx, Nobody
  <2> QED BY <1>2, <2>1, <2>2 DEF ThreadOK, Creating
<1>4. client[t].sig = Nobody
  BY <1>1 DEF SigConsistent, SigThreads, ThreadOK
<1> QED BY <1>2, <1>3, <1>4, ThreadStepInv

\* An operation enters the executor, is refused, is carried out, or finds the executor failed.
LEMMA OperationInv ==
    ASSUME SigInv, NEW t \in Clients, Enter(t) \/ Execute(t)
    PROVE  SigInv'
<1>1. SigConsistent(table, client, signal, context)
  BY DEF SigInv
<1>2. /\ client \in [Clients -> ClientStates] /\ signal \in [Signals -> SignalStates]
      /\ ThreadOK(client[t], signal, context) /\ SigSlots(signal, context)
  BY <1>1 DEF SigConsistent, SigTypes, SigThreads
<1> DEFINE s == client[t].sig
<1>3. s \in Signals /\ client[t].at \in {"operate", "execute"} /\ signal[s].st = "made" /\ client[t].hold = {}
      /\ client[t] \in ClientStates
  BY <1>2 DEF Enter, Execute, ThreadOK
<1>4. CASE Settle(table, Become(t, IdleClient), signal, context)
  BY <1>3, <1>4, ReturnInv
<1>5. ASSUME NEW b \in BOOLEAN, NEW v \in {0, 1}, NEW sg,
             sg = [signal EXCEPT ![s].alive = b] \/ sg = [signal EXCEPT ![s].value = v],
             b = FALSE, Settle(table, Become(t, IdleClient), sg, context)
      PROVE  SigInv'
  <2> HIDE DEF s
  <2>1. sg \in [Signals -> SignalStates]
    BY <1>2, <1>3, <1>5 DEF SignalStates
  <2>2. \A x \in Signals : /\ sg[x].st = signal[x].st /\ sg[x].ctx = signal[x].ctx /\ sg[x].slot = signal[x].slot
                           /\ signal[x].alive = FALSE => sg[x].alive = FALSE
    BY <1>2, <1>3, <1>5 DEF SignalStates
  <2> QED BY <1>3, <1>5, <2>1, <2>2, ReturnDeadInv
<1>6. CASE client' = Become(t, [client[t] EXCEPT !.at = "execute", !.ctx = signal[s].ctx])
           /\ UNCHANGED <<table, signal, context>>
  <2> DEFINE r == [client[t] EXCEPT !.at = "execute", !.ctx = signal[s].ctx]
  <2>1. signal[s].ctx \in Contexts /\ context[signal[s].ctx].st = "live" /\ "execute" \in Points
    BY <1>2, <1>3 DEF SigSlots, Points
  <2>2. r \in ClientStates /\ r.at = "execute" /\ r.sig = s /\ r.ctx = signal[s].ctx /\ r.hold = {}
    BY <1>3, <2>1 DEF ClientStates
  <2>3. client' = [client EXCEPT ![t] = r]
    BY <1>6 DEF Become
  <2> HIDE DEF r
  <2>4. ThreadOK(r, signal, context) /\ r.at \notin Creating
    BY <1>3, <2>1, <2>2 DEF ThreadOK, Creating
  <2> QED BY <1>3, <1>6, <2>2, <2>3, <2>4, ThreadStepInv
<1>7. CASE Execute(t) /\ client' = Become(t, [client[t] EXCEPT !.at = "fail"]) /\ UNCHANGED <<table, signal, context>>
  <2> DEFINE r == [client[t] EXCEPT !.at = "fail"]
  <2>1. "fail" \in Points /\ client[t].at = "execute"
    BY <1>7 DEF Points, Execute
  <2>2. r \in ClientStates /\ r.at = "fail" /\ r.sig = s /\ r.ctx = client[t].ctx /\ r.hold = {}
    BY <1>3, <2>1 DEF ClientStates
  <2>3. client' = [client EXCEPT ![t] = r]
    BY <1>7 DEF Become
  <2> HIDE DEF r
  <2>4. ThreadOK(r, signal, context) /\ r.at \notin Creating
    BY <1>2, <1>3, <2>1, <2>2 DEF ThreadOK, Creating
  <2> QED BY <1>3, <1>7, <2>2, <2>3, <2>4, ThreadStepInv
<1>8. CASE Enter(t)
  BY <1>4, <1>6, <1>8 DEF Enter
<1>9. CASE Execute(t)
  <2>1. CASE Settle(table, Become(t, IdleClient), [signal EXCEPT ![s].alive = FALSE], context)
    BY <1>5, <2>1
  <2>2. CASE \E v \in {0, 1} : Settle(table, Become(t, IdleClient), [signal EXCEPT ![s].value = v], context)
    BY <1>5, <2>2
  <2> QED BY <1>7, <1>9, <2>1, <2>2 DEF Execute
<1> QED BY <1>8, <1>9

\* A poll or the packet processor changes one signal and nothing else.
LEMMA OneSignalInv ==
    ASSUME SigInv, NEW s \in Signals, UNCHANGED <<table, context, client>>,
           signal' = [signal EXCEPT ![s].alive = FALSE] \/ signal' = [signal EXCEPT ![s].value = 0]
    PROVE  SigInv'
<1>1. signal \in [Signals -> SignalStates]
  BY DEF SigInv, SigConsistent, SigTypes
<1>2. signal' \in [Signals -> SignalStates]
  <2>1. signal[s] \in SignalStates
    BY <1>1
  <2>2. [signal[s] EXCEPT !.alive = FALSE] \in SignalStates /\ [signal[s] EXCEPT !.value = 0] \in SignalStates
    BY <2>1 DEF SignalStates
  <2> QED
    BY <1>1, <2>2
<1>3. \A x \in Signals : /\ signal'[x].st = signal[x].st /\ signal'[x].ctx = signal[x].ctx
                         /\ signal'[x].slot = signal[x].slot
                         /\ signal[x].alive = FALSE => signal'[x].alive = FALSE
  BY <1>1 DEF SignalStates
<1> QED BY <1>2, <1>3, DeadInv


\* Every step of a thread and of the GPU keeps the invariant.
LEMMA SigNextInv == SigInv /\ [SignalsNext]_signalVars => SigInv'
<1> SUFFICES ASSUME SigInv, [SignalsNext]_signalVars PROVE SigInv'
  OBVIOUS
<1>1. SigConsistent(table, client, signal, context)
  BY DEF SigInv
<1>2. ASSUME NEW t \in Clients, ClientStep(t) PROVE SigInv'
  <2>1. CASE EndLease(t) \/ WaitReturns(t)
    BY <2>1, ReturnInv DEF EndLease, WaitReturns
  <2>2. CASE Poll(t)
    <3>1. client[t].sig \in Signals
      BY <1>1, <2>2 DEF Poll, SigConsistent, SigThreads, ThreadOK
    <3> QED BY <2>2, <3>1, OneSignalInv DEF Poll
  <2> QED
    BY <1>2, <2>1, <2>2, ClaimSlotInv, PublishInv, RegisterInv, OperationInv, FailInv, KillInv DEF ClientStep
<1>3. ASSUME NEW t \in Clients, ClientCall(t) PROVE SigInv'
  <2>1. ASSUME NEW s \in Signals, NEW at \in {"operate", "wait"}, Begin(t, s, at) PROVE SigInv'
    <3> DEFINE r == [IdleClient EXCEPT !.at = at, !.sig = s]
    <3>1. at \in Points
      BY DEF Points
    <3>2. r \in ClientStates /\ r.at = at /\ r.sig = s /\ r.ctx = NoCtx /\ r.hold = {}
      BY <3>1, IdleState DEF ClientStates
    <3>3. client' = [client EXCEPT ![t] = r] /\ UNCHANGED <<table, signal, context>> /\ client[t].at = "idle" /\ s \in table
      BY <2>1 DEF Begin, Become
    <3> HIDE DEF r
    <3> QED BY <3>2, <3>3, BeginInv
  <2>2. ASSUME Reclaim(t) \/ Invalidate(t) PROVE SigInv'
    <3>1. PICK c \in Contexts, at \in {"lease", "fail"} :
             /\ context[c].st = "live" /\ client[t].at = "idle" /\ UNCHANGED <<table, signal, context>>
             /\ client' = [client EXCEPT ![t] = [IdleClient EXCEPT !.at = at, !.ctx = c]]
      BY <2>2 DEF Reclaim, Invalidate, Become
    <3> DEFINE r == [IdleClient EXCEPT !.at = at, !.ctx = c]
    <3>2. at \in Points
      BY DEF Points
    <3>3. r \in ClientStates /\ r.at = at /\ r.sig = Nobody /\ r.ctx = c /\ r.hold = {}
      BY <3>2, IdleState DEF ClientStates
    <3>4. client' = [client EXCEPT ![t] = r]
      BY <3>1
    <3> HIDE DEF r
    <3> QED BY <3>1, <3>3, <3>4, BeginInv
  <2> QED BY <1>3, <2>1, <2>2, SignalCreateInv, SignalDestroyInv DEF ClientCall
<1>4. ASSUME NEW s \in Signals, GPUWrites(s) PROVE SigInv'
  BY <1>4, OneSignalInv DEF GPUWrites
<1>5. CASE UNCHANGED signalVars
  <2>1. SigConsistent(table', client', signal', context')
    BY <1>1, <1>5 DEF signalVars
  <2> QED BY <1>5, <2>1 DEF signalVars, SigInv, PinnedBy
<1> QED BY <1>2, <1>3, <1>4, <1>5 DEF SignalsNext

\* The invariant holds in every behaviour of the signals of a connection.
THEOREM SignalsSafe == SignalsSpec => []SigInv
<1>1. SignalsInit => SigInv
  BY SigInitInv
<1>2. SigInv /\ [SignalsNext]_signalVars => SigInv'
  BY SigNextInv
<1> QED
  BY <1>1, <1>2, PTL DEF SignalsSpec

\* For any number of threads, signals, contexts and slots: a context's failure reaches every signal
\* published in it, however creation, publication, destruction and failure interleave, and slots are
\* neither shared nor lost (gpu_signals.cpp).
THEOREM FaultsDelivered == SignalsSpec => []FaultKillsSignals
<1>1. ASSUME SigInv PROVE FaultKillsSignals
  <2>1. SigTypes(table, client, signal, context) /\ SigTable(table, signal, context)
        /\ SigSlots(signal, context) /\ SigFaults(client, signal, context)
    BY <1>1 DEF SigInv, SigConsistent
  <2> SUFFICES ASSUME NEW c \in Contexts
               PROVE  LET owners == {s \in Signals : signal[s].st = "made" /\ signal[s].ctx = c}
                      IN  /\ (context[c].faulted /\ \A t \in Clients : ~(client[t].at = "kill" /\ client[t].ctx = c)) =>
                                 \A s \in Signals : (signal[s].ctx = c /\ s \in table) => ~signal[s].alive
                          /\ context[c].used = {signal[s].slot : s \in owners}
                          /\ Cardinality(owners) = Cardinality(context[c].used)
                          /\ owners # {} => context[c].st = "live"
    BY DEF FaultKillsSignals
  <2> DEFINE owners == {s \in Signals : signal[s].st = "made" /\ signal[s].ctx = c}
  <2>2. (context[c].faulted /\ \A t \in Clients : ~(client[t].at = "kill" /\ client[t].ctx = c)) =>
            \A s \in Signals : (signal[s].ctx = c /\ s \in table) => ~signal[s].alive
    BY <2>1 DEF SigTable, SigFaults
  <2>3. context[c].used = {signal[s].slot : s \in owners}
    BY <2>1 DEF SigSlots
  <2>4. owners # {} => context[c].st = "live"
    BY <2>1 DEF SigSlots
  <2>5. Cardinality(owners) = Cardinality(context[c].used)
    <3> DEFINE f == [s \in owners |-> signal[s].slot]
    <3>1. f \in [owners -> context[c].used]
      BY <2>3
    <3>2. \A a, b \in owners : f[a] = f[b] => a = b
      BY <2>1 DEF SigSlots
    <3>3. \A n \in context[c].used : \E s \in owners : f[s] = n
      BY <2>3
    <3>4. IsFiniteSet(owners)
      BY SignalsAssumption, FS_Subset
    <3> HIDE DEF f, owners
    <3>5. f \in Bijection(owners, context[c].used)
      BY <3>1, <3>2, <3>3, Fun_IsBij
    <3>6. ExistsBijection(owners, context[c].used)
      BY <3>5 DEF ExistsBijection
    <3> QED BY <3>4, <3>6, FS_Bijection
  <2> QED BY <2>2, <2>3, <2>4, <2>5
<1> QED
  BY <1>1, SignalsSafe, PTL

-----------------------------------------------------------------------------
(* Queues of the runtime                                                   *)

\* Where a frame may be: with a reference of its own, or without one.
RefAts == {"c_start", "c_done", "service", "notify", "release", "ring", "unpin", "profile",
           "d_inactivate", "d_erase", "d_stop", "d_join", "inactivate"}
LooseAts == {"c_unlock", "loop", "callback", "s_stop", "s_join", "x_stop", "x_join", "x_free"}
CreateAts == {"c_start", "c_done", "c_unlock"}
DtorAts == {"x_stop", "x_join", "x_free"}
LoopAts == {"loop", "service", "notify", "release"}

StackFrames == [at : RefAts \cup LooseAts, q : Queues \cup {None}, ref : BOOLEAN,
                todo : SUBSET Queues, retired : SUBSET Queues]

\* What a frame of thread t looks like.
GoodFrames(t) ==
    {f \in StackFrames :
        /\ f.ref = TRUE <=> f.at \in RefAts
        /\ f.at \in (RefAts \cup LooseAts) \ {"c_unlock", "s_stop"} => f.q \in Queues
        /\ f.at \notin {"s_stop", "s_join"} => f.retired = {}
        /\ f.todo \subseteq f.retired
        /\ f.at = "s_join" => f.q \in f.retired \ f.todo
        /\ f.at \in LoopAts => f.q = t}

QueueStates == [st : {"unborn", "live", "gone"}, soft : BOOLEAN, active : BOOLEAN,
                handle : BOOLEAN, err : BOOLEAN, kicked : BOOLEAN, profiled : BOOLEAN,
                stop : BOOLEAN, thread : {"none", "held", "moved"},
                backing : {"none", "held", "freed", "retained"}]

DataTypes ==
    /\ references \in Nat /\ inits \in Nat /\ references <= inits /\ inits <= MaxInits
    /\ registry \subseteq Queues
    /\ queue \in [Queues -> QueueStates]
    /\ backend \in [Queues -> {"none", "running", "destroyed"}]
    /\ lifecycle \in Threads \union {"free"}
    /\ reported \in [Queues -> Nat]
    /\ retiredOK \subseteq Queues

QueuesTypes == DataTypes /\ stack \in [Threads -> Seq(StackFrames)]

Shaped == \A t \in Threads : \A i \in DOMAIN stack[t] : stack[t][i] \in GoodFrames(t)

\* A queue that is destroyed, or being destroyed, has no reference left.
Unreferenced ==
    /\ \A q \in Queues : queue[q].st = "gone" => ~Referenced(q)
    /\ \A t \in Threads : \A i \in DOMAIN stack[t] :
          stack[t][i].at \in DtorAts => ~Referenced(stack[t][i].q)

\* A queue that was not created is in its initial state and nothing mentions it.
Unborn ==
    /\ \A q \in Queues : queue[q].st = "unborn" =>
          queue[q] = Fresh /\ backend[q] = "none" /\ q \notin registry /\ q \notin retiredOK
    /\ \A t \in Threads : \A i \in DOMAIN stack[t] : \A q \in Queues :
          (stack[t][i].q = q \/ q \in stack[t][i].retired) => queue[q].st # "unborn"

\* A service thread that exists was started.
Started == \A q \in Queues : stack[q] # <<>> => queue[q].thread # "none"

\* Creation holds the lifecycle mutex and makes no callback, so it does not nest; before the service is
\* started nobody else has the queue.
InCreation ==
    \A t \in Threads : \A i \in DOMAIN stack[t] :
        /\ stack[t][i].at \in CreateAts =>
              lifecycle = t /\ \A j \in DOMAIN stack[t] : stack[t][j].at \in CreateAts => j = i
        /\ stack[t][i].at = "c_start" =>
              /\ i = 1 /\ stack[t][i].q \in registry /\ queue[stack[t][i].q].thread = "none"
              /\ \A s \in Threads \ {t} : \A j \in DOMAIN stack[s] :
                    stack[s][j].q # stack[t][i].q /\ stack[t][i].q \notin stack[s][j].retired

\* The frame has taken over from the registry to stop the queue's service.
Claims(f, q) == \/ f.at \in {"d_stop", "d_join", "s_join"} /\ f.q = q
                \/ q \in f.todo
Pending(f, q) == (f.at = "d_stop" /\ f.q = q) \/ q \in f.todo

\* What was taken over is no longer in the registry; a service thread is stopped by whoever took
\* its queue over, and there is one such frame at most.
Claimed ==
    /\ \A q \in Queues : queue[q].thread = "moved" => q \notin registry
    /\ \A t \in Threads : \A i \in DOMAIN stack[t] : \A q \in Queues :
          /\ (Claims(stack[t][i], q) \/ q \in stack[t][i].retired) => q \notin registry
          /\ Pending(stack[t][i], q) => queue[q].thread # "moved"
          /\ \A s \in Threads : \A j \in DOMAIN stack[s] :
                Claims(stack[t][i], q) /\ Claims(stack[s][j], q) => s = t /\ j = i

\* A queue whose service was stopped and joined has no service thread any more.
Joined ==
    /\ \A t \in Threads : \A i \in DOMAIN stack[t] : \A q \in stack[t][i].retired :
          ~Claims(stack[t][i], q) /\ t # q => stack[q] = <<>>
    /\ \A q \in retiredOK : stack[q] = <<>> /\ q \notin registry

\* The driver's queue behind the object.
Backed ==
    \A q \in Queues :
        /\ backend[q] = "running" => queue[q].handle = TRUE /\ queue[q].active = TRUE
        /\ queue[q].backing = "freed" => backend[q] # "running" /\ queue[q].st = "gone"

\* An error is latched before it is reported.
Latched ==
    /\ \A q \in Queues : reported[q] <= 1 /\ (reported[q] # 0 => queue[q].err = TRUE)
    /\ \A t \in Threads : \A i \in DOMAIN stack[t] :
          stack[t][i].at = "notify" => queue[stack[t][i].q].err = TRUE /\ reported[stack[t][i].q] = 0

QueuesInv ==
    /\ QueuesTypes /\ Shaped /\ Unreferenced /\ Unborn /\ Started
    /\ InCreation /\ Claimed /\ Joined /\ Backed /\ Latched

-----------------------------------------------------------------------------
\* A step of thread t: n new frames on what is left of its stack below the frame it was in.  Only
\* hsa_queue_create gives another thread, the service thread it starts, its first frame.
StepOf(t, n, new) ==
    /\ new \in Seq(StackFrames) /\ stack' \in [Threads -> Seq(StackFrames)] /\ stack'[t] = new
    /\ \A i \in DOMAIN new : i > n => i - n + 1 \in DOMAIN stack[t] /\ new[i] = stack[t][i - n + 1]
    /\ t \in Queues /\ stack[t] = <<>> => new = <<>>
    /\ \A s \in Threads \ {t} :
          \/ stack'[s] = stack[s]
          \/ /\ s \in registry /\ stack[s] = <<>> /\ stack'[s] = <<Frame("loop", s, FALSE)>>
             /\ lifecycle = t /\ queue'[s].thread # "none"

\* After a step every frame is an old one, one of the new ones, or the first of a service thread.
FrameCase(t, n, new, s, i) ==
    \/ \E j \in DOMAIN stack[s] : stack'[s][i] = stack[s][j] /\ (s = t => j >= 2)
    \/ s = t /\ i \in DOMAIN new /\ i <= n /\ stack'[s][i] = new[i]
    \/ s # t /\ s \in registry /\ stack'[s][i] = Frame("loop", s, FALSE) /\ lifecycle = t

\* Where each frame of the next state comes from.
LEMMA FrameCases ==
    ASSUME NEW t \in Threads, NEW n \in 0 .. 2, NEW new, StepOf(t, n, new),
           stack \in [Threads -> Seq(StackFrames)],
           NEW s \in Threads, NEW i \in DOMAIN stack'[s]
    PROVE  FrameCase(t, n, new, s, i)
<1>1. CASE s = t
  <2>1. new \in Seq(StackFrames) /\ stack'[s] = new /\ i \in DOMAIN new /\ i \in Nat /\ i >= 1
    BY <1>1 DEF StepOf
  <2>2. CASE i <= n
    BY <1>1, <2>1, <2>2 DEF FrameCase
  <2>3. CASE i > n
    <3>1. i - n + 1 \in DOMAIN stack[t] /\ new[i] = stack[t][i - n + 1]
      BY <2>1, <2>3 DEF StepOf
    <3>2. i - n + 1 >= 2
      BY <2>1, <2>3
    <3> QED
      BY <1>1, <2>1, <3>1, <3>2 DEF FrameCase
  <2>4. i <= n \/ i > n
    BY <2>1
  <2> QED
    BY <2>2, <2>3, <2>4
<1>2. CASE s # t /\ stack'[s] = stack[s]
  BY <1>2 DEF FrameCase
<1>3. CASE s # t /\ s \in registry /\ stack'[s] = <<Frame("loop", s, FALSE)>> /\ lifecycle = t
  <2> DEFINE f == Frame("loop", s, FALSE)
  <2>1. stack'[s] = <<f>>
    BY <1>3
  <2> HIDE DEF f
  <2>2. stack'[s][i] = f
    BY <2>1
  <2> QED
    BY <1>3, <2>2 DEF f, FrameCase
<1> QED
  BY <1>1, <1>2, <1>3 DEF StepOf

\* A service thread that has not begun or has ended does not begin once its queue is withdrawn.
LEMMA EndedStays ==
    ASSUME NEW t \in Threads, NEW n \in 0 .. 2, NEW new, StepOf(t, n, new),
           NEW q \in Queues, stack[q] = <<>>, q \notin registry
    PROVE  stack'[q] = <<>>
BY DEF StepOf, Threads

\* Every frame keeps its shape.
LEMMA ShapedStep ==
    ASSUME QueuesInv, NEW t \in Threads, NEW n \in 0 .. 2, NEW new, StepOf(t, n, new),
           \A i \in DOMAIN new : i <= n => new[i] \in GoodFrames(t)
    PROVE  Shaped'
<1> SUFFICES ASSUME NEW s \in Threads, NEW i \in DOMAIN stack'[s] PROVE stack'[s][i] \in GoodFrames(s)
  BY DEF Shaped
<1>1. stack \in [Threads -> Seq(StackFrames)] /\ Shaped /\ registry \subseteq Queues
  BY DEF QueuesInv, QueuesTypes, DataTypes
<1>2. CASE \E j \in DOMAIN stack[s] : stack'[s][i] = stack[s][j]
  BY <1>1, <1>2 DEF Shaped
<1>3. CASE s \in registry /\ stack'[s][i] = Frame("loop", s, FALSE)
  <2>1. s \in Queues
    BY <1>1, <1>3
  <2>2. Frame("loop", s, FALSE) \in GoodFrames(s)
    BY <2>1 DEF Frame, GoodFrames, StackFrames, RefAts, LooseAts, LoopAts
  <2> QED
    BY <1>3, <2>2
<1> QED
  <2>1. FrameCase(t, n, new, s, i)
    BY <1>1, FrameCases
  <2> QED
    BY <1>2, <1>3, <2>1 DEF FrameCase

\* What was not referenced is referenced by nobody after the step, unless it is just created.
LEMMA NoRevival ==
    ASSUME QueuesInv, NEW t \in Threads, NEW n \in 0 .. 2, NEW new, StepOf(t, n, new),
           NEW q \in Queues, ~Referenced(q), queue[q].st # "unborn", q \in registry' => q \in registry,
           \A i \in DOMAIN new : i <= n => (Holds(new[i], q) => Referenced(q))
    PROVE  q \notin registry' /\ ~Held(stack', q)
<1>1. stack \in [Threads -> Seq(StackFrames)]
  BY DEF QueuesInv, QueuesTypes, DataTypes
<1>2. q \notin registry' /\ ~Held(stack, q)
  BY DEF Referenced
<1>3. ASSUME NEW s \in Threads, NEW i \in DOMAIN stack'[s], Holds(stack'[s][i], q) PROVE FALSE
  <2>1. CASE \E j \in DOMAIN stack[s] : stack'[s][i] = stack[s][j]
    BY <1>2, <1>3, <2>1 DEF Held
  <2>2. CASE stack'[s][i] = Frame("loop", s, FALSE)
    BY <1>3, <2>2 DEF Frame, Holds
  <2>3. CASE s = t /\ i \in DOMAIN new /\ i <= n /\ stack'[s][i] = new[i]
    BY <1>3, <2>3
  <2>4. FrameCase(t, n, new, s, i)
    BY <1>1, FrameCases
  <2> QED
    BY <2>1, <2>2, <2>3, <2>4 DEF FrameCase
<1> QED
  BY <1>2, <1>3 DEF Held

\* A queue whose destructor runs or ran stays without references.
LEMMA UnreferencedStep ==
    ASSUME QueuesInv, NEW t \in Threads, NEW n \in 0 .. 2, NEW new, StepOf(t, n, new),
           \A q \in Queues : queue[q].st # "unborn" => (q \in registry' => q \in registry),
           \A q \in Queues : queue'[q].st = "gone" => queue[q].st # "unborn" /\ ~Referenced(q),
           \A i \in DOMAIN new : i <= n =>
                 /\ \A q \in Queues : Holds(new[i], q) => Referenced(q) \/ queue[q].st = "unborn"
                 /\ new[i].at \in DtorAts => new[i].q \notin registry' /\ ~Held(stack', new[i].q)
    PROVE  Unreferenced'
<1>1. stack \in [Threads -> Seq(StackFrames)] /\ Shaped /\ Unreferenced /\ Unborn
  BY DEF QueuesInv, QueuesTypes, DataTypes
<1>2. ASSUME NEW q \in Queues, queue[q].st # "unborn", ~Referenced(q) PROVE q \notin registry' /\ ~Held(stack', q)
  BY <1>2, NoRevival
<1>3. ASSUME NEW q \in Queues, queue'[q].st = "gone" PROVE q \notin registry' /\ ~Held(stack', q)
  BY <1>2, <1>3
<1>4. ASSUME NEW s \in Threads, NEW i \in DOMAIN stack'[s], stack'[s][i].at \in DtorAts
      PROVE  stack'[s][i].q \notin registry' /\ ~Held(stack', stack'[s][i].q)
  <2>1. CASE \E j \in DOMAIN stack[s] : stack'[s][i] = stack[s][j]
    <3>1. PICK j \in DOMAIN stack[s] : stack'[s][i] = stack[s][j]
      BY <2>1
    <3> DEFINE q == stack[s][j].q
    <3>2. stack[s][j] \in GoodFrames(s) /\ stack[s][j].at \in DtorAts
      BY <1>1, <1>4, <3>1 DEF Shaped
    <3>3. q \in Queues
      BY <3>2 DEF GoodFrames, DtorAts, LooseAts
    <3>4. ~Referenced(q)
      BY <1>1, <3>2 DEF Unreferenced
    <3>5. queue[q].st # "unborn"
      BY <1>1, <3>3 DEF Unborn
    <3> HIDE DEF q
    <3>6. q \notin registry' /\ ~Held(stack', q)
      BY <1>2, <3>3, <3>4, <3>5
    <3> QED
      BY <3>1, <3>6 DEF q
  <2>2. CASE stack'[s][i] = Frame("loop", s, FALSE)
    BY <1>4, <2>2 DEF Frame, DtorAts
  <2>3. CASE s = t /\ i \in DOMAIN new /\ i <= n /\ stack'[s][i] = new[i]
    BY <1>4, <2>3
  <2>4. FrameCase(t, n, new, s, i)
    BY <1>1, FrameCases
  <2> QED
    BY <2>1, <2>2, <2>3, <2>4 DEF FrameCase
<1> QED
  BY <1>3, <1>4 DEF Unreferenced, Referenced

\* Nothing mentions a queue before it is created.
LEMMA UnbornStep ==
    ASSUME QueuesInv, NEW t \in Threads, NEW n \in 0 .. 2, NEW new, StepOf(t, n, new),
           \A q \in Queues : queue[q].st # "unborn" => queue'[q].st # "unborn",
           \A q \in Queues : queue'[q].st = "unborn" =>
                queue'[q] = queue[q] /\ backend'[q] = backend[q] /\ q \notin registry' /\ q \notin retiredOK',
           \A i \in DOMAIN new : i <= n => \A q \in Queues :
                (new[i].q = q \/ q \in new[i].retired) => queue'[q].st # "unborn"
    PROVE  Unborn'
<1>1. stack \in [Threads -> Seq(StackFrames)] /\ Unborn /\ registry \subseteq Queues
  BY DEF QueuesInv, QueuesTypes, DataTypes
<1>2. ASSUME NEW s \in Threads, NEW i \in DOMAIN stack'[s], NEW q \in Queues,
             stack'[s][i].q = q \/ q \in stack'[s][i].retired
      PROVE  queue'[q].st # "unborn"
  <2>1. CASE \E j \in DOMAIN stack[s] : stack'[s][i] = stack[s][j]
    BY <1>1, <1>2, <2>1 DEF Unborn
  <2>2. CASE s \in registry /\ stack'[s][i] = Frame("loop", s, FALSE)
    <3>1. q = s
      BY <1>2, <2>2 DEF Frame
    <3> QED
      BY <1>1, <2>2, <3>1 DEF Unborn
  <2>3. CASE s = t /\ i \in DOMAIN new /\ i <= n /\ stack'[s][i] = new[i]
    BY <1>2, <2>3
  <2>4. FrameCase(t, n, new, s, i)
    BY <1>1, FrameCases
  <2> QED
    BY <2>1, <2>2, <2>3, <2>4 DEF FrameCase
<1> QED
  BY <1>1, <1>2 DEF Unborn

\* A service thread that runs was started.
LEMMA StartedStep ==
    ASSUME QueuesInv, NEW t \in Threads, NEW n \in 0 .. 2, NEW new, StepOf(t, n, new),
           \A q \in Queues : queue[q].thread # "none" => queue'[q].thread # "none"
    PROVE  Started'
<1> SUFFICES ASSUME NEW q \in Queues, stack'[q] # <<>> PROVE queue'[q].thread # "none"
  BY DEF Started
<1>1. Started /\ q \in Threads
  BY DEF QueuesInv, Threads
<1> QED
  BY <1>1 DEF StepOf, Started

\* Creation holds the lifecycle mutex, and has the queue to itself until its service runs.
LEMMA CreationStep ==
    ASSUME QueuesInv, NEW t \in Threads, NEW n \in 0 .. 2, NEW new, StepOf(t, n, new),
           \/ lifecycle' = lifecycle \/ lifecycle = "free"
           \/ lifecycle = t /\ \A i \in DOMAIN new : new[i].at \notin CreateAts,
           \A s \in Threads \ {t} : \A j \in DOMAIN stack[s] : stack[s][j].at = "c_start" =>
                stack[s][j].q \in registry' /\ queue'[stack[s][j].q].thread = "none",
           \A i \in DOMAIN new : i <= n =>
                /\ new[i].at \in CreateAts =>
                      /\ lifecycle' = t /\ (lifecycle = "free" \/ (stack[t] # <<>> /\ stack[t][1].at \in CreateAts))
                      /\ \A k \in DOMAIN new : k < i => new[k].at \notin CreateAts
                /\ \A s \in Threads \ {t} : \A j \in DOMAIN stack[s] : stack[s][j].at = "c_start" =>
                      new[i].q # stack[s][j].q /\ stack[s][j].q \notin new[i].retired
                /\ new[i].at = "c_start" =>
                      /\ i = 1 /\ new[i].q \in registry' /\ queue'[new[i].q].thread = "none"
                      /\ \A s \in Threads \ {t} : stack'[s] = stack[s] /\ \A j \in DOMAIN stack[s] :
                            stack[s][j].q # new[i].q /\ new[i].q \notin stack[s][j].retired
    PROVE  InCreation'
<1>1. stack \in [Threads -> Seq(StackFrames)] /\ InCreation /\ "free" \notin Threads
  BY RuntimeAssumption DEF QueuesInv, QueuesTypes, DataTypes, Threads
<1>2. "c_start" \in CreateAts
  BY DEF CreateAts
<1>3. \A s \in Threads : \A i \in DOMAIN stack'[s] : FrameCase(t, n, new, s, i)
  BY <1>1, FrameCases
<1>4. new \in Seq(StackFrames) /\ stack'[t] = new
  BY DEF StepOf
<1>5. \A s \in Threads : Frame("loop", s, FALSE).at \notin CreateAts
  BY DEF Frame, CreateAts
<1>6. ASSUME NEW s \in Threads, NEW i \in DOMAIN stack'[s], stack'[s][i].at \in CreateAts PROVE lifecycle' = s
  <2>1. ASSUME NEW j \in DOMAIN stack[s], stack'[s][i] = stack[s][j] PROVE lifecycle' = s
    <3>1. lifecycle = s
      BY <1>1, <1>6, <2>1 DEF InCreation
    <3>2. CASE lifecycle = t /\ \A k \in DOMAIN new : new[k].at \notin CreateAts
      BY <1>4, <1>6, <3>1, <3>2
    <3> QED
      BY <1>1, <3>1, <3>2
  <2> QED
    BY <1>3, <1>5, <1>6, <2>1 DEF FrameCase
<1>7. ASSUME NEW i \in DOMAIN new, NEW k \in DOMAIN new, k < i,
             new[i].at \in CreateAts, new[k].at \in CreateAts
      PROVE  FALSE
  <2>1. i \in Nat /\ k \in Nat
    BY <1>4
  <2>2. i > n
    BY <1>7, <2>1
  <2>3. i - n + 1 \in DOMAIN stack[t] /\ new[i] = stack[t][i - n + 1] /\ i - n + 1 >= 2
    BY <2>1, <2>2 DEF StepOf
  <2>4. lifecycle = t /\ \A j \in DOMAIN stack[t] : stack[t][j].at \in CreateAts => j = i - n + 1
    BY <1>1, <1>7, <2>3 DEF InCreation
  <2>5. 1 \in DOMAIN stack[t]
    BY <1>1, <2>3
  <2>6. CASE k <= n
    BY <1>1, <1>7, <2>3, <2>4, <2>5, <2>6
  <2>7. CASE k > n
    <3>1. k - n + 1 \in DOMAIN stack[t] /\ new[k] = stack[t][k - n + 1]
      BY <2>1, <2>7 DEF StepOf
    <3>2. k - n + 1 = i - n + 1
      BY <1>7, <2>4, <3>1
    <3> QED
      BY <1>7, <2>1, <3>2
  <2> QED
    BY <2>1, <2>6, <2>7
<1>8. ASSUME NEW s \in Threads, NEW i \in DOMAIN stack'[s], NEW k \in DOMAIN stack'[s],
             stack'[s][i].at \in CreateAts, stack'[s][k].at \in CreateAts
      PROVE  k = i
  <2>1. CASE s = t
    <3>1. i \in Nat /\ k \in Nat
      BY <1>4, <2>1
    <3>2. ~(k < i) /\ ~(i < k)
      BY <1>4, <1>7, <1>8, <2>1
    <3> QED
      BY <3>1, <3>2
  <2>2. CASE s # t /\ stack'[s] = stack[s]
    BY <1>1, <1>8, <2>2 DEF InCreation
  <2>3. CASE s # t /\ stack'[s] = <<Frame("loop", s, FALSE)>>
    <3> DEFINE f == Frame("loop", s, FALSE)
    <3>1. f.at \notin CreateAts
      BY <1>5
    <3>2. stack'[s] = <<f>>
      BY <2>3
    <3> HIDE DEF f
    <3>3. stack'[s][i] = f
      BY <3>2
    <3> QED
      BY <1>8, <3>1, <3>3
  <2> QED
    BY <2>1, <2>2, <2>3 DEF StepOf
<1>9. ASSUME NEW s \in Threads, NEW i \in DOMAIN stack'[s], stack'[s][i].at = "c_start"
      PROVE  /\ i = 1 /\ stack'[s][i].q \in registry' /\ queue'[stack'[s][i].q].thread = "none"
             /\ \A r \in Threads \ {s} : \A k \in DOMAIN stack'[r] :
                   stack'[r][k].q # stack'[s][i].q /\ stack'[s][i].q \notin stack'[r][k].retired
  <2>1. CASE s = t
    <3>1. i <= n
      <4>1. ASSUME i > n PROVE FALSE
        <5>1. i - n + 1 \in DOMAIN stack[t] /\ new[i] = stack[t][i - n + 1] /\ i \in Nat
          BY <1>4, <2>1, <4>1 DEF StepOf
        <5>2. i - n + 1 = 1
          BY <1>1, <1>4, <1>9, <2>1, <5>1 DEF InCreation
        <5> QED
          BY <4>1, <5>1, <5>2
      <4>2. i \in Nat
        BY <1>4, <2>1
      <4> QED
        BY <4>1, <4>2
    <3> QED
      BY <1>4, <1>9, <2>1, <3>1
  <2>2. CASE s # t
    <3>1. i \in DOMAIN stack[s] /\ stack'[s] = stack[s]
      <4>1. ASSUME stack'[s] = <<Frame("loop", s, FALSE)>> PROVE FALSE
        <5> DEFINE f == Frame("loop", s, FALSE)
        <5>1. f.at # "c_start"
          BY DEF Frame
        <5>2. stack'[s] = <<f>>
          BY <4>1
        <5> HIDE DEF f
        <5>3. stack'[s][i] = f
          BY <5>2
        <5> QED
          BY <1>9, <5>1, <5>3
      <4> QED
        BY <2>2, <4>1 DEF StepOf
    <3>2. /\ i = 1 /\ lifecycle = s /\ stack[s][i].q \in registry' /\ queue'[stack[s][i].q].thread = "none"
          /\ stack[s][i].at = "c_start"
      BY <1>1, <1>2, <1>9, <2>2, <3>1 DEF InCreation
    <3>3. ASSUME NEW r \in Threads \ {s}, NEW k \in DOMAIN stack'[r]
          PROVE  stack'[r][k].q # stack[s][i].q /\ stack[s][i].q \notin stack'[r][k].retired
      <4>1. CASE \E m \in DOMAIN stack[r] : stack'[r][k] = stack[r][m]
        BY <1>1, <3>1, <3>2, <3>3, <4>1 DEF InCreation
      <4>2. CASE r = t /\ k \in DOMAIN new /\ k <= n /\ stack'[r][k] = new[k]
        BY <2>2, <3>1, <3>2, <4>2
      <4>3. ~(lifecycle = t)
        <5>1. lifecycle = s
          BY <3>2
        <5> QED
          BY <2>2, <5>1
      <4>4. FrameCase(t, n, new, r, k)
        BY <1>3, <3>3
      <4> QED
        BY <4>1, <4>2, <4>3, <4>4 DEF FrameCase
    <3> QED
      BY <3>1, <3>2, <3>3
  <2> QED
    BY <2>1, <2>2
<1> QED
  BY <1>6, <1>8, <1>9 DEF InCreation

\* What a call has taken over is withdrawn, and belongs to one frame.
LEMMA ClaimedStep ==
    ASSUME QueuesInv, NEW t \in Threads, NEW n \in 0 .. 2, NEW new, StepOf(t, n, new),
           \A q \in Queues : queue[q].st # "unborn" => (q \in registry' => q \in registry),
           \A q \in Queues : queue'[q].thread = "moved" =>
                \/ queue[q].thread = "moved"
                \/ /\ q \notin registry /\ queue[q].st # "unborn"
                   /\ \/ stack[t] # <<>> /\ Pending(stack[t][1], q)
                      \/ ~Referenced(q),
           \A i \in DOMAIN new : i <= n => \A q \in Queues :
                /\ Claims(new[i], q) \/ q \in new[i].retired => q \notin registry'
                /\ Pending(new[i], q) => queue'[q].thread # "moved"
                /\ Claims(new[i], q) => i = 1 /\ ((stack[t] # <<>> /\ Claims(stack[t][1], q)) \/ q \in registry)
    PROVE  Claimed'
<1>1. stack \in [Threads -> Seq(StackFrames)] /\ queue \in [Queues -> QueueStates] /\ Shaped /\ Unborn /\ Claimed
  BY DEF QueuesInv, QueuesTypes, DataTypes
<1>2. \A s \in Threads : \A i \in DOMAIN stack'[s] : FrameCase(t, n, new, s, i)
  BY <1>1, FrameCases
<1>4. \A p, q : Frame("loop", p, FALSE).retired = {} /\ ~Claims(Frame("loop", p, FALSE), q)
                /\ ~Pending(Frame("loop", p, FALSE), q)
  BY DEF Frame, Claims, Pending
<1>5. \A q \in Queues : queue[q].thread = "moved" => q \notin registry /\ queue[q].st # "unborn"
  <2>1. \A q \in Queues : queue[q].st = "unborn" => queue[q].thread # "moved"
    BY <1>1 DEF Unborn, Fresh
  <2> QED
    BY <1>1, <2>1 DEF Claimed
<1>6. \A q \in Queues : queue'[q].thread = "moved" => q \notin registry'
  BY <1>5
<1>7. ASSUME NEW s \in Threads, NEW i \in DOMAIN stack'[s], NEW q \in Queues,
             Claims(stack'[s][i], q) \/ q \in stack'[s][i].retired
      PROVE  q \notin registry'
  <2>1. CASE \E j \in DOMAIN stack[s] : stack'[s][i] = stack[s][j]
    <3>1. PICK j \in DOMAIN stack[s] : stack'[s][i] = stack[s][j]
      BY <2>1
    <3>2. q \notin registry
      BY <1>1, <1>7, <3>1 DEF Claimed
    <3>3. stack[s][j] \in GoodFrames(s)
      BY <1>1 DEF Shaped
    <3>4. stack[s][j].q = q \/ q \in stack[s][j].retired
      BY <1>7, <3>1, <3>3 DEF Claims, GoodFrames
    <3>5. queue[q].st # "unborn"
      BY <1>1, <3>4 DEF Unborn
    <3> QED
      BY <3>2, <3>5
  <2>2. CASE s = t /\ i \in DOMAIN new /\ i <= n /\ stack'[s][i] = new[i]
    BY <1>7, <2>2
  <2>3. CASE stack'[s][i] = Frame("loop", s, FALSE)
    BY <1>4, <1>7, <2>3
  <2>4. FrameCase(t, n, new, s, i)
    BY <1>2
  <2> QED
    BY <2>1, <2>2, <2>3, <2>4 DEF FrameCase
<1>8. ASSUME NEW s \in Threads, NEW i \in DOMAIN stack'[s], NEW q \in Queues, Pending(stack'[s][i], q)
      PROVE  queue'[q].thread # "moved"
  <2>1. ASSUME NEW j \in DOMAIN stack[s], stack'[s][i] = stack[s][j], s = t => j >= 2
        PROVE  queue'[q].thread # "moved"
    <3>1. Pending(stack[s][j], q) /\ Claims(stack[s][j], q) /\ queue[q].thread # "moved"
      BY <1>1, <1>8, <2>1 DEF Claimed, Pending, Claims
    <3>2. stack[s][j] \in GoodFrames(s)
      BY <1>1 DEF Shaped
    <3>3. Holds(stack[s][j], q)
      BY <3>1, <3>2 DEF Holds, Pending, GoodFrames, RefAts
    <3>4. Referenced(q)
      BY <3>3 DEF Referenced, Held
    <3>5. ASSUME stack[t] # <<>>, Pending(stack[t][1], q) PROVE FALSE
      <4>1. 1 \in DOMAIN stack[t]
        BY <1>1, <3>5
      <4>2. Claims(stack[t][1], q)
        BY <3>5 DEF Claims, Pending
      <4>3. s = t /\ j = 1
        BY <1>1, <3>1, <4>1, <4>2 DEF Claimed
      <4> QED
        BY <2>1, <4>3
    <3> QED
      BY <3>1, <3>4, <3>5
  <2>2. CASE s = t /\ i \in DOMAIN new /\ i <= n /\ stack'[s][i] = new[i]
    BY <1>8, <2>2
  <2>3. CASE stack'[s][i] = Frame("loop", s, FALSE)
    BY <1>4, <1>8, <2>3
  <2>4. FrameCase(t, n, new, s, i)
    BY <1>2
  <2> QED
    BY <2>1, <2>2, <2>3, <2>4 DEF FrameCase
<1>9. ASSUME NEW s \in Threads, NEW i \in DOMAIN stack'[s], NEW r \in Threads, NEW k \in DOMAIN stack'[r],
             NEW q \in Queues, Claims(stack'[s][i], q), Claims(stack'[r][k], q)
      PROVE  r = s /\ k = i
  <2> DEFINE was(u, x) == IF u = t THEN x - n + 1 ELSE x
             Old(u, x) == (u = t => x > n) /\ was(u, x) \in DOMAIN stack[u] /\ stack'[u][x] = stack[u][was(u, x)]
             New(u, x) == u = t /\ x = 1 /\ 1 <= n /\ ((stack[t] # <<>> /\ Claims(stack[t][1], q)) \/ q \in registry)
  <2>1. ASSUME NEW u \in Threads, NEW x \in DOMAIN stack'[u], Claims(stack'[u][x], q)
        PROVE  Old(u, x) \/ New(u, x)
    <3>1. CASE u = t
      <4>1. new \in Seq(StackFrames) /\ stack'[u] = new /\ x \in DOMAIN new /\ x \in Nat
        BY <2>1, <3>1 DEF StepOf
      <4>2. CASE x <= n
        <5>1. x = 1 /\ ((stack[t] # <<>> /\ Claims(stack[t][1], q)) \/ q \in registry)
          BY <2>1, <4>1, <4>2
        <5> QED
          BY <3>1, <4>2, <5>1
      <4>3. CASE x > n
        <5>1. x - n + 1 \in DOMAIN stack[t] /\ new[x] = stack[t][x - n + 1]
          BY <4>1, <4>3 DEF StepOf
        <5> QED
          BY <3>1, <4>1, <4>3, <5>1
      <4> QED
        BY <4>1, <4>2, <4>3
    <3>2. CASE u # t
      <4>1. stack'[u] = stack[u] \/ stack'[u] = <<Frame("loop", u, FALSE)>>
        BY <3>2 DEF StepOf
      <4>2. stack'[u] # <<Frame("loop", u, FALSE)>>
        <5> DEFINE f == Frame("loop", u, FALSE)
        <5>1. ~Claims(f, q)
          BY <1>4
        <5> HIDE DEF f
        <5>2. stack'[u] = <<f>> => stack'[u][x] = f
          OBVIOUS
        <5>3. stack'[u] # <<f>>
          BY <2>1, <5>1, <5>2
        <5> QED
          BY <5>3 DEF f
      <4> QED
        BY <3>2, <4>1, <4>2
    <3> QED
      BY <3>1, <3>2
  <2>2. ASSUME NEW u \in Threads, NEW x \in DOMAIN stack'[u], Claims(stack'[u][x], q), Old(u, x)
        PROVE  q \notin registry /\ Claims(stack[u][was(u, x)], q)
    <3>1. Claims(stack[u][was(u, x)], q)
      BY <2>2
    <3> QED
      BY <1>1, <2>2, <3>1 DEF Claimed
  <2>3. ASSUME NEW u \in Threads, NEW x \in DOMAIN stack'[u], NEW v \in Threads, NEW y \in DOMAIN stack'[v],
               Claims(stack'[u][x], q), Claims(stack'[v][y], q), Old(u, x), New(v, y)
        PROVE  FALSE
    <3>1. stack[t] # <<>> /\ Claims(stack[t][1], q)
      BY <2>2, <2>3
    <3>2. 1 \in DOMAIN stack[t]
      BY <1>1, <3>1
    <3>3. was(u, x) \in DOMAIN stack[u] /\ Claims(stack[u][was(u, x)], q)
      BY <2>2, <2>3
    <3> HIDE DEF was
    <3>4. u = t /\ was(u, x) = 1
      BY <1>1, <3>1, <3>2, <3>3 DEF Claimed
    <3> USE DEF was
    <3>5. x - n + 1 = 1 /\ x > n
      BY <2>3, <3>4
    <3>6. x \in Nat
      BY <2>3, <3>4 DEF StepOf
    <3> QED
      BY <3>5, <3>6
  <2>4. CASE Old(s, i) /\ Old(r, k)
    <3>1. /\ was(s, i) \in DOMAIN stack[s] /\ Claims(stack[s][was(s, i)], q)
          /\ was(r, k) \in DOMAIN stack[r] /\ Claims(stack[r][was(r, k)], q)
      BY <1>9, <2>2, <2>4
    <3> HIDE DEF was
    <3>2. s = r /\ was(s, i) = was(r, k)
      BY <1>1, <3>1 DEF Claimed
    <3> USE DEF was
    <3>3. s = t => i \in Nat /\ k \in Nat
      BY <3>2 DEF StepOf
    <3> QED
      BY <3>2, <3>3
  <2>5. CASE New(s, i) /\ New(r, k)
    BY <2>5
  <2>6. (Old(s, i) \/ New(s, i)) /\ (Old(r, k) \/ New(r, k))
    BY <1>9, <2>1
  <2>7. ~(Old(s, i) /\ New(r, k)) /\ ~(Old(r, k) /\ New(s, i))
    BY <1>9, <2>3
  <2> HIDE DEF Old, New
  <2> QED
    BY <2>4, <2>5, <2>6, <2>7
<1> QED
  BY <1>6, <1>7, <1>8, <1>9 DEF Claimed

\* A service thread that was joined stays away.
LEMMA JoinedStep ==
    ASSUME QueuesInv, NEW t \in Threads, NEW n \in 0 .. 2, NEW new, StepOf(t, n, new),
           \A q \in Queues : queue[q].st # "unborn" => (q \in registry' => q \in registry),
           \A q \in retiredOK' : q \in retiredOK \/ (q \in Queues /\ stack'[q] = <<>> /\ q \notin registry'),
           \A i \in DOMAIN new : i <= n => \A q \in new[i].retired :
                ~Claims(new[i], q) /\ t # q => stack'[q] = <<>>
    PROVE  Joined'
<1>1. /\ stack \in [Threads -> Seq(StackFrames)] /\ retiredOK \subseteq Queues /\ Shaped /\ Unborn
      /\ Claimed /\ Joined
  BY DEF QueuesInv, QueuesTypes, DataTypes
<1>2. ASSUME NEW s \in Threads, NEW i \in DOMAIN stack'[s], NEW q \in stack'[s][i].retired,
             ~Claims(stack'[s][i], q), s # q
      PROVE  stack'[q] = <<>>
  <2>1. CASE \E j \in DOMAIN stack[s] : stack'[s][i] = stack[s][j]
    <3>1. PICK j \in DOMAIN stack[s] : stack'[s][i] = stack[s][j]
      BY <2>1
    <3>2. stack[s][j] \in GoodFrames(s)
      BY <1>1 DEF Shaped
    <3>3. q \in Queues
      BY <3>1, <3>2 DEF GoodFrames, StackFrames
    <3>4. stack[q] = <<>>
      BY <1>1, <1>2, <3>1 DEF Joined
    <3>5. q \notin registry
      BY <1>1, <3>1, <3>3 DEF Claimed
    <3> QED
      BY <3>3, <3>4, <3>5, EndedStays
  <2>2. CASE stack'[s][i] = Frame("loop", s, FALSE)
    BY <1>2, <2>2 DEF Frame
  <2>3. CASE s = t /\ i \in DOMAIN new /\ i <= n /\ stack'[s][i] = new[i]
    BY <1>2, <2>3
  <2>4. FrameCase(t, n, new, s, i)
    BY <1>1, FrameCases
  <2> QED
    BY <2>1, <2>2, <2>3, <2>4 DEF FrameCase
<1>3. ASSUME NEW q \in retiredOK' PROVE stack'[q] = <<>> /\ q \notin registry'
  <2>1. CASE q \in retiredOK
    <3>1. q \in Queues /\ stack[q] = <<>> /\ q \notin registry /\ queue[q].st # "unborn"
      BY <1>1, <2>1 DEF Joined, Unborn
    <3> QED
      BY <3>1, EndedStays
  <2> QED
    BY <1>3, <2>1
<1> QED
  BY <1>2, <1>3 DEF Joined

\* An error callback is about an error that was latched and not reported before.
LEMMA LatchedStep ==
    ASSUME QueuesInv, NEW t \in Threads, NEW n \in 0 .. 2, NEW new, StepOf(t, n, new),
           \A q \in Queues : reported'[q] <= 1 /\ (reported'[q] # 0 => queue'[q].err = TRUE),
           \A q \in Queues : queue[q].err = TRUE => queue'[q].err = TRUE,
           \A q \in Queues : reported'[q] # reported[q] =>
                \/ ~(queue[q].err = TRUE)
                \/ t = q /\ \A i \in DOMAIN new : i > n => new[i].at # "notify",
           \A i \in DOMAIN new : i <= n =>
                (new[i].at = "notify" => queue'[new[i].q].err = TRUE /\ reported'[new[i].q] = 0)
    PROVE  Latched'
<1>1. stack \in [Threads -> Seq(StackFrames)] /\ Shaped /\ Latched
  BY DEF QueuesInv, QueuesTypes, DataTypes
<1>2. ASSUME NEW s \in Threads, NEW i \in DOMAIN stack'[s], stack'[s][i].at = "notify"
      PROVE  queue'[stack'[s][i].q].err = TRUE /\ reported'[stack'[s][i].q] = 0
  <2>1. CASE s # t /\ stack'[s] = stack[s]
    <3> DEFINE q == stack[s][i].q
    <3>1. stack[s][i] \in GoodFrames(s) /\ stack[s][i].at = "notify"
      BY <1>1, <1>2, <2>1 DEF Shaped
    <3>2. q \in Queues /\ q = s
      BY <3>1 DEF GoodFrames, LoopAts, RefAts
    <3>3. queue[q].err = TRUE /\ reported[q] = 0
      BY <1>1, <2>1, <3>1 DEF Latched
    <3> HIDE DEF q
    <3>4. queue'[q].err = TRUE /\ reported'[q] = 0
      BY <2>1, <3>2, <3>3
    <3> QED
      BY <2>1, <3>4 DEF q
  <2>2. CASE s # t /\ stack'[s] = <<Frame("loop", s, FALSE)>>
    <3> DEFINE f == Frame("loop", s, FALSE)
    <3>1. f.at # "notify"
      BY DEF Frame
    <3>2. stack'[s] = <<f>>
      BY <2>2
    <3> HIDE DEF f
    <3>3. stack'[s][i] = f
      BY <3>2
    <3> QED
      BY <1>2, <3>1, <3>3
  <2>3. CASE s = t
    <3>1. stack'[s] = new /\ new \in Seq(StackFrames) /\ i \in DOMAIN new /\ i \in Nat
      BY <2>3 DEF StepOf
    <3>2. CASE i <= n
      BY <1>2, <3>1, <3>2
    <3>3. CASE i > n
      <4> DEFINE j == i - n + 1
                 q == stack[s][j].q
      <4>1. j \in DOMAIN stack[s] /\ new[i] = stack[s][j]
        BY <2>3, <3>1, <3>3 DEF StepOf
      <4>2. stack[s][j] \in GoodFrames(s) /\ stack[s][j].at = "notify"
        BY <1>1, <1>2, <3>1, <4>1 DEF Shaped
      <4>3. q \in Queues /\ q = s
        BY <4>2 DEF GoodFrames, LoopAts, RefAts
      <4>4. queue[q].err = TRUE /\ reported[q] = 0
        BY <1>1, <4>1, <4>2 DEF Latched
      <4> HIDE DEF q
      <4>5. reported'[q] = reported[q]
        BY <1>2, <3>1, <3>3, <4>3, <4>4
      <4>6. queue'[q].err = TRUE /\ reported'[q] = 0
        BY <4>3, <4>4, <4>5
      <4> QED
        BY <3>1, <4>1, <4>6 DEF q
    <3>4. i <= n \/ i > n
      BY <3>1
    <3> QED
      BY <3>2, <3>3, <3>4
  <2> QED
    BY <2>1, <2>2, <2>3 DEF StepOf
<1> QED
  BY <1>2 DEF Latched

\* A frame that holds, mentions and claims nothing but what the invariant allows in the next state.
FitsIn(t, new, i) ==
    /\ new[i] \in GoodFrames(t)
    /\ \A q \in Queues :
          /\ Holds(new[i], q) => Referenced(q) \/ queue[q].st = "unborn"
          /\ new[i].q = q \/ q \in new[i].retired => queue'[q].st # "unborn"
          /\ Claims(new[i], q) \/ q \in new[i].retired => q \notin registry'
          /\ Pending(new[i], q) => queue'[q].thread # "moved"
          /\ Claims(new[i], q) => i = 1 /\ ((stack[t] # <<>> /\ Claims(stack[t][1], q)) \/ q \in registry)
          /\ q \in new[i].retired /\ ~Claims(new[i], q) /\ t # q => stack'[q] = <<>>
    /\ new[i].at \in DtorAts => new[i].q \notin registry' /\ ~Held(stack', new[i].q)
    /\ new[i].at \in CreateAts =>
          /\ lifecycle' = t /\ (lifecycle = "free" \/ (stack[t] # <<>> /\ stack[t][1].at \in CreateAts))
          /\ \A k \in DOMAIN new : k < i => new[k].at \notin CreateAts
    /\ \A s \in Threads \ {t} : \A j \in DOMAIN stack[s] : stack[s][j].at = "c_start" =>
          new[i].q # stack[s][j].q /\ stack[s][j].q \notin new[i].retired
    /\ new[i].at = "c_start" =>
          /\ i = 1 /\ new[i].q \in registry' /\ queue'[new[i].q].thread = "none"
          /\ \A s \in Threads \ {t} : stack'[s] = stack[s] /\ \A j \in DOMAIN stack[s] :
                stack[s][j].q # new[i].q /\ new[i].q \notin stack[s][j].retired
    /\ new[i].at = "notify" => queue'[new[i].q].err = TRUE /\ reported'[new[i].q] = 0

\* How a step of thread t may change the rest of the state.
Onward(t, n, new) ==
    /\ DataTypes' /\ Backed'
    /\ \A q \in Queues :
          /\ queue[q].st # "unborn" => queue'[q].st # "unborn" /\ (q \in registry' => q \in registry)
          /\ queue'[q].st = "unborn" =>
                queue'[q] = queue[q] /\ backend'[q] = backend[q] /\ q \notin registry' /\ q \notin retiredOK'
          /\ queue'[q].st = "gone" => queue[q].st # "unborn" /\ ~Referenced(q)
          /\ queue[q].thread # "none" => queue'[q].thread # "none"
          /\ queue'[q].thread = "moved" =>
                \/ queue[q].thread = "moved"
                \/ /\ q \notin registry /\ queue[q].st # "unborn"
                   /\ \/ stack[t] # <<>> /\ Pending(stack[t][1], q)
                      \/ ~Referenced(q)
          /\ queue[q].err = TRUE => queue'[q].err = TRUE
          /\ reported'[q] <= 1 /\ (reported'[q] # 0 => queue'[q].err = TRUE)
          /\ reported'[q] # reported[q] =>
                \/ ~(queue[q].err = TRUE)
                \/ t = q /\ \A i \in DOMAIN new : i > n => new[i].at # "notify"
    /\ \A q \in retiredOK' : q \in retiredOK \/ (q \in Queues /\ stack'[q] = <<>> /\ q \notin registry')
    /\ \/ lifecycle' = lifecycle \/ lifecycle = "free"
       \/ lifecycle = t /\ \A i \in DOMAIN new : new[i].at \notin CreateAts
    /\ \A s \in Threads \ {t} : \A j \in DOMAIN stack[s] : stack[s][j].at = "c_start" =>
          stack[s][j].q \in registry' /\ queue'[stack[s][j].q].thread = "none"

\* Such a step keeps the invariant.
LEMMA StepKeeps ==
    ASSUME QueuesInv, NEW t \in Threads, NEW n \in 0 .. 2, NEW new, StepOf(t, n, new), Onward(t, n, new),
           \A i \in DOMAIN new : i <= n => FitsIn(t, new, i)
    PROVE  QueuesInv'
<1>1. QueuesTypes' /\ Backed'
  BY DEF QueuesTypes, Onward, StepOf
<1>2. Shaped'
  BY ShapedStep DEF FitsIn
<1>3. Unreferenced'
  <2>1. \A q \in Queues : queue[q].st # "unborn" => (q \in registry' => q \in registry)
    BY DEF Onward
  <2>2. \A q \in Queues : queue'[q].st = "gone" => queue[q].st # "unborn" /\ ~Referenced(q)
    BY DEF Onward
  <2>3. \A i \in DOMAIN new : i <= n =>
                 /\ \A q \in Queues : Holds(new[i], q) => Referenced(q) \/ queue[q].st = "unborn"
                 /\ new[i].at \in DtorAts => new[i].q \notin registry' /\ ~Held(stack', new[i].q)
    BY DEF FitsIn
  <2> QED
    BY <2>1, <2>2, <2>3, UnreferencedStep
<1>4. Unborn'
  <2>1. \A q \in Queues : queue[q].st # "unborn" => queue'[q].st # "unborn"
    BY DEF Onward
  <2>2. \A q \in Queues : queue'[q].st = "unborn" =>
                queue'[q] = queue[q] /\ backend'[q] = backend[q] /\ q \notin registry' /\ q \notin retiredOK'
    BY DEF Onward
  <2>3. \A i \in DOMAIN new : i <= n => \A q \in Queues :
                (new[i].q = q \/ q \in new[i].retired) => queue'[q].st # "unborn"
    BY DEF FitsIn
  <2> QED
    BY <2>1, <2>2, <2>3, UnbornStep
<1>5. Started'
  BY StartedStep DEF Onward
<1>6. InCreation'
  <2>1. \/ lifecycle' = lifecycle \/ lifecycle = "free"
        \/ lifecycle = t /\ \A i \in DOMAIN new : new[i].at \notin CreateAts
    BY DEF Onward
  <2>2. \A s \in Threads \ {t} : \A j \in DOMAIN stack[s] : stack[s][j].at = "c_start" =>
                stack[s][j].q \in registry' /\ queue'[stack[s][j].q].thread = "none"
    BY DEF Onward
  <2>3. \A i \in DOMAIN new : i <= n =>
                /\ new[i].at \in CreateAts =>
                      /\ lifecycle' = t /\ (lifecycle = "free" \/ (stack[t] # <<>> /\ stack[t][1].at \in CreateAts))
                      /\ \A k \in DOMAIN new : k < i => new[k].at \notin CreateAts
                /\ \A s \in Threads \ {t} : \A j \in DOMAIN stack[s] : stack[s][j].at = "c_start" =>
                      new[i].q # stack[s][j].q /\ stack[s][j].q \notin new[i].retired
                /\ new[i].at = "c_start" =>
                      /\ i = 1 /\ new[i].q \in registry' /\ queue'[new[i].q].thread = "none"
                      /\ \A s \in Threads \ {t} : stack'[s] = stack[s] /\ \A j \in DOMAIN stack[s] :
                            stack[s][j].q # new[i].q /\ new[i].q \notin stack[s][j].retired
    BY DEF FitsIn
  <2> QED
    BY <2>1, <2>2, <2>3, CreationStep
<1>7. Claimed'
  <2>1. \A q \in Queues : queue[q].st # "unborn" => (q \in registry' => q \in registry)
    BY DEF Onward
  <2>2. \A q \in Queues : queue'[q].thread = "moved" =>
                \/ queue[q].thread = "moved"
                \/ /\ q \notin registry /\ queue[q].st # "unborn"
                   /\ \/ stack[t] # <<>> /\ Pending(stack[t][1], q)
                      \/ ~Referenced(q)
    BY DEF Onward
  <2>3. \A i \in DOMAIN new : i <= n => \A q \in Queues :
                /\ Claims(new[i], q) \/ q \in new[i].retired => q \notin registry'
                /\ Pending(new[i], q) => queue'[q].thread # "moved"
                /\ Claims(new[i], q) => i = 1 /\ ((stack[t] # <<>> /\ Claims(stack[t][1], q)) \/ q \in registry)
    BY DEF FitsIn
  <2> QED
    BY <2>1, <2>2, <2>3, ClaimedStep
<1>8. Joined'
  <2>1. \A q \in Queues : queue[q].st # "unborn" => (q \in registry' => q \in registry)
    BY DEF Onward
  <2>2. \A q \in retiredOK' : q \in retiredOK \/ (q \in Queues /\ stack'[q] = <<>> /\ q \notin registry')
    BY DEF Onward
  <2>3. ASSUME NEW i \in DOMAIN new, i <= n, NEW q \in new[i].retired, ~Claims(new[i], q) /\ t # q
        PROVE  stack'[q] = <<>>
    <3>1. FitsIn(t, new, i)
      BY <2>3
    <3>2. new[i] \in GoodFrames(t)
      BY <3>1 DEF FitsIn
    <3>3. q \in Queues
      BY <3>2 DEF GoodFrames, StackFrames
    <3> QED
      BY <2>3, <3>1, <3>3 DEF FitsIn
  <2> QED
    BY <2>1, <2>2, <2>3, JoinedStep
<1>9. Latched'
  <2>1. \A q \in Queues : reported'[q] <= 1 /\ (reported'[q] # 0 => queue'[q].err = TRUE)
    BY DEF Onward
  <2>2. \A q \in Queues : queue[q].err = TRUE => queue'[q].err = TRUE
    BY DEF Onward
  <2>3. \A q \in Queues : reported'[q] # reported[q] =>
                \/ ~(queue[q].err = TRUE)
                \/ t = q /\ \A i \in DOMAIN new : i > n => new[i].at # "notify"
    BY DEF Onward
  <2>4. \A i \in DOMAIN new : i <= n =>
                (new[i].at = "notify" => queue'[new[i].q].err = TRUE /\ reported'[new[i].q] = 0)
    BY DEF FitsIn
  <2> QED
    BY <2>1, <2>2, <2>3, <2>4, LatchedStep
<1> QED
  BY <1>1, <1>2, <1>3, <1>4, <1>5, <1>6, <1>7, <1>8, <1>9 DEF QueuesInv

\* New frames in place of the top frame, or of the whole stack.
LEMMA NewFrames ==
    ASSUME stack \in [Threads -> Seq(StackFrames)], NEW t \in Threads,
           NEW news \in Seq(StackFrames), Len(news) \in 0 .. 2,
           t \in Queues => stack[t] # <<>>,
           \/ stack[t] # <<>> /\ stack' = [stack EXCEPT ![t] = news \o Tail(stack[t])]
           \/ stack' = [stack EXCEPT ![t] = news]
    PROVE  \E new : /\ StepOf(t, Len(news), new) /\ stack' = [stack EXCEPT ![t] = new]
                    /\ \A i \in 1 .. Len(news) : i \in DOMAIN new /\ new[i] = news[i]
                    /\ \A i \in DOMAIN new : i <= Len(news) => i \in 1 .. Len(news)
                    /\ Len(new) = Len(news) \/ stack[t] # <<>>
<1>1. stack[t] \in Seq(StackFrames)
  OBVIOUS
<1>2. CASE stack[t] # <<>> /\ stack' = [stack EXCEPT ![t] = news \o Tail(stack[t])]
  <2> DEFINE b == Tail(stack[t])
             new == news \o b
  <2>1. b \in Seq(StackFrames) /\ Len(b) = Len(stack[t]) - 1 /\ \A i \in 1 .. Len(b) : b[i] = stack[t][i + 1]
    BY <1>1, <1>2, HeadTailProperties
  <2>2. stack' = [stack EXCEPT ![t] = new]
    BY <1>2
  <2> HIDE DEF b
  <2>3. /\ new \in Seq(StackFrames) /\ Len(new) = Len(news) + Len(b)
        /\ \A i \in 1 .. Len(new) : new[i] = IF i <= Len(news) THEN news[i] ELSE b[i - Len(news)]
    <3>1. b \in Seq(StackFrames)
      BY <2>1
    <3>2. news \o b \in Seq(StackFrames) /\ Len(news \o b) = Len(news) + Len(b)
      BY <3>1
    <3>3. \A i \in 1 .. Len(news) + Len(b) :
                (news \o b)[i] = IF i <= Len(news) THEN news[i] ELSE b[i - Len(news)]
      BY <3>1, ConcatProperties
    <3> QED
      BY <3>2, <3>3
  <2> HIDE DEF new
  <2>4. ASSUME NEW i \in DOMAIN new, i > Len(news)
        PROVE  i - Len(news) + 1 \in DOMAIN stack[t] /\ new[i] = stack[t][i - Len(news) + 1]
    <3>1. i \in 1 .. Len(new) /\ i - Len(news) \in 1 .. Len(b)
      BY <2>1, <2>3, <2>4
    <3>2. new[i] = b[i - Len(news)]
      BY <2>3, <2>4, <3>1
    <3>3. b[i - Len(news)] = stack[t][(i - Len(news)) + 1]
      BY <2>1, <3>1
    <3>4. i - Len(news) + 1 \in 1 .. Len(stack[t])
      BY <1>1, <2>1, <3>1
    <3> QED
      BY <1>1, <3>2, <3>3, <3>4
  <2>5. /\ stack' \in [Threads -> Seq(StackFrames)] /\ stack'[t] = new
        /\ \A s \in Threads \ {t} : stack'[s] = stack[s]
    BY <2>2, <2>3
  <2>6. StepOf(t, Len(news), new)
    BY <1>2, <2>3, <2>4, <2>5 DEF StepOf
  <2>7. /\ \A i \in 1 .. Len(news) : i \in DOMAIN new /\ new[i] = news[i]
        /\ \A i \in DOMAIN new : i <= Len(news) => i \in 1 .. Len(news)
    <3>1. Len(new) >= Len(news) /\ DOMAIN new = 1 .. Len(new) /\ Len(news) \in Nat
      BY <2>1, <2>3
    <3>2. ASSUME NEW i \in 1 .. Len(news) PROVE i \in DOMAIN new /\ new[i] = news[i]
      <4>1. i \in 1 .. Len(new) /\ i <= Len(news)
        BY <2>1, <2>3, <3>1
      <4> QED
        BY <2>3, <3>1, <4>1
    <3>3. ASSUME NEW i \in DOMAIN new, i <= Len(news) PROVE i \in 1 .. Len(news)
      BY <2>1, <2>3, <3>1, <3>3
    <3> QED
      BY <3>2, <3>3
  <2> QED
    BY <1>2, <2>2, <2>6, <2>7
<1>3. CASE stack' = [stack EXCEPT ![t] = news]
  <2>1. /\ stack' \in [Threads -> Seq(StackFrames)] /\ stack'[t] = news
        /\ \A s \in Threads \ {t} : stack'[s] = stack[s]
    BY <1>3
  <2>2. \A i \in DOMAIN news : i \in 1 .. Len(news)
    OBVIOUS
  <2>3. \A i \in DOMAIN news : ~(i > Len(news))
    BY <2>2
  <2>4. t \in Queues /\ stack[t] = <<>> => news = <<>>
    OBVIOUS
  <2>5. StepOf(t, Len(news), news)
    BY <2>1, <2>3, <2>4 DEF StepOf
  <2>6. \A i \in 1 .. Len(news) : i \in DOMAIN news
    OBVIOUS
  <2> QED
    BY <1>3, <2>2, <2>5, <2>6
<1> QED
  BY <1>2, <1>3

\* The frame a thread is in.
LEMMA TopFacts ==
    ASSUME QueuesInv, NEW t \in Threads, stack[t] # <<>>
    PROVE  /\ 1 \in DOMAIN stack[t] /\ Top(t) = stack[t][1] /\ Top(t) \in GoodFrames(t)
           /\ stack \in [Threads -> Seq(StackFrames)] /\ Rest(t) = Tail(stack[t])
<1>1. stack \in [Threads -> Seq(StackFrames)] /\ Shaped
  BY DEF QueuesInv, QueuesTypes
<1>2. 1 \in DOMAIN stack[t]
  BY <1>1
<1> QED
  BY <1>1, <1>2 DEF Shaped, Top, Rest

\* What is mentioned exists, and what is claimed or retired is not in the registry.
LEMMA TopMentions ==
    ASSUME QueuesInv, NEW t \in Threads, stack[t] # <<>>, NEW q \in Queues
    PROVE  /\ Top(t).q = q \/ q \in Top(t).retired => queue[q].st # "unborn"
           /\ Claims(Top(t), q) \/ q \in Top(t).retired => q \notin registry
           /\ Pending(Top(t), q) => queue[q].thread # "moved"
           /\ Holds(Top(t), q) => Referenced(q)
           /\ Top(t).at \in DtorAts /\ Top(t).q = q => ~Referenced(q)
           /\ Top(t).at # "c_start" => \A s \in Threads : \A j \in DOMAIN stack[s] : stack[s][j].at = "c_start" =>
                 stack[s][j].q # Top(t).q /\ stack[s][j].q \notin Top(t).retired
<1>1. 1 \in DOMAIN stack[t] /\ Top(t) = stack[t][1]
  BY TopFacts
<1>2. Unborn /\ Claimed /\ Unreferenced /\ InCreation /\ stack \in [Threads -> Seq(StackFrames)]
  BY DEF QueuesInv, QueuesTypes
<1>3. Top(t).q = q \/ q \in Top(t).retired => queue[q].st # "unborn"
  BY <1>1, <1>2 DEF Unborn
<1>4. /\ Claims(Top(t), q) \/ q \in Top(t).retired => q \notin registry
      /\ Pending(Top(t), q) => queue[q].thread # "moved"
  BY <1>1, <1>2 DEF Claimed
<1>5. Holds(Top(t), q) => Referenced(q)
  BY <1>1 DEF Referenced, Held
<1>6. Top(t).at \in DtorAts /\ Top(t).q = q => ~Referenced(q)
  BY <1>1, <1>2 DEF Unreferenced
<1>7. ASSUME Top(t).at # "c_start", NEW s \in Threads, NEW j \in DOMAIN stack[s], stack[s][j].at = "c_start"
      PROVE  stack[s][j].q # Top(t).q /\ stack[s][j].q \notin Top(t).retired
  <2>1. j = 1
    BY <1>2, <1>7 DEF InCreation
  <2>2. s # t
    BY <1>1, <1>2, <1>7, <2>1
  <2> QED
    BY <1>1, <1>2, <1>7, <2>2 DEF InCreation
<1> QED
  BY <1>3, <1>4, <1>5, <1>6, <1>7

\* A frame that takes over from the top frame.
LEMMA HeirFits ==
    ASSUME QueuesInv, NEW t \in Threads, stack[t] # <<>>, Top(t).at # "c_start",
           NEW new, NEW i \in DOMAIN new, new[i] \in GoodFrames(t),
           new[i].at \notin CreateAts \cup DtorAts,
           new[i].at = "notify" => queue'[new[i].q].err = TRUE /\ reported'[new[i].q] = 0,
           \A q \in Queues :
              /\ queue[q].st # "unborn" => queue'[q].st # "unborn" /\ (q \in registry' => q \in registry)
              /\ new[i].q = q => Top(t).q = q \/ q \in Top(t).retired
              /\ q \in new[i].retired => q \in Top(t).retired
              /\ Holds(new[i], q) => Holds(Top(t), q) \/ Referenced(q)
              /\ Claims(new[i], q) => i = 1 /\ (Claims(Top(t), q) \/ (q \in registry /\ q \notin registry'))
              /\ Pending(new[i], q) => queue'[q].thread # "moved"
              /\ q \in new[i].retired /\ ~Claims(new[i], q) /\ t # q => stack'[q] = <<>>
    PROVE  FitsIn(t, new, i)
<1>1. 1 \in DOMAIN stack[t] /\ Top(t) = stack[t][1] /\ Shaped
  BY TopFacts DEF QueuesInv
<1>2. ASSUME NEW q \in Queues
      PROVE  /\ Holds(new[i], q) => Referenced(q) \/ queue[q].st = "unborn"
             /\ new[i].q = q \/ q \in new[i].retired => queue'[q].st # "unborn"
             /\ Claims(new[i], q) \/ q \in new[i].retired => q \notin registry'
             /\ Pending(new[i], q) => queue'[q].thread # "moved"
             /\ Claims(new[i], q) => i = 1 /\ ((stack[t] # <<>> /\ Claims(stack[t][1], q)) \/ q \in registry)
             /\ q \in new[i].retired /\ ~Claims(new[i], q) /\ t # q => stack'[q] = <<>>
  <2>1. Holds(new[i], q) => Referenced(q)
    BY TopMentions
  <2>2. new[i].q = q \/ q \in new[i].retired => queue[q].st # "unborn"
    BY TopMentions
  <2>3. Claims(new[i], q) => new[i].q = q \/ q \in new[i].retired
    BY DEF Claims, GoodFrames
  <2>4. q \in Top(t).retired \/ Claims(Top(t), q) => q \notin registry
    BY TopMentions
  <2>5. queue[q].st # "unborn" => (q \in registry' => q \in registry)
    OBVIOUS
  <2>6. Claims(new[i], q) \/ q \in new[i].retired => q \notin registry'
    BY <2>2, <2>3, <2>4, <2>5
  <2> QED
    BY <1>1, <2>6, <2>1, <2>2, <2>3, <2>4
<1>3. ASSUME NEW s \in Threads \ {t}, NEW j \in DOMAIN stack[s], stack[s][j].at = "c_start"
      PROVE  new[i].q # stack[s][j].q /\ stack[s][j].q \notin new[i].retired
  <2> DEFINE q == stack[s][j].q
  <2>1. stack[s][j] \in GoodFrames(s)
    BY <1>1 DEF Shaped
  <2>2. q \in Queues
    BY <1>3, <2>1 DEF GoodFrames, RefAts
  <2>3. q # Top(t).q /\ q \notin Top(t).retired
    BY <1>3, <2>2, TopMentions
  <2> HIDE DEF q
  <2>4. new[i].q # q /\ q \notin new[i].retired
    BY <2>2, <2>3
  <2> QED
    BY <2>4 DEF q
<1>4. new[i].at # "c_start" /\ new[i].at \notin DtorAts /\ new[i].at \notin CreateAts
  BY DEF CreateAts
<1> QED
  BY <1>2, <1>3, <1>4 DEF FitsIn

\* A frame of its own about the queue of the top frame.
LEMMA PlainFits ==
    ASSUME QueuesInv, NEW t \in Threads, stack[t] # <<>>, Top(t).at # "c_start", Top(t).q \in Queues,
           NEW new, NEW i \in DOMAIN new, NEW at, NEW ref \in BOOLEAN, new[i] = Frame(at, Top(t).q, ref),
           at \in (RefAts \cup LooseAts) \ (CreateAts \cup DtorAts \cup {"s_stop", "s_join", "d_stop", "d_join"}),
           at = "notify" => queue'[Top(t).q].err = TRUE /\ reported'[Top(t).q] = 0,
           ref = TRUE <=> at \in RefAts, at \in LoopAts => Top(t).q = t,
           ref = TRUE => Holds(Top(t), Top(t).q) \/ Referenced(Top(t).q),
           \A q \in Queues : queue[q].st # "unborn" => queue'[q].st # "unborn" /\ (q \in registry' => q \in registry)
    PROVE  FitsIn(t, new, i)
<1> DEFINE p == Top(t).q
<1>1. /\ new[i].at = at /\ new[i].q = p /\ new[i].ref = ref /\ new[i].todo = {} /\ new[i].retired = {}
      /\ new[i] = [at |-> at, q |-> p, ref |-> ref, todo |-> {}, retired |-> {}] /\ p \in Queues
  BY DEF Frame
<1> HIDE DEF p
<1>2. new[i] \in StackFrames
  BY <1>1 DEF StackFrames
<1>3. new[i] \in GoodFrames(t)
  BY <1>1, <1>2 DEF GoodFrames, p
<1>4. \A q \in Queues : ~Claims(new[i], q) /\ ~Pending(new[i], q) /\ q \notin new[i].retired
  BY <1>1 DEF Claims, Pending
<1>5. \A q \in Queues : (new[i].q = q => Top(t).q = q) /\ (Holds(new[i], q) => Holds(Top(t), q) \/ Referenced(q))
  BY <1>1 DEF Holds, p
<1>6. /\ new[i].at \notin CreateAts \cup DtorAts
      /\ new[i].at = "notify" => queue'[new[i].q].err = TRUE /\ reported'[new[i].q] = 0
  BY <1>1 DEF p
<1> QED
  BY <1>3, <1>4, <1>5, <1>6, HeirFits

\* A destructor's frame about a queue nobody refers to.
LEMMA DtorFits ==
    ASSUME QueuesInv, NEW t \in Threads, stack[t] # <<>>, Top(t).at # "c_start",
           NEW q \in Queues, Top(t).q = q \/ q \in Top(t).retired,
           NEW new, NEW i \in DOMAIN new, NEW at \in DtorAts, new[i] = Frame(at, q, FALSE),
           q \notin registry', ~Held(stack', q),
           \A p \in Queues : queue[p].st # "unborn" => queue'[p].st # "unborn"
    PROVE  FitsIn(t, new, i)
<1>1. /\ new[i].at = at /\ new[i].q = q /\ new[i].ref = FALSE /\ new[i].todo = {} /\ new[i].retired = {}
      /\ new[i] = [at |-> at, q |-> q, ref |-> FALSE, todo |-> {}, retired |-> {}]
  BY DEF Frame
<1>2. /\ at \in LooseAts /\ at \notin RefAts /\ at \notin CreateAts \cup LoopAts
      /\ at \notin {"c_start", "notify", "s_stop", "s_join", "d_stop", "d_join"}
  BY DEF DtorAts, LooseAts, RefAts, CreateAts, LoopAts
<1>3. new[i] \in StackFrames
  BY <1>1, <1>2 DEF StackFrames
<1>4. new[i] \in GoodFrames(t)
  BY <1>1, <1>2, <1>3 DEF GoodFrames
<1>5. \A p \in Queues : ~Claims(new[i], p) /\ ~Pending(new[i], p) /\ p \notin new[i].retired /\ ~Holds(new[i], p)
  BY <1>1, <1>2 DEF Claims, Pending, Holds
<1>6. queue[q].st # "unborn"
  BY TopMentions
<1>7. \A p \in Queues : new[i].q = p \/ p \in new[i].retired => queue'[p].st # "unborn"
  BY <1>1, <1>6
<1>8. \A s \in Threads \ {t} : \A j \in DOMAIN stack[s] : stack[s][j].at = "c_start" =>
          new[i].q # stack[s][j].q /\ stack[s][j].q \notin new[i].retired
  BY <1>1, TopMentions
<1>9. /\ new[i].at \in DtorAts => new[i].q \notin registry' /\ ~Held(stack', new[i].q)
      /\ new[i].at \notin CreateAts /\ new[i].at # "c_start" /\ new[i].at # "notify"
  BY <1>1, <1>2
<1> QED
  BY <1>4, <1>5, <1>7, <1>8, <1>9 DEF FitsIn

\* Up to two new frames, each of which fits in.
LEMMA NewsKeep ==
    ASSUME QueuesInv, NEW t \in Threads, NEW news \in Seq(StackFrames), Len(news) \in 0 .. 2,
           t \in Queues => stack[t] # <<>>,
           \/ stack[t] # <<>> /\ stack' = [stack EXCEPT ![t] = news \o Tail(stack[t])]
           \/ stack' = [stack EXCEPT ![t] = news],
           \A new : StepOf(t, Len(news), new) => Onward(t, Len(news), new),
           \A new : /\ StepOf(t, Len(news), new)
                    /\ \A i \in 1 .. Len(news) : i \in DOMAIN new /\ new[i] = news[i]
                    /\ Len(new) = Len(news) \/ stack[t] # <<>>
                    => \A i \in 1 .. Len(news) : FitsIn(t, new, i)
    PROVE  QueuesInv'
<1>1. stack \in [Threads -> Seq(StackFrames)]
  BY DEF QueuesInv, QueuesTypes
<1>2. PICK new : /\ StepOf(t, Len(news), new)
                 /\ \A i \in 1 .. Len(news) : i \in DOMAIN new /\ new[i] = news[i]
                 /\ \A i \in DOMAIN new : i <= Len(news) => i \in 1 .. Len(news)
                 /\ Len(new) = Len(news) \/ stack[t] # <<>>
  BY <1>1, NewFrames
<1>3. Onward(t, Len(news), new)
  BY <1>2
<1>4. \A i \in 1 .. Len(news) : FitsIn(t, new, i)
  BY <1>2
<1>5. \A i \in DOMAIN new : i <= Len(news) => FitsIn(t, new, i)
  BY <1>2, <1>4
<1> QED
  BY <1>2, <1>3, <1>5, StepKeeps

\* The top frame is replaced by another.
LEMMA GotoKeeps ==
    ASSUME QueuesInv, NEW t \in Threads, stack[t] # <<>>, NEW f \in StackFrames,
           \/ stack' = [stack EXCEPT ![t] = <<f>> \o Tail(stack[t])]
           \/ stack' = [stack EXCEPT ![t] = <<f>>],
           \A n \in 0 .. 2 : \A new : StepOf(t, n, new) => Onward(t, n, new),
           \A new : StepOf(t, 1, new) /\ 1 \in DOMAIN new /\ new[1] = f => FitsIn(t, new, 1)
    PROVE  QueuesInv'
<1> DEFINE news == <<f>>
<1>1. news \in Seq(StackFrames) /\ Len(news) = 1 /\ news[1] = f
  OBVIOUS
<1>2. \/ stack' = [stack EXCEPT ![t] = news \o Tail(stack[t])]
      \/ stack' = [stack EXCEPT ![t] = news]
  OBVIOUS
<1> HIDE DEF news
<1>3. Len(news) \in 0 .. 2
  BY <1>1
<1>4. \A new : StepOf(t, Len(news), new) => Onward(t, Len(news), new)
  BY <1>3
<1>5. ASSUME NEW new, StepOf(t, Len(news), new), \A i \in 1 .. Len(news) : i \in DOMAIN new /\ new[i] = news[i]
      PROVE  \A i \in 1 .. Len(news) : FitsIn(t, new, i)
  <2>1. 1 \in DOMAIN new /\ new[1] = f /\ StepOf(t, 1, new)
    BY <1>1, <1>5
  <2>2. FitsIn(t, new, 1)
    BY <2>1
  <2> QED
    BY <1>1, <2>2
<1> QED
  BY <1>1, <1>2, <1>3, <1>4, <1>5, NewsKeep

\* The thread returns to the frame below.
LEMMA PopKeeps ==
    ASSUME QueuesInv, NEW t \in Threads, stack[t] # <<>>,
           stack' = [stack EXCEPT ![t] = Tail(stack[t])] \/ stack' = [stack EXCEPT ![t] = <<>>],
           \A n \in 0 .. 2 : \A new : StepOf(t, n, new) => Onward(t, n, new)
    PROVE  QueuesInv'
<1> DEFINE news == <<>>
<1>1. news \in Seq(StackFrames) /\ Len(news) = 0
  OBVIOUS
<1>2. stack \in [Threads -> Seq(StackFrames)]
  BY DEF QueuesInv, QueuesTypes
<1>3. Tail(stack[t]) \in Seq(StackFrames)
  BY <1>2
<1>4. news \o Tail(stack[t]) = Tail(stack[t])
  BY <1>3, ConcatEmptySeq
<1>5. \/ stack' = [stack EXCEPT ![t] = news \o Tail(stack[t])]
      \/ stack' = [stack EXCEPT ![t] = news]
  BY <1>4
<1> HIDE DEF news
<1>6. \A new : StepOf(t, Len(news), new) => Onward(t, Len(news), new)
  BY <1>1
<1>7. \A new : \A i \in 1 .. Len(news) : FitsIn(t, new, i)
  BY <1>1
<1>8. Len(news) \in 0 .. 2
  BY <1>1
<1> QED
  BY <1>1, <1>5, <1>6, <1>7, <1>8, NewsKeep

\* A reference is dropped and the call returns; the last reference is followed by the destructor.
LEMMA DropKeeps ==
    ASSUME QueuesInv, NEW t \in Threads, stack[t] # <<>>, Top(t).at \in RefAts \ {"c_start"},
           Drop(t, registry, Rest(t)), registry' = registry,
           \A n \in 0 .. 2 : \A new : StepOf(t, n, new) => Onward(t, n, new)
    PROVE  QueuesInv'
<1> DEFINE q == Top(t).q
           left == [stack EXCEPT ![t] = Rest(t)]
<1>1. Top(t) \in GoodFrames(t) /\ stack \in [Threads -> Seq(StackFrames)] /\ Rest(t) = Tail(stack[t])
  BY TopFacts
<1>2. q \in Queues
  BY <1>1 DEF GoodFrames, RefAts
<1>3. CASE q \notin registry /\ ~Held(left, q)
  <2> DEFINE f == Frame("x_stop", q, FALSE)
  <2>1. f \in StackFrames
    BY <1>2 DEF Frame, StackFrames, LooseAts
  <2>2. stack' = [left EXCEPT ![t] = <<f>> \o Rest(t)]
    BY <1>3 DEF Drop
  <2>3. stack' = [stack EXCEPT ![t] = <<f>> \o Tail(stack[t])]
    BY <1>1, <2>2
  <2>4. ~Held(stack', q)
    <3>1. ASSUME NEW s \in Threads, NEW i \in DOMAIN stack'[s], Holds(stack'[s][i], q) PROVE FALSE
      <4>1. CASE s = t
        <5> DEFINE b == Tail(stack[t])
        <5>1. b \in Seq(StackFrames) /\ left[t] = b /\ stack'[t] = <<f>> \o b
          BY <1>1, <2>3
        <5>2. ~Holds(f, q)
          BY DEF Frame, Holds
        <5> HIDE DEF b, f
        <5>3. (i = 1 /\ stack'[t][i] = f) \/ (i - 1 \in DOMAIN b /\ stack'[t][i] = b[i - 1])
          BY <2>1, <3>1, <4>1, <5>1
        <5> QED
          BY <1>3, <3>1, <4>1, <5>1, <5>2, <5>3 DEF Held
      <4>2. CASE s # t
        <5>1. stack'[s] = left[s]
          BY <1>1, <2>3, <4>2
        <5> QED
          BY <1>3, <3>1, <5>1 DEF Held
      <4> QED
        BY <4>1, <4>2
    <3> QED
      BY <3>1 DEF Held
  <2>5. ASSUME NEW new, StepOf(t, 1, new), 1 \in DOMAIN new, new[1] = f PROVE FitsIn(t, new, 1)
    <3>1. Onward(t, 1, new)
      BY <2>5
    <3>2. \A p \in Queues : queue[p].st # "unborn" => queue'[p].st # "unborn"
      BY <3>1 DEF Onward
    <3>3. "x_stop" \in DtorAts
      BY DEF DtorAts
    <3> HIDE DEF left
    <3> QED
      BY <1>2, <1>3, <2>4, <2>5, <3>2, <3>3, DtorFits
  <2> HIDE DEF f, q, left
  <2> QED
    BY <2>1, <2>3, <2>5, GotoKeeps
<1>4. CASE ~(q \notin registry /\ ~Held(left, q))
  <2>1. stack' = [stack EXCEPT ![t] = Tail(stack[t])]
    BY <1>1, <1>4 DEF Drop
  <2> QED
    BY <2>1, PopKeeps
<1> QED
  BY <1>3, <1>4

\* The calls that change nothing but stacks, the reference count and who was told of a destruction.
LEMMA QuietOnward ==
    ASSUME QueuesInv, NEW t \in Threads, UNCHANGED <<registry, queue, backend, lifecycle, reported>>,
           references' \in Nat, inits' \in Nat, references' <= inits', inits' <= MaxInits,
           retiredOK' \subseteq Queues,
           \A p \in retiredOK' : p \in retiredOK \/ (stack[p] = <<>> /\ p \notin registry /\ queue[p].st # "unborn")
    PROVE  \A n \in 0 .. 2 : \A new : StepOf(t, n, new) => Onward(t, n, new)
<1> SUFFICES ASSUME NEW n \in 0 .. 2, NEW new, StepOf(t, n, new) PROVE Onward(t, n, new)
  OBVIOUS
<1>1. DataTypes /\ Backed /\ Unborn /\ Unreferenced /\ Latched /\ Joined /\ InCreation
  BY DEF QueuesInv, QueuesTypes
<1>2. DataTypes' /\ Backed'
  BY <1>1 DEF DataTypes, Backed
<1>3. \A p \in retiredOK' : p \in retiredOK \/ (p \in Queues /\ stack'[p] = <<>> /\ p \notin registry')
  BY EndedStays
<1>4. \A q \in Queues : /\ queue[q].st = "unborn" => q \notin registry /\ q \notin retiredOK
                        /\ queue[q].st = "gone" => queue[q].st # "unborn" /\ ~Referenced(q)
                        /\ reported[q] <= 1 /\ (reported[q] # 0 => queue[q].err = TRUE)
  BY <1>1 DEF Unborn, Unreferenced, Latched
<1>5. \A q \in Queues : queue[q].st = "unborn" => q \notin retiredOK'
  BY <1>4
<1> QED
  BY <1>1, <1>2, <1>3, <1>4, <1>5 DEF Onward, InCreation

\* The calls that change the record of one queue.
LEMMA OnwardAt ==
    ASSUME QueuesInv, NEW t \in Threads, NEW p \in Queues, queue[p].st # "unborn",
           UNCHANGED <<references, inits, registry, lifecycle>>,
           queue' \in [Queues -> QueueStates], backend' \in [Queues -> {"none", "running", "destroyed"}],
           reported' \in [Queues -> Nat],
           \A q \in Queues \ {p} : queue'[q] = queue[q] /\ backend'[q] = backend[q] /\ reported'[q] = reported[q],
           queue'[p].st = queue[p].st \/ (queue'[p].st = "gone" /\ ~Referenced(p)),
           \/ queue'[p].thread = queue[p].thread
           \/ /\ queue[p].thread = "held" /\ queue'[p].thread = "moved" /\ p \notin registry
              /\ (stack[t] # <<>> /\ Pending(stack[t][1], p)) \/ ~Referenced(p),
           queue[p].err = TRUE => queue'[p].err = TRUE,
           reported'[p] <= 1 /\ (reported'[p] # 0 => queue'[p].err = TRUE),
           reported'[p] # reported[p] =>
                \/ ~(queue[p].err = TRUE)
                \/ t = p /\ \A i \in DOMAIN stack'[t] : stack'[t][i].at # "notify",
           backend'[p] = "running" => queue'[p].handle = TRUE /\ queue'[p].active = TRUE,
           queue'[p].backing = "freed" => backend'[p] # "running" /\ queue'[p].st = "gone",
           retiredOK' \subseteq Queues,
           \A q \in retiredOK' : q \in retiredOK \/ (stack[q] = <<>> /\ q \notin registry /\ queue[q].st # "unborn")
    PROVE  \A n \in 0 .. 2 : \A new : StepOf(t, n, new) => Onward(t, n, new)
<1> SUFFICES ASSUME NEW n \in 0 .. 2, NEW new, StepOf(t, n, new) PROVE Onward(t, n, new)
  OBVIOUS
<1>1. DataTypes /\ Backed /\ Unborn /\ Unreferenced /\ Latched /\ Joined /\ InCreation
  BY DEF QueuesInv, QueuesTypes
<1>2. DataTypes'
  BY <1>1 DEF DataTypes
<1>3. Backed'
  BY <1>1 DEF Backed
<1>4. \A q \in retiredOK' : q \in retiredOK \/ (q \in Queues /\ stack'[q] = <<>> /\ q \notin registry')
  BY EndedStays
<1>5. ASSUME NEW q \in Queues
      PROVE  /\ queue[q].st # "unborn" => queue'[q].st # "unborn" /\ (q \in registry' => q \in registry)
             /\ queue'[q].st = "unborn" =>
                   queue'[q] = queue[q] /\ backend'[q] = backend[q] /\ q \notin registry' /\ q \notin retiredOK'
             /\ queue'[q].st = "gone" => queue[q].st # "unborn" /\ ~Referenced(q)
             /\ queue[q].thread # "none" => queue'[q].thread # "none"
             /\ queue'[q].thread = "moved" =>
                   \/ queue[q].thread = "moved"
                   \/ /\ q \notin registry /\ queue[q].st # "unborn"
                      /\ \/ stack[t] # <<>> /\ Pending(stack[t][1], q)
                         \/ ~Referenced(q)
             /\ queue[q].err = TRUE => queue'[q].err = TRUE
             /\ reported'[q] <= 1 /\ (reported'[q] # 0 => queue'[q].err = TRUE)
             /\ reported'[q] # reported[q] =>
                   \/ ~(queue[q].err = TRUE)
                   \/ t = q /\ \A i \in DOMAIN new : i > n => new[i].at # "notify"
  <2>1. CASE q = p
    <3>1. stack'[t] = new
      BY DEF StepOf
    <3>2. queue[p].st = "gone" => ~Referenced(p)
      BY <1>1 DEF Unreferenced
    <3>3. queue'[p].st # "unborn"
      BY DEF QueueStates
    <3>4. queue'[p].thread = "moved" =>
                   \/ queue[p].thread = "moved"
                   \/ /\ p \notin registry /\ queue[p].st # "unborn"
                      /\ \/ stack[t] # <<>> /\ Pending(stack[t][1], p)
                         \/ ~Referenced(p)
      OBVIOUS
    <3>5. queue[p].thread # "none" => queue'[p].thread # "none"
      OBVIOUS
    <3> QED
      BY <2>1, <3>1, <3>2, <3>3, <3>4, <3>5
  <2>2. CASE q # p
    <3>1. queue'[q] = queue[q] /\ backend'[q] = backend[q] /\ reported'[q] = reported[q]
      BY <2>2
    <3>2. /\ queue[q].st = "unborn" => q \notin registry /\ q \notin retiredOK
          /\ queue[q].st = "gone" => ~Referenced(q)
          /\ reported[q] <= 1 /\ (reported[q] # 0 => queue[q].err = TRUE)
      BY <1>1 DEF Unborn, Unreferenced, Latched
    <3> QED
      BY <3>1, <3>2
  <2> QED
    BY <2>1, <2>2
<1>6. ASSUME NEW s \in Threads \ {t}, NEW j \in DOMAIN stack[s], stack[s][j].at = "c_start"
      PROVE  stack[s][j].q \in registry' /\ queue'[stack[s][j].q].thread = "none"
  <2> DEFINE q == stack[s][j].q
  <2>1. q \in registry /\ queue[q].thread = "none"
    BY <1>1, <1>6 DEF InCreation
  <2>2. q \in Queues
    BY <1>1, <2>1 DEF DataTypes
  <2> HIDE DEF q
  <2>3. queue'[q].thread = "none"
    BY <2>1, <2>2
  <2> QED
    BY <2>1, <2>3 DEF q
<1> QED
  BY <1>2, <1>3, <1>4, <1>5, <1>6 DEF Onward

\* The frame of a callback stays as it is while the callback makes calls.
LEMMA CallerFits ==
    ASSUME QueuesInv, NEW t \in Threads, stack[t] # <<>>, Top(t).at = "callback",
           NEW new, NEW i \in DOMAIN new, new[i] = Top(t),
           \A q \in Queues : queue[q].st # "unborn" => queue'[q].st # "unborn" /\ (q \in registry' => q \in registry)
    PROVE  FitsIn(t, new, i)
<1>1. Top(t) \in GoodFrames(t)
  BY TopFacts
<1>2. Top(t).retired = {} /\ Top(t).todo = {}
  BY <1>1 DEF GoodFrames
<1>3. \A q \in Queues : ~Claims(new[i], q) /\ ~Pending(new[i], q) /\ q \notin new[i].retired
  BY <1>2 DEF Claims, Pending
<1>4. new[i].at \notin CreateAts \cup DtorAts /\ new[i].at # "notify" /\ Top(t).at # "c_start"
  BY DEF CreateAts, DtorAts
<1> QED
  BY <1>1, <1>3, <1>4, HeirFits

\* A call begins: its frame comes on top of the stack it is called from.
LEMMA CallKeeps ==
    ASSUME QueuesInv, NEW t \in Threads, MayCall(t), NEW f \in StackFrames,
           stack' = [stack EXCEPT ![t] = <<f>> \o stack[t]],
           \A n \in 0 .. 2 : \A new : StepOf(t, n, new) => Onward(t, n, new),
           \A n \in 0 .. 2 : \A new : StepOf(t, n, new) /\ 1 \in DOMAIN new /\ new[1] = f => FitsIn(t, new, 1)
    PROVE  QueuesInv'
<1>1. stack \in [Threads -> Seq(StackFrames)]
  BY DEF QueuesInv, QueuesTypes
<1>2. CASE stack[t] = <<>>
  <2> DEFINE news == <<f>>
  <2>1. t \notin Queues
    BY <1>2, RuntimeAssumption DEF MayCall
  <2>2. news \in Seq(StackFrames) /\ Len(news) = 1 /\ news[1] = f
    OBVIOUS
  <2>3. news \o <<>> = news
    BY <2>2, ConcatEmptySeq
  <2>4. stack' = [stack EXCEPT ![t] = news]
    BY <1>2, <2>3
  <2> HIDE DEF news
  <2>5. Len(news) \in 0 .. 2 /\ \A new : StepOf(t, Len(news), new) => Onward(t, Len(news), new)
    BY <2>2
  <2>6. ASSUME NEW new, StepOf(t, Len(news), new), \A i \in 1 .. Len(news) : i \in DOMAIN new /\ new[i] = news[i]
        PROVE  \A i \in 1 .. Len(news) : FitsIn(t, new, i)
    <3>1. 1 \in DOMAIN new /\ new[1] = f /\ StepOf(t, 1, new)
      BY <2>2, <2>6
    <3>2. FitsIn(t, new, 1)
      BY <3>1
    <3> QED
      BY <2>2, <3>2
  <2> QED
    BY <2>1, <2>2, <2>4, <2>5, <2>6, NewsKeep
<1>3. CASE stack[t] # <<>>
  <2> DEFINE r == Top(t)
             news == <<f, r>>
  <2>1. r = stack[t][1] /\ r \in GoodFrames(t) /\ r.at = "callback"
    BY <1>3, TopFacts DEF MayCall
  <2>2. r \in StackFrames
    BY <2>1 DEF GoodFrames
  <2>3. Tail(stack[t]) \in Seq(StackFrames) /\ stack[t] = <<r>> \o Tail(stack[t])
    <3>1. stack[t] \in Seq(StackFrames) /\ r = Head(stack[t])
      BY <1>1, <2>1
    <3> HIDE DEF r
    <3> QED
      BY <1>3, <3>1
  <2> HIDE DEF r
  <2>4. news \in Seq(StackFrames) /\ Len(news) = 2 /\ news[1] = f /\ news[2] = r
    BY <2>2
  <2>5. <<f>> \o (<<r>> \o Tail(stack[t])) = news \o Tail(stack[t])
    BY <2>2, <2>3
  <2>6. stack' = [stack EXCEPT ![t] = news \o Tail(stack[t])]
    BY <2>3, <2>5
  <2> HIDE DEF news
  <2>7. Len(news) \in 0 .. 2 /\ \A new : StepOf(t, Len(news), new) => Onward(t, Len(news), new)
    BY <2>4
  <2>8. ASSUME NEW new, StepOf(t, Len(news), new), \A i \in 1 .. Len(news) : i \in DOMAIN new /\ new[i] = news[i]
        PROVE  \A i \in 1 .. Len(news) : FitsIn(t, new, i)
    <3>1. StepOf(t, 2, new) /\ 1 \in DOMAIN new /\ new[1] = f /\ 2 \in DOMAIN new /\ new[2] = r
      BY <2>4, <2>8
    <3>2. FitsIn(t, new, 1)
      BY <3>1
    <3>3. Onward(t, 2, new)
      BY <3>1
    <3>4. \A q \in Queues : queue[q].st # "unborn" => queue'[q].st # "unborn" /\ (q \in registry' => q \in registry)
      BY <3>3 DEF Onward
    <3>5. FitsIn(t, new, 2)
      BY <1>3, <2>1, <3>1, <3>4, CallerFits DEF r
    <3>6. \A i \in 1 .. Len(news) : i = 1 \/ i = 2
      BY <2>4
    <3> QED
      BY <3>2, <3>5, <3>6
  <2> QED
    BY <1>3, <2>4, <2>6, <2>7, <2>8, NewsKeep
<1> QED
  BY <1>2, <1>3

\* A reference is dropped and one frame goes on in its place; the destructor may come first.
LEMMA DropToKeeps ==
    ASSUME QueuesInv, NEW t \in Threads, stack[t] # <<>>, Top(t).at \in RefAts \ {"c_start"},
           NEW f \in StackFrames, Drop(t, registry, <<f>> \o Rest(t)), registry' = registry,
           \A q \in Queues : ~Holds(f, q),
           \A n \in 0 .. 2 : \A new : StepOf(t, n, new) => Onward(t, n, new),
           \A new : \A i \in DOMAIN new :
              new[i] = f /\ (\A k \in DOMAIN new : k < i => new[k].at \in DtorAts) => FitsIn(t, new, i)
    PROVE  QueuesInv'
<1> DEFINE q == Top(t).q
           b == Tail(stack[t])
           left == [stack EXCEPT ![t] = <<f>> \o b]
<1>1. Top(t) \in GoodFrames(t) /\ stack \in [Threads -> Seq(StackFrames)] /\ Rest(t) = b
  BY TopFacts
<1>2. q \in Queues
  BY <1>1 DEF GoodFrames, RefAts
<1>3. b \in Seq(StackFrames)
  BY <1>1
<1> HIDE DEF b
<1>4. Drop(t, registry, <<f>> \o b)
  BY <1>1
<1>5. CASE q \notin registry /\ ~Held(left, q)
  <2> DEFINE x == Frame("x_stop", q, FALSE)
             news == <<x, f>>
  <2>1. x \in StackFrames /\ x.at = "x_stop" /\ ~Holds(x, q)
    BY <1>2 DEF Frame, StackFrames, LooseAts, Holds
  <2>2. stack' = [left EXCEPT ![t] = <<x>> \o (<<f>> \o b)]
    BY <1>4, <1>5 DEF Drop
  <2> HIDE DEF x
  <2>3. <<x>> \o (<<f>> \o b) = news \o b
    BY <1>3, <2>1
  <2>4. stack' = [stack EXCEPT ![t] = news \o b]
    BY <1>1, <2>2, <2>3
  <2>5. news \in Seq(StackFrames) /\ Len(news) = 2 /\ news[1] = x /\ news[2] = f
    BY <2>1
  <2> HIDE DEF news
  <2>6. ~Held(stack', q)
    <3>1. ASSUME NEW s \in Threads, NEW i \in DOMAIN stack'[s], Holds(stack'[s][i], q) PROVE FALSE
      <4>1. CASE s = t
        <5> DEFINE c == <<f>> \o b
        <5>1. c \in Seq(StackFrames) /\ left[t] = c
          BY <1>1, <1>3
        <5>2. stack'[t] = <<x>> \o c
          BY <1>1, <2>2
        <5> HIDE DEF c, left
        <5>3. (i = 1 /\ stack'[t][i] = x) \/ (i - 1 \in DOMAIN c /\ stack'[t][i] = c[i - 1])
          BY <2>1, <3>1, <4>1, <5>1, <5>2
        <5> QED
          BY <1>5, <2>1, <3>1, <4>1, <5>1, <5>3 DEF Held
      <4>2. CASE s # t
        <5>1. stack'[s] = left[s]
          BY <1>1, <2>4, <4>2
        <5> QED
          BY <1>5, <3>1, <5>1 DEF Held
      <4> QED
        BY <4>1, <4>2
    <3> QED
      BY <3>1 DEF Held
  <2>7. Len(news) \in 0 .. 2 /\ \A new : StepOf(t, Len(news), new) => Onward(t, Len(news), new)
    BY <2>5
  <2>8. ASSUME NEW new, StepOf(t, Len(news), new), \A i \in 1 .. Len(news) : i \in DOMAIN new /\ new[i] = news[i]
        PROVE  \A i \in 1 .. Len(news) : FitsIn(t, new, i)
    <3>1. Onward(t, Len(news), new)
      BY <2>7, <2>8
    <3>2. \A p \in Queues : queue[p].st # "unborn" => queue'[p].st # "unborn"
      BY <3>1 DEF Onward
    <3>3. "x_stop" \in DtorAts
      BY DEF DtorAts
    <3>4. 1 \in DOMAIN new /\ new[1] = x /\ 2 \in DOMAIN new /\ new[2] = f
      BY <2>5, <2>8
    <3> HIDE DEF left
    <3>5. new[1] = Frame("x_stop", q, FALSE)
      BY <3>4 DEF x
    <3>6. FitsIn(t, new, 1)
      BY <1>2, <1>5, <2>6, <3>2, <3>3, <3>4, <3>5, DtorFits
    <3>7. \A k \in DOMAIN new : k < 2 => new[k].at \in DtorAts
      <4>1. new \in Seq(StackFrames)
        BY <2>8 DEF StepOf
      <4>2. \A k \in DOMAIN new : k < 2 => k = 1
        BY <4>1
      <4> QED
        BY <2>1, <3>3, <3>4, <4>2
    <3>8. FitsIn(t, new, 2)
      BY <3>4, <3>7
    <3>9. \A i \in 1 .. Len(news) : i = 1 \/ i = 2
      BY <2>5
    <3> QED
      BY <3>6, <3>8, <3>9
  <2> HIDE DEF q, left
  <2>9. stack' = [stack EXCEPT ![t] = news \o Tail(stack[t])]
    BY <2>4 DEF b
  <2> QED
    BY <2>5, <2>7, <2>8, <2>9, NewsKeep
<1>6. CASE ~(q \notin registry /\ ~Held(left, q))
  <2>1. stack' = [stack EXCEPT ![t] = <<f>> \o Tail(stack[t])]
    BY <1>4, <1>6 DEF Drop, b
  <2>2. ASSUME NEW new, StepOf(t, 1, new), 1 \in DOMAIN new, new[1] = f PROVE FitsIn(t, new, 1)
    <3>1. \A k \in DOMAIN new : ~(k < 1)
      BY <2>2 DEF StepOf
    <3> QED
      BY <2>2, <3>1
  <2> QED
    BY <2>1, <2>2, GotoKeeps
<1> QED
  BY <1>5, <1>6

\* A call that leaves every stack alone.
LEMMA IdleKeeps ==
    ASSUME QueuesInv, NEW t \in Threads, MayCall(t), UNCHANGED stack,
           \A n \in 0 .. 2 : \A new : StepOf(t, n, new) => Onward(t, n, new)
    PROVE  QueuesInv'
<1>1. stack \in [Threads -> Seq(StackFrames)]
  BY DEF QueuesInv, QueuesTypes
<1>2. CASE stack[t] = <<>>
  <2> DEFINE news == <<>>
  <2>1. t \notin Queues
    BY <1>2, RuntimeAssumption DEF MayCall
  <2>2. news \in Seq(StackFrames) /\ Len(news) = 0 /\ stack[t] = news
    BY <1>2
  <2> HIDE DEF news
  <2>3. stack' = [stack EXCEPT ![t] = news]
    BY <1>1, <2>2
  <2>4. \A new : StepOf(t, Len(news), new) => Onward(t, Len(news), new)
    BY <2>2
  <2>5. \A new : \A i \in 1 .. Len(news) : FitsIn(t, new, i)
    BY <2>2
  <2>6. Len(news) \in 0 .. 2
    BY <2>2
  <2> QED
    BY <2>1, <2>2, <2>3, <2>4, <2>5, <2>6, NewsKeep
<1>3. CASE stack[t] # <<>>
  <2> DEFINE f == Top(t)
  <2>1. f = stack[t][1] /\ f \in GoodFrames(t) /\ f.at = "callback"
    BY <1>3, TopFacts DEF MayCall
  <2>2. f \in StackFrames
    BY <2>1 DEF GoodFrames
  <2>3. stack[t] \in Seq(StackFrames) /\ f = Head(stack[t])
    BY <1>1, <2>1
  <2> HIDE DEF f
  <2>4. stack[t] = <<f>> \o Tail(stack[t])
    BY <1>3, <2>3
  <2>5. stack' = [stack EXCEPT ![t] = <<f>> \o Tail(stack[t])]
    BY <1>1, <2>4
  <2>6. ASSUME NEW new, StepOf(t, 1, new), 1 \in DOMAIN new, new[1] = f PROVE FitsIn(t, new, 1)
    <3>1. Onward(t, 1, new)
      BY <2>6
    <3>2. \A q \in Queues : queue[q].st # "unborn" => queue'[q].st # "unborn" /\ (q \in registry' => q \in registry)
      BY <3>1 DEF Onward
    <3> QED
      BY <1>3, <2>1, <2>6, <3>2, CallerFits DEF f
  <2> QED
    BY <1>3, <2>2, <2>5, <2>6, GotoKeeps
<1> QED
  BY <1>2, <1>3

-----------------------------------------------------------------------------
\* hsa_init changes the reference count only.
LEMMA HsaInitKeeps == ASSUME QueuesInv, NEW t \in Threads, HsaInit(t) PROVE QueuesInv'
<1>1. DataTypes
  BY DEF QueuesInv, QueuesTypes
<1>2. /\ references' \in Nat /\ inits' \in Nat /\ references' <= inits' /\ inits' <= MaxInits
      /\ UNCHANGED <<registry, queue, backend, lifecycle, reported, retiredOK>>
  BY <1>1, RuntimeAssumption DEF HsaInit, DataTypes
<1>3. \A n \in 0 .. 2 : \A new : StepOf(t, n, new) => Onward(t, n, new)
  BY <1>1, <1>2, QuietOnward DEF DataTypes
<1> QED
  BY <1>3, IdleKeeps DEF HsaInit

\* While nobody holds the lifecycle mutex no queue is being created.
LEMMA NoneCreating ==
    ASSUME QueuesInv, lifecycle = "free"
    PROVE  \A s \in Threads : \A j \in DOMAIN stack[s] : stack[s][j].at # "c_start"
<1>1. InCreation
  BY DEF QueuesInv
<1>2. "c_start" \in CreateAts
  BY DEF CreateAts
<1>3. \A s \in Threads : s # "free"
  BY RuntimeAssumption DEF Threads
<1> QED
  BY <1>1, <1>2, <1>3 DEF InCreation

\* Only one thread creates a queue at a time.
LEMMA OneCreating ==
    ASSUME QueuesInv, NEW t \in Threads, stack[t] # <<>>, Top(t).at \in CreateAts
    PROVE  /\ lifecycle = t
           /\ \A s \in Threads \ {t} : \A j \in DOMAIN stack[s] : stack[s][j].at # "c_start"
<1>1. InCreation /\ 1 \in DOMAIN stack[t] /\ Top(t) = stack[t][1]
  BY TopFacts DEF QueuesInv
<1>2. "c_start" \in CreateAts
  BY DEF CreateAts
<1> QED
  BY <1>1, <1>2 DEF InCreation

\* hsa_shut_down takes the whole registry over, or just counts down.
LEMMA HsaShutDownKeeps == ASSUME QueuesInv, NEW t \in Threads, HsaShutDown(t) PROVE QueuesInv'
<1>1. /\ DataTypes /\ Backed /\ Unborn /\ Unreferenced /\ Latched /\ Joined /\ InCreation /\ Claimed
      /\ stack \in [Threads -> Seq(StackFrames)]
  BY DEF QueuesInv, QueuesTypes
<1>2. /\ references' \in Nat /\ inits' \in Nat /\ references' <= inits' /\ inits' <= MaxInits
      /\ UNCHANGED <<inits, queue, backend, lifecycle, reported, retiredOK>> /\ MayCall(t)
  BY <1>1 DEF HsaShutDown, DataTypes
<1>3. \A s \in Threads : \A j \in DOMAIN stack[s] : stack[s][j].at # "c_start"
  BY NoneCreating DEF HsaShutDown
<1>4. CASE references = 1
  <2> DEFINE f == [Frame("s_stop", None, FALSE) EXCEPT !.todo = registry, !.retired = registry]
  <2>1. registry' = {}
    BY <1>4 DEF HsaShutDown
  <2>2. /\ f.at = "s_stop" /\ f.q = None /\ f.ref = FALSE /\ f.todo = registry /\ f.retired = registry
        /\ f \in StackFrames
    BY <1>1 DEF Frame, StackFrames, LooseAts, DataTypes
  <2>3. f \in GoodFrames(t)
    BY <2>2 DEF GoodFrames, RefAts, LoopAts
  <2>4. stack' = [stack EXCEPT ![t] = <<f>> \o stack[t]]
    BY <1>4 DEF HsaShutDown
  <2> HIDE DEF f
  <2>5. ASSUME NEW n \in 0 .. 2, NEW new, StepOf(t, n, new) PROVE Onward(t, n, new)
    <3>1. DataTypes' /\ Backed'
      BY <1>1, <1>2, <2>1 DEF DataTypes, Backed
    <3>2. \A q \in Queues : /\ queue[q].st = "unborn" => q \notin registry /\ q \notin retiredOK
                            /\ queue[q].st = "gone" => queue[q].st # "unborn" /\ ~Referenced(q)
                            /\ reported[q] <= 1 /\ (reported[q] # 0 => queue[q].err = TRUE)
      BY <1>1 DEF Unborn, Unreferenced, Latched
    <3> QED
      BY <1>2, <1>3, <2>1, <3>1, <3>2 DEF Onward
  <2>6. ASSUME NEW n \in 0 .. 2, NEW new, StepOf(t, n, new), 1 \in DOMAIN new, new[1] = f
        PROVE  FitsIn(t, new, 1)
    <3>1. ASSUME NEW q \in Queues
          PROVE  /\ Holds(new[1], q) => Referenced(q)
                 /\ new[1].q = q \/ q \in new[1].retired => queue'[q].st # "unborn"
                 /\ Pending(new[1], q) => queue'[q].thread # "moved"
                 /\ Claims(new[1], q) => q \in registry
                 /\ q \in new[1].retired => Claims(new[1], q)
      <4>1. /\ Holds(new[1], q) => q \in registry
            /\ new[1].q = q \/ q \in new[1].retired => q \in registry
            /\ Pending(new[1], q) => q \in registry
            /\ Claims(new[1], q) <=> q \in registry
            /\ q \in new[1].retired => Claims(new[1], q)
        BY <2>2, <2>6, RuntimeAssumption DEF Holds, Pending, Claims, None
      <4>2. /\ q \in registry => queue[q].st # "unborn" /\ queue[q].thread # "moved"
            /\ queue'[q] = queue[q]
        BY <1>1, <1>2 DEF Unborn, Claimed
      <4> QED
        BY <4>1, <4>2 DEF Referenced
    <3>2. new[1].at \notin DtorAts /\ new[1].at \notin CreateAts /\ new[1].at # "c_start" /\ new[1].at # "notify"
      BY <2>2, <2>6 DEF DtorAts, CreateAts
    <3> QED
      BY <1>3, <2>1, <2>3, <2>6, <3>1, <3>2 DEF FitsIn
  <2> QED
    BY <1>2, <2>2, <2>4, <2>5, <2>6, CallKeeps
<1>5. CASE references # 1
  <2>1. registry' = registry /\ UNCHANGED stack
    BY <1>1, <1>5 DEF HsaShutDown
  <2>2. \A n \in 0 .. 2 : \A new : StepOf(t, n, new) => Onward(t, n, new)
    BY <1>1, <1>2, <2>1, QuietOnward DEF DataTypes
  <2> QED
    BY <1>2, <2>1, <2>2, IdleKeeps
<1> QED
  BY <1>4, <1>5

\* A call that pins a queue of the registry.
LEMMA PinKeeps ==
    ASSUME QueuesInv, NEW t \in Threads, NEW q \in Queues,
           NEW at \in {"d_inactivate", "inactivate", "ring", "profile", "unpin"}, Pin(t, q, at),
           UNCHANGED <<references, inits, registry, queue, backend, lifecycle, reported, retiredOK>>
    PROVE  QueuesInv'
<1> DEFINE f == Frame(at, q, TRUE)
<1>1. DataTypes /\ Unborn /\ InCreation /\ stack \in [Threads -> Seq(StackFrames)]
  BY DEF QueuesInv, QueuesTypes
<1>2. /\ f.at = at /\ f.q = q /\ f.ref = TRUE /\ f.todo = {} /\ f.retired = {}
      /\ f = [at |-> at, q |-> q, ref |-> TRUE, todo |-> {}, retired |-> {}]
  BY DEF Frame
<1>3. MayCall(t) /\ q \in registry /\ stack' = [stack EXCEPT ![t] = <<f>> \o stack[t]] /\ Known(q)
  BY DEF Pin
<1> HIDE DEF f
<1>4. /\ at \in RefAts /\ at \notin LoopAts \cup DtorAts \cup CreateAts
      /\ at \notin {"c_start", "notify", "s_stop", "s_join", "d_stop", "d_join", "c_unlock"}
  BY DEF RefAts, LoopAts, DtorAts, CreateAts
<1>5. f \in StackFrames
  BY <1>2, <1>4 DEF StackFrames
<1>6. f \in GoodFrames(t)
  BY <1>2, <1>4, <1>5 DEF GoodFrames
<1>7. \A n \in 0 .. 2 : \A new : StepOf(t, n, new) => Onward(t, n, new)
  BY <1>1, QuietOnward DEF DataTypes
<1>8. ASSUME NEW s \in Threads, NEW j \in DOMAIN stack[s], stack[s][j].at = "c_start" PROVE stack[s][j].q # q
  <2>1. j = 1 /\ stack[s] # <<>>
    BY <1>1, <1>8 DEF InCreation
  <2>2. At(s, "c_start") /\ Top(s) = stack[s][j]
    BY <1>8, <2>1 DEF At, Top
  <2> QED
    BY <1>3, <2>2 DEF Known
<1>9. ASSUME NEW n \in 0 .. 2, NEW new, StepOf(t, n, new), 1 \in DOMAIN new, new[1] = f
      PROVE  FitsIn(t, new, 1)
  <2>1. ASSUME NEW p \in Queues
        PROVE  /\ Holds(new[1], p) => Referenced(p)
               /\ new[1].q = p \/ p \in new[1].retired => queue'[p].st # "unborn"
               /\ ~Claims(new[1], p) /\ ~Pending(new[1], p) /\ p \notin new[1].retired
    <3>1. queue[q].st # "unborn"
      BY <1>1, <1>3 DEF Unborn
    <3> QED
      BY <1>2, <1>3, <1>4, <1>9, <3>1 DEF Holds, Claims, Pending, Referenced
  <2> QED
    BY <1>2, <1>4, <1>6, <1>8, <1>9, <2>1 DEF FitsIn
<1> QED
  BY <1>3, <1>5, <1>7, <1>9, CallKeeps

-----------------------------------------------------------------------------
\* A queue that was not created is not mentioned by any frame.
LEMMA UnbornUnmentioned ==
    ASSUME QueuesInv, NEW q \in Queues, queue[q].st = "unborn"
    PROVE  /\ queue[q] = Fresh /\ backend[q] = "none" /\ q \notin registry /\ q \notin retiredOK
           /\ reported[q] = 0
           /\ \A s \in Threads : \A j \in DOMAIN stack[s] : stack[s][j].q # q /\ q \notin stack[s][j].retired
<1>1. Unborn /\ Latched /\ DataTypes
  BY DEF QueuesInv, QueuesTypes
<1>2. queue[q] = Fresh
  BY <1>1 DEF Unborn
<1>3. queue[q].err = FALSE
  BY <1>2 DEF Fresh
<1> QED
  BY <1>1, <1>2, <1>3 DEF Unborn, Latched

\* The step that creates queue q.
LEMMA BirthOnward ==
    ASSUME QueuesInv, NEW t \in Threads, NEW q \in Queues, queue[q].st = "unborn",
           queue' \in [Queues -> QueueStates], backend' \in [Queues -> {"none", "running", "destroyed"}],
           queue'[q].st = "live", queue'[q].thread = "none", queue'[q].err = FALSE,
           queue'[q].active = TRUE, queue'[q].backing = "held",
           backend'[q] = "running" => queue'[q].handle = TRUE,
           \A p \in Queues \ {q} : queue'[p] = queue[p] /\ backend'[p] = backend[p],
           registry' = registry \cup {q}, UNCHANGED <<references, inits, reported, retiredOK>>,
           lifecycle' = lifecycle \/ lifecycle = "free", lifecycle' \in Threads \cup {"free"}
    PROVE  \A n \in 0 .. 2 : \A new : StepOf(t, n, new) => Onward(t, n, new)
<1> SUFFICES ASSUME NEW n \in 0 .. 2, NEW new, StepOf(t, n, new) PROVE Onward(t, n, new)
  OBVIOUS
<1>1. DataTypes /\ Backed /\ Unborn /\ Unreferenced /\ Latched /\ InCreation
  BY DEF QueuesInv, QueuesTypes
<1>2. /\ q \notin registry /\ q \notin retiredOK /\ reported[q] = 0
      /\ \A s \in Threads : \A j \in DOMAIN stack[s] : stack[s][j].q # q
  BY UnbornUnmentioned
<1>3. DataTypes'
  BY <1>1 DEF DataTypes
<1>4. Backed'
  BY <1>1 DEF Backed
<1>5. ASSUME NEW p \in Queues
      PROVE  /\ queue[p].st # "unborn" => queue'[p].st # "unborn" /\ (p \in registry' => p \in registry)
             /\ queue'[p].st = "unborn" =>
                   queue'[p] = queue[p] /\ backend'[p] = backend[p] /\ p \notin registry' /\ p \notin retiredOK'
             /\ queue'[p].st = "gone" => queue[p].st # "unborn" /\ ~Referenced(p)
             /\ queue[p].thread # "none" => queue'[p].thread # "none"
             /\ queue'[p].thread = "moved" => queue[p].thread = "moved"
             /\ queue[p].err = TRUE => queue'[p].err = TRUE
             /\ reported'[p] <= 1 /\ (reported'[p] # 0 => queue'[p].err = TRUE)
             /\ reported'[p] = reported[p]
  <2>1. CASE p = q
    <3>1. queue[q] = Fresh
      BY UnbornUnmentioned
    <3>2. queue[q].thread = "none" /\ queue[q].err = FALSE
      BY <3>1 DEF Fresh
    <3> QED
      BY <1>2, <2>1, <3>2
  <2>2. CASE p # q
    <3>1. queue'[p] = queue[p] /\ backend'[p] = backend[p] /\ reported'[p] = reported[p] /\ (p \in registry' <=> p \in registry)
      BY <2>2
    <3>2. /\ queue[p].st = "unborn" => p \notin registry /\ p \notin retiredOK
          /\ queue[p].st = "gone" => ~Referenced(p)
          /\ reported[p] <= 1 /\ (reported[p] # 0 => queue[p].err = TRUE)
      BY <1>1 DEF Unborn, Unreferenced, Latched
    <3> QED
      BY <3>1, <3>2
  <2> QED
    BY <2>1, <2>2
<1>6. ASSUME NEW s \in Threads \ {t}, NEW j \in DOMAIN stack[s], stack[s][j].at = "c_start"
      PROVE  stack[s][j].q \in registry' /\ queue'[stack[s][j].q].thread = "none"
  <2> DEFINE p == stack[s][j].q
  <2>1. p \in registry /\ queue[p].thread = "none"
    BY <1>1, <1>6 DEF InCreation
  <2>2. p \in Queues /\ p # q
    BY <1>1, <1>2, <2>1 DEF DataTypes
  <2> HIDE DEF p
  <2>3. queue'[p].thread = "none" /\ p \in registry'
    BY <2>1, <2>2
  <2> QED
    BY <2>3 DEF p
<1> QED
  BY <1>3, <1>4, <1>5, <1>6 DEF Onward

\* hsa_queue_create publishes the queue and keeps its own reference and the lifecycle mutex.
LEMMA QueueCreateKeeps == ASSUME QueuesInv, NEW t \in Threads, NEW q \in Queues, QueueCreate(t, q) PROVE QueuesInv'
<1> DEFINE f == Frame("c_start", q, TRUE)
<1>1. /\ DataTypes /\ InCreation /\ stack \in [Threads -> Seq(StackFrames)]
  BY DEF QueuesInv, QueuesTypes
<1>2. /\ queue[q] = Fresh /\ backend[q] = "none" /\ q \notin registry /\ q \notin retiredOK
      /\ \A s \in Threads : \A j \in DOMAIN stack[s] : stack[s][j].q # q /\ q \notin stack[s][j].retired
  BY UnbornUnmentioned DEF QueueCreate
<1>3. /\ queue[q] \in QueueStates /\ queue[q].active = TRUE /\ queue[q].thread = "none" /\ queue[q].err = FALSE
  <2>1. Fresh.active = TRUE /\ Fresh.thread = "none" /\ Fresh.err = FALSE
    BY DEF Fresh
  <2> QED
    BY <1>1, <1>2, <2>1 DEF DataTypes
<1>4. queue' = [queue EXCEPT ![q].st = "live", ![q].handle = TRUE, ![q].backing = "held"]
  BY DEF QueueCreate
<1>5. queue' \in [Queues -> QueueStates]
  BY <1>1, <1>3, <1>4 DEF DataTypes, QueueStates
<1>6. /\ queue'[q].st = "live" /\ queue'[q].thread = "none" /\ queue'[q].err = FALSE
      /\ queue'[q].active = TRUE /\ queue'[q].backing = "held" /\ queue'[q].handle = TRUE
  BY <1>1, <1>3, <1>4 DEF DataTypes, QueueStates
<1>7. \A p \in Queues \ {q} : queue'[p] = queue[p] /\ backend'[p] = backend[p]
  BY <1>1, <1>4 DEF DataTypes, QueueCreate
<1>8. /\ backend' \in [Queues -> {"none", "running", "destroyed"}]
      /\ registry' = registry \cup {q} /\ UNCHANGED <<references, inits, reported, retiredOK>>
      /\ lifecycle = "free" /\ lifecycle' = t /\ queue[q].st = "unborn" /\ MayCall(t)
  BY <1>1 DEF DataTypes, QueueCreate
<1>9. \A n \in 0 .. 2 : \A new : StepOf(t, n, new) => Onward(t, n, new)
  <2>1. backend'[q] = "running" => queue'[q].handle = TRUE
    BY <1>6
  <2>2. lifecycle' \in Threads \cup {"free"}
    BY <1>8
  <2> QED
    BY <1>1, <1>5, <1>6, <1>7, <1>8, <2>1, <2>2, BirthOnward
<1>10. /\ f.at = "c_start" /\ f.q = q /\ f.ref = TRUE /\ f.todo = {} /\ f.retired = {}
       /\ f = [at |-> "c_start", q |-> q, ref |-> TRUE, todo |-> {}, retired |-> {}]
  BY DEF Frame
<1>11. stack' = [stack EXCEPT ![t] = <<f>> \o stack[t]]
  BY DEF QueueCreate
<1> HIDE DEF f
<1>12. f \in StackFrames
  BY <1>10 DEF StackFrames, RefAts
<1>13. f \in GoodFrames(t)
  BY <1>10, <1>12 DEF GoodFrames, RefAts, LoopAts
<1>14. \A s \in Threads : \A j \in DOMAIN stack[s] : stack[s][j].at # "c_start"
  BY <1>8, NoneCreating
<1>15. ASSUME NEW n \in 0 .. 2, NEW new, StepOf(t, n, new), 1 \in DOMAIN new, new[1] = f
       PROVE  FitsIn(t, new, 1)
  <2>1. \A p \in Queues :
          /\ Holds(new[1], p) => queue[p].st = "unborn"
          /\ new[1].q = p \/ p \in new[1].retired => queue'[p].st # "unborn"
          /\ ~Claims(new[1], p) /\ ~Pending(new[1], p) /\ p \notin new[1].retired
    BY <1>6, <1>8, <1>10, <1>15 DEF Holds, Claims, Pending
  <2>2. new[1].at \notin DtorAts /\ new[1].at # "notify"
    BY <1>10, <1>15 DEF DtorAts
  <2>3. \A s \in Threads \ {t} : stack'[s] = stack[s]
    BY <1>1, <1>11
  <2>4. \A k \in DOMAIN new : ~(k < 1)
    BY <1>15 DEF StepOf
  <2> QED
    BY <1>2, <1>6, <1>8, <1>10, <1>13, <1>14, <1>15, <2>1, <2>2, <2>3, <2>4 DEF FitsIn
<1> QED
  BY <1>8, <1>9, <1>11, <1>12, <1>15, CallKeeps

\* hsa_soft_queue_create publishes a queue without the driver's.
LEMMA SoftQueueCreateKeeps == ASSUME QueuesInv, NEW t \in Threads, NEW q \in Queues, SoftQueueCreate(t, q) PROVE QueuesInv'
<1>1. DataTypes
  BY DEF QueuesInv, QueuesTypes
<1>2. queue[q] = Fresh /\ backend[q] = "none"
  BY UnbornUnmentioned DEF SoftQueueCreate
<1>3. /\ queue[q] \in QueueStates /\ queue[q].active = TRUE /\ queue[q].thread = "none" /\ queue[q].err = FALSE
  <2>1. Fresh.active = TRUE /\ Fresh.thread = "none" /\ Fresh.err = FALSE
    BY DEF Fresh
  <2> QED
    BY <1>1, <1>2, <2>1 DEF DataTypes
<1>4. queue' = [queue EXCEPT ![q].st = "live", ![q].soft = TRUE, ![q].backing = "held"]
  BY DEF SoftQueueCreate
<1>5. queue' \in [Queues -> QueueStates]
  BY <1>1, <1>3, <1>4 DEF DataTypes, QueueStates
<1>6. /\ queue'[q].st = "live" /\ queue'[q].thread = "none" /\ queue'[q].err = FALSE
      /\ queue'[q].active = TRUE /\ queue'[q].backing = "held"
  BY <1>1, <1>3, <1>4 DEF DataTypes, QueueStates
<1>7. \A p \in Queues \ {q} : queue'[p] = queue[p] /\ backend'[p] = backend[p]
  BY <1>1, <1>4 DEF DataTypes, SoftQueueCreate
<1>8. /\ backend' \in [Queues -> {"none", "running", "destroyed"}] /\ ~(backend'[q] = "running")
      /\ registry' = registry \cup {q} /\ UNCHANGED <<references, inits, reported, retiredOK>>
      /\ lifecycle' = lifecycle /\ queue[q].st = "unborn" /\ MayCall(t) /\ UNCHANGED stack
  BY <1>1, <1>2 DEF DataTypes, SoftQueueCreate
<1>9. lifecycle' \in Threads \cup {"free"}
  BY <1>1, <1>8 DEF DataTypes
<1>10. \A n \in 0 .. 2 : \A new : StepOf(t, n, new) => Onward(t, n, new)
  BY <1>1, <1>5, <1>6, <1>7, <1>8, <1>9, BirthOnward
<1> QED
  BY <1>8, <1>10, IdleKeeps

\* The frame in which a queue that was just created is handed to the application.
LEMMA DoneFits ==
    ASSUME QueuesInv, NEW u \in Threads, At(u, "c_start"), NEW new \in Seq(StackFrames), 1 \in DOMAIN new,
           new[1] = Frame("c_done", Top(u).q, TRUE), lifecycle' = lifecycle,
           \A q \in Queues : queue'[q].st = queue[q].st
    PROVE  FitsIn(u, new, 1)
<1> DEFINE p == Top(u).q
<1>1. stack[u] # <<>> /\ Top(u).at = "c_start" /\ 1 \in DOMAIN stack[u] /\ Top(u) = stack[u][1] /\ Top(u) \in GoodFrames(u)
  BY TopFacts DEF At
<1>2. p \in Queues
  BY <1>1 DEF GoodFrames, RefAts
<1>3. /\ new[1].at = "c_done" /\ new[1].q = p /\ new[1].ref = TRUE /\ new[1].todo = {} /\ new[1].retired = {}
      /\ new[1] = [at |-> "c_done", q |-> p, ref |-> TRUE, todo |-> {}, retired |-> {}]
  BY DEF Frame
<1>4. Top(u).ref = TRUE /\ queue[p].st # "unborn"
  BY <1>1, <1>2, TopMentions DEF GoodFrames, RefAts
<1>5. Holds(Top(u), p)
  BY <1>4 DEF Holds
<1>6. Referenced(p)
  BY <1>1, <1>2, <1>5, TopMentions
<1>7. lifecycle = u /\ \A s \in Threads \ {u} : \A j \in DOMAIN stack[s] : stack[s][j].at # "c_start"
  <2>1. Top(u).at \in CreateAts
    BY <1>1 DEF CreateAts
  <2> QED
    BY <1>1, <2>1, OneCreating
<1> HIDE DEF p
<1>8. new[1] \in StackFrames
  BY <1>2, <1>3 DEF StackFrames, RefAts
<1>9. new[1] \in GoodFrames(u)
  BY <1>2, <1>3, <1>8 DEF GoodFrames, RefAts, LoopAts
<1>10. \A q \in Queues :
          /\ Holds(new[1], q) => Referenced(q)
          /\ new[1].q = q \/ q \in new[1].retired => queue'[q].st # "unborn"
          /\ ~Claims(new[1], q) /\ ~Pending(new[1], q) /\ q \notin new[1].retired
  BY <1>3, <1>4, <1>6 DEF Holds, Claims, Pending
<1>11. new[1].at \notin DtorAts /\ new[1].at # "notify" /\ new[1].at # "c_start"
  BY <1>3 DEF DtorAts
<1>12. stack[u] # <<>> /\ stack[u][1].at \in CreateAts /\ \A k \in DOMAIN new : ~(k < 1)
  BY <1>1 DEF CreateAts
<1> QED
  BY <1>7, <1>9, <1>10, <1>11, <1>12 DEF FitsIn

\* startService publishes the thread object together with the thread's first frame.
LEMMA StartServiceKeeps == ASSUME QueuesInv, NEW u \in Threads, StartService(u) PROVE QueuesInv'
<1> DEFINE p == Top(u).q
           f == Frame("c_done", p, TRUE)
<1>1. /\ DataTypes /\ Backed /\ Unborn /\ Unreferenced /\ Latched /\ InCreation /\ Started /\ Joined
      /\ stack \in [Threads -> Seq(StackFrames)]
  BY DEF QueuesInv, QueuesTypes
<1>2. /\ At(u, "c_start") /\ UNCHANGED <<references, inits, registry, backend, lifecycle, reported, retiredOK>>
  BY DEF StartService
<1>3. /\ stack[u] # <<>> /\ Top(u).at = "c_start" /\ 1 \in DOMAIN stack[u] /\ Top(u) = stack[u][1]
      /\ Top(u) \in GoodFrames(u) /\ Rest(u) = Tail(stack[u])
  BY <1>1, <1>2, TopFacts DEF At
<1>4. p \in Queues
  BY <1>3 DEF GoodFrames, RefAts
<1>5. lifecycle = u /\ \A s \in Threads \ {u} : \A j \in DOMAIN stack[s] : stack[s][j].at # "c_start"
  <2>1. Top(u).at \in CreateAts
    BY <1>3 DEF CreateAts
  <2> QED
    BY <1>1, <1>3, <2>1, OneCreating
<1>6. p \in registry /\ queue[p].thread = "none" /\ queue[p].st # "unborn"
  BY <1>1, <1>3, <1>4 DEF InCreation, Unborn
<1>7. f \in StackFrames /\ f = Frame("c_done", p, TRUE)
  BY <1>4 DEF Frame, StackFrames, RefAts
<1>8. CASE /\ queue' = [queue EXCEPT ![p].thread = "held"]
           /\ stack' = [stack EXCEPT ![u] = <<f>> \o Rest(u), ![p] = <<Frame("loop", p, FALSE)>>]
  <2> DEFINE g == Frame("loop", p, FALSE)
             b == Tail(stack[u])
             new == <<f>> \o b
             n == 1
  <2>1. g \in StackFrames
    BY <1>4 DEF Frame, StackFrames, LooseAts
  <2>2. stack[p] = <<>> /\ p # u /\ p \in Threads
    BY <1>1, <1>3, <1>4, <1>6 DEF Started, Threads
  <2>3. stack' = [stack EXCEPT ![u] = new, ![p] = <<g>>]
    BY <1>3, <1>8
  <2>4. queue' = [queue EXCEPT ![p].thread = "held"] /\ queue \in [Queues -> QueueStates]
    BY <1>1, <1>8 DEF DataTypes
  <2>5. f \in StackFrames
    BY <1>7
  <2>15. b \in Seq(StackFrames) /\ Len(b) = Len(stack[u]) - 1 /\ \A i \in 1 .. Len(b) : b[i] = stack[u][i + 1]
    BY <1>1, <1>3, HeadTailProperties
  <2> HIDE DEF f, g, p, n, b
  <2>6. /\ queue' \in [Queues -> QueueStates] /\ queue'[p].thread = "held"
        /\ queue'[p].err = queue[p].err /\ queue'[p].st = queue[p].st /\ queue'[p].handle = queue[p].handle
        /\ queue'[p].active = queue[p].active /\ queue'[p].backing = queue[p].backing
        /\ \A q \in Queues \ {p} : queue'[q] = queue[q]
    BY <1>4, <2>4 DEF QueueStates
  <2>7. /\ new \in Seq(StackFrames) /\ 1 \in DOMAIN new /\ new[1] = f /\ <<g>> \in Seq(StackFrames)
        /\ \A i \in DOMAIN new : i > 1 => i \in DOMAIN stack[u] /\ new[i] = stack[u][i]
    <3>1. <<g>> \in Seq(StackFrames)
      BY <2>1
    <3>2. /\ new \in Seq(StackFrames) /\ Len(new) = 1 + Len(b) /\ new[1] = f
          /\ \A i \in 1 .. Len(new) : i > 1 => new[i] = b[i - 1]
      BY <2>5, <2>15
    <3> HIDE DEF new
    <3>3. ASSUME NEW i \in DOMAIN new, i > 1 PROVE i \in DOMAIN stack[u] /\ new[i] = stack[u][i]
      <4>1. i \in 1 .. Len(new) /\ i - 1 \in 1 .. Len(b) /\ new[i] = b[i - 1]
        BY <2>15, <3>2, <3>3
      <4>2. b[i - 1] = stack[u][(i - 1) + 1] /\ i \in 1 .. Len(stack[u])
        BY <1>1, <2>15, <4>1
      <4> QED
        BY <1>1, <4>1, <4>2
    <3>4. 1 \in DOMAIN new
      BY <2>15, <3>2
    <3> QED
      BY <3>1, <3>2, <3>3, <3>4
  <2> HIDE DEF new
  <2>8. /\ stack' \in [Threads -> Seq(StackFrames)] /\ stack'[u] = new /\ stack'[p] = <<g>>
        /\ \A s \in Threads \ {u, p} : stack'[s] = stack[s]
    BY <1>1, <2>2, <2>3, <2>7
  <2>9. StepOf(u, 1, new)
    <3>1. \A i \in DOMAIN new : i > 1 => i - 1 + 1 \in DOMAIN stack[u] /\ new[i] = stack[u][i - 1 + 1]
      <4>1. \A i \in DOMAIN new : i \in Int
        BY <2>7
      <4>2. \A i \in Int : i - 1 + 1 = i
        OBVIOUS
      <4> QED
        BY <2>7, <4>1, <4>2
    <3>2. queue'[p].thread # "none"
      BY <2>6
    <3> QED
      BY <1>1, <1>3, <1>5, <1>6, <2>2, <2>7, <2>8, <3>1, <3>2 DEF StepOf, g
  <2>10. Onward(u, 1, new)
    <3>1. DataTypes'
      BY <1>1, <1>2, <2>6 DEF DataTypes
    <3>2. ASSUME NEW q \in Queues
          PROVE  /\ queue'[q].handle = queue[q].handle /\ queue'[q].active = queue[q].active
                 /\ queue'[q].backing = queue[q].backing /\ queue'[q].st = queue[q].st
      <4>1. q = p \/ queue'[q] = queue[q]
        BY <2>6
      <4> QED
        BY <2>6, <4>1
    <3>3. Backed'
      BY <1>1, <1>2, <3>2 DEF Backed
    <3>4. DataTypes' /\ Backed'
      BY <3>1, <3>3
    <3>5. ASSUME NEW q \in Queues
          PROVE  /\ queue[q].st # "unborn" => queue'[q].st # "unborn" /\ (q \in registry' => q \in registry)
                 /\ queue'[q].st = "unborn" =>
                       queue'[q] = queue[q] /\ backend'[q] = backend[q] /\ q \notin registry' /\ q \notin retiredOK'
                 /\ queue'[q].st = "gone" => queue[q].st # "unborn" /\ ~Referenced(q)
                 /\ queue[q].thread # "none" => queue'[q].thread # "none"
                 /\ queue'[q].thread = "moved" => queue[q].thread = "moved"
                 /\ queue[q].err = TRUE => queue'[q].err = TRUE
                 /\ reported'[q] <= 1 /\ (reported'[q] # 0 => queue'[q].err = TRUE)
                 /\ reported'[q] = reported[q]
      <4>1. /\ queue[q].st = "unborn" => q \notin registry /\ q \notin retiredOK
            /\ queue[q].st = "gone" => ~Referenced(q)
            /\ reported[q] <= 1 /\ (reported[q] # 0 => queue[q].err = TRUE)
        BY <1>1 DEF Unborn, Unreferenced, Latched
      <4>2. queue'[q].st = queue[q].st /\ queue'[q].err = queue[q].err
        BY <2>6
      <4>3. /\ queue[q].thread # "none" => queue'[q].thread # "none"
            /\ queue'[q].thread = "moved" => queue[q].thread = "moved"
            /\ q = p \/ queue'[q] = queue[q]
        BY <2>6
      <4> QED
        BY <1>2, <1>6, <4>1, <4>2, <4>3
    <3>6. \A q \in retiredOK' : q \in retiredOK
      BY <1>2
    <3> QED
      BY <1>2, <1>5, <3>4, <3>5, <3>6 DEF Onward
  <2>11. \A q \in Queues : queue'[q].st = queue[q].st
    BY <2>6
  <2>12. FitsIn(u, new, 1)
    <3>1. new \in Seq(StackFrames) /\ 1 \in DOMAIN new /\ new[1] = Frame("c_done", Top(u).q, TRUE)
      BY <1>7, <2>7 DEF p
    <3> QED
      BY <1>1, <1>2, <2>11, <3>1, DoneFits
  <2>13. \A i \in DOMAIN new : i <= 1 => FitsIn(u, new, i)
    <3>1. \A i \in DOMAIN new : i <= 1 => i = 1
      BY <2>7
    <3> QED
      BY <2>12, <3>1
  <2>14. 1 \in 0 .. 2
    OBVIOUS
  <2> QED
    BY <1>1, <2>9, <2>10, <2>13, <2>14, StepKeeps
<1>9. CASE Goto(u, f) /\ UNCHANGED queue
  <2>1. stack' = [stack EXCEPT ![u] = <<f>> \o Tail(stack[u])]
    BY <1>3, <1>9 DEF Goto
  <2>2. \A n \in 0 .. 2 : \A new : StepOf(u, n, new) => Onward(u, n, new)
    BY <1>1, <1>2, <1>9, QuietOnward DEF DataTypes
  <2> HIDE DEF f
  <2>3. ASSUME NEW new, StepOf(u, 1, new), 1 \in DOMAIN new, new[1] = f PROVE FitsIn(u, new, 1)
    BY <1>1, <1>2, <1>7, <1>9, <2>3, DoneFits DEF StepOf
  <2> QED
    BY <1>1, <1>3, <1>7, <2>1, <2>2, <2>3, GotoKeeps
<1> QED
  BY <1>8, <1>9 DEF StartService

\* The queue whose thread could not be started is withdrawn.
LEMMA StartServiceFailsKeeps == ASSUME QueuesInv, NEW u \in Threads, StartServiceFails(u) PROVE QueuesInv'
<1> DEFINE f == Frame("c_done", Top(u).q, TRUE)
<1>1. /\ DataTypes /\ Backed /\ Unborn /\ Unreferenced /\ Latched
  BY DEF QueuesInv, QueuesTypes
<1>2. /\ At(u, "c_start") /\ UNCHANGED <<references, inits, queue, backend, lifecycle, reported, retiredOK>>
      /\ registry' = registry \ {Top(u).q} /\ stack' = [stack EXCEPT ![u] = <<f>> \o Rest(u)]
  BY DEF StartServiceFails, Goto
<1>3. /\ stack[u] # <<>> /\ Top(u).at = "c_start" /\ Top(u) \in GoodFrames(u) /\ Rest(u) = Tail(stack[u])
  BY <1>1, <1>2, TopFacts DEF At
<1>4. Top(u).q \in Queues
  BY <1>3 DEF GoodFrames, RefAts
<1>5. \A s \in Threads \ {u} : \A j \in DOMAIN stack[s] : stack[s][j].at # "c_start"
  <2>1. Top(u).at \in CreateAts
    BY <1>3 DEF CreateAts
  <2> QED
    BY <1>1, <1>3, <2>1, OneCreating
<1>6. f \in StackFrames
  BY <1>4 DEF Frame, StackFrames, RefAts
<1>7. ASSUME NEW n \in 0 .. 2, NEW new, StepOf(u, n, new) PROVE Onward(u, n, new)
  <2>1. DataTypes' /\ Backed'
    BY <1>1, <1>2 DEF DataTypes, Backed
  <2>2. \A q \in Queues : /\ queue[q].st = "unborn" => q \notin registry /\ q \notin retiredOK
                          /\ queue[q].st = "gone" => queue[q].st # "unborn" /\ ~Referenced(q)
                          /\ reported[q] <= 1 /\ (reported[q] # 0 => queue[q].err = TRUE)
    BY <1>1 DEF Unborn, Unreferenced, Latched
  <2> QED
    BY <1>2, <1>5, <2>1, <2>2 DEF Onward
<1>8. ASSUME NEW new, StepOf(u, 1, new), 1 \in DOMAIN new, new[1] = f PROVE FitsIn(u, new, 1)
  BY <1>1, <1>2, <1>8, DoneFits DEF StepOf
<1> HIDE DEF f
<1> QED
  BY <1>1, <1>2, <1>3, <1>6, <1>7, <1>8, GotoKeeps

\* The creating thread drops its reference and then gives the lifecycle mutex back.
LEMMA QueueCreateReturnsKeeps == ASSUME QueuesInv, NEW u \in Threads, QueueCreateReturns(u) PROVE QueuesInv'
<1> DEFINE f == Frame("c_unlock", None, FALSE)
<1>1. DataTypes
  BY DEF QueuesInv, QueuesTypes
<1>2. /\ At(u, "c_done") /\ UNCHANGED <<references, inits, registry, queue, backend, lifecycle, reported, retiredOK>>
      /\ Drop(u, registry, <<f>> \o Rest(u))
  BY DEF QueueCreateReturns
<1>3. stack[u] # <<>> /\ Top(u).at = "c_done" /\ Top(u).at \in RefAts \ {"c_start"} /\ Top(u).at \in CreateAts
  BY <1>2 DEF At, RefAts, CreateAts
<1>4. lifecycle = u /\ \A s \in Threads \ {u} : \A j \in DOMAIN stack[s] : stack[s][j].at # "c_start"
  BY <1>1, <1>3, OneCreating
<1>5. /\ f.at = "c_unlock" /\ f.q = None /\ f.ref = FALSE /\ f.todo = {} /\ f.retired = {}
      /\ f \in StackFrames
  BY DEF Frame, StackFrames, LooseAts
<1>6. None \notin Queues
  BY RuntimeAssumption DEF None
<1> HIDE DEF f
<1>7. f \in GoodFrames(u)
  BY <1>5 DEF GoodFrames, RefAts, LoopAts
<1>8. \A n \in 0 .. 2 : \A new : StepOf(u, n, new) => Onward(u, n, new)
  BY <1>1, <1>2, QuietOnward DEF DataTypes
<1>9. \A q \in Queues : ~Holds(f, q) /\ f.q # q /\ q \notin f.retired /\ ~Claims(f, q) /\ ~Pending(f, q)
  BY <1>5, <1>6 DEF Holds, Claims, Pending
<1>10. f.at \notin DtorAts /\ f.at # "notify" /\ f.at # "c_start"
  BY <1>5 DEF DtorAts
<1>11. ASSUME NEW new, NEW i \in DOMAIN new, new[i] = f, \A k \in DOMAIN new : k < i => new[k].at \in DtorAts
       PROVE  FitsIn(u, new, i)
  <2>1. \A k \in DOMAIN new : k < i => new[k].at \notin CreateAts
    BY <1>11 DEF CreateAts, DtorAts
  <2>2. stack[u][1].at \in CreateAts /\ lifecycle' = u
    BY <1>2, <1>3, <1>4 DEF Top
  <2> QED
    BY <1>3, <1>4, <1>7, <1>9, <1>10, <1>11, <2>1, <2>2 DEF FitsIn
<1> QED
  BY <1>1, <1>2, <1>3, <1>5, <1>8, <1>9, <1>11, DropToKeeps

\* hsa_queue_create returns and gives the lifecycle mutex back.
LEMMA LifecycleUnlockKeeps == ASSUME QueuesInv, NEW u \in Threads, LifecycleUnlock(u) PROVE QueuesInv'
<1> DEFINE news == <<>>
<1>1. /\ DataTypes /\ Backed /\ Unborn /\ Unreferenced /\ Latched /\ InCreation
      /\ stack \in [Threads -> Seq(StackFrames)]
  BY DEF QueuesInv, QueuesTypes
<1>2. /\ At(u, "c_unlock") /\ UNCHANGED <<references, inits, registry, queue, backend, reported, retiredOK>>
      /\ lifecycle' = "free" /\ stack' = [stack EXCEPT ![u] = Rest(u)]
  BY DEF LifecycleUnlock
<1>8. /\ stack[u] # <<>> /\ 1 \in DOMAIN stack[u] /\ stack[u][1].at \in CreateAts
      /\ Rest(u) = Tail(stack[u]) /\ Tail(stack[u]) \in Seq(StackFrames)
  <2>1. stack[u] # <<>> /\ Top(u).at \in CreateAts
    BY <1>2 DEF At, CreateAts
  <2> QED
    BY <1>1, <2>1, TopFacts
<1>3. lifecycle = u /\ \A s \in Threads \ {u} : \A j \in DOMAIN stack[s] : stack[s][j].at # "c_start"
  <2>1. Top(u).at \in CreateAts
    BY <1>2 DEF At, CreateAts
  <2> QED
    BY <1>8, <2>1, OneCreating
<1>4. news \in Seq(StackFrames) /\ Len(news) = 0
  OBVIOUS
<1>5. ASSUME NEW new, StepOf(u, 0, new) PROVE Onward(u, 0, new)
  <2>1. \A i \in DOMAIN new : new[i].at \notin CreateAts
    <3>1. ASSUME NEW i \in DOMAIN new PROVE i - 0 + 1 \in DOMAIN stack[u] /\ new[i] = stack[u][i - 0 + 1] /\ i - 0 + 1 # 1
      <4>1. i \in Nat /\ i > 0
        BY <1>5, <3>1 DEF StepOf
      <4> QED
        BY <1>5, <4>1 DEF StepOf
    <3> QED
      BY <1>1, <1>8, <3>1 DEF InCreation
  <2>2. DataTypes' /\ Backed'
    BY <1>1, <1>2 DEF DataTypes, Backed
  <2>3. \A q \in Queues : /\ queue[q].st = "unborn" => q \notin registry /\ q \notin retiredOK
                          /\ queue[q].st = "gone" => queue[q].st # "unborn" /\ ~Referenced(q)
                          /\ reported[q] <= 1 /\ (reported[q] # 0 => queue[q].err = TRUE)
    BY <1>1 DEF Unborn, Unreferenced, Latched
  <2> QED
    BY <1>2, <1>3, <2>1, <2>2, <2>3 DEF Onward
<1> HIDE DEF news
<1>6. Len(news) \in 0 .. 2 /\ \A new : StepOf(u, Len(news), new) => Onward(u, Len(news), new)
  BY <1>4, <1>5
<1>7. \A new : \A i \in 1 .. Len(news) : FitsIn(u, new, i)
  BY <1>4
<1>9. news \o Tail(stack[u]) = Tail(stack[u])
  BY <1>4, <1>8, ConcatEmptySeq DEF news
<1>10. stack' = [stack EXCEPT ![u] = news \o Tail(stack[u])]
  BY <1>2, <1>8, <1>9
<1> QED
  BY <1>4, <1>6, <1>7, <1>8, <1>10, NewsKeep

-----------------------------------------------------------------------------
\* A thread inside a frame that holds its queue.
LEMMA TopHolds ==
    ASSUME QueuesInv, NEW t \in Threads, stack[t] # <<>>, Top(t).at \in RefAts
    PROVE  Top(t).q \in Queues /\ Holds(Top(t), Top(t).q) /\ queue[Top(t).q].st # "unborn" /\ Top(t).ref = TRUE
<1>1. Top(t) \in GoodFrames(t)
  BY TopFacts
<1>2. Top(t).q \in Queues /\ Top(t).ref = TRUE
  BY <1>1 DEF GoodFrames, RefAts
<1>3. Holds(Top(t), Top(t).q)
  BY <1>2 DEF Holds
<1> QED
  BY <1>2, <1>3, TopMentions

\* The service thread looks for a stop or an expired object, and else locks the object.
LEMMA ServiceLoopKeeps == ASSUME QueuesInv, NEW q \in Queues, ServiceLoop(q) PROVE QueuesInv'
<1> DEFINE f == Frame("service", q, TRUE)
<1>1. DataTypes /\ q \in Threads
  BY DEF QueuesInv, QueuesTypes, Threads
<1>2. At(q, "loop") /\ UNCHANGED <<references, inits, registry, queue, backend, lifecycle, reported, retiredOK>>
  BY DEF ServiceLoop
<1>3. stack[q] # <<>> /\ Top(q).at = "loop" /\ Top(q) \in GoodFrames(q)
  BY <1>1, <1>2, TopFacts DEF At
<1>4. Top(q).q = q
  BY <1>3 DEF GoodFrames, LoopAts
<1>5. \A n \in 0 .. 2 : \A new : StepOf(q, n, new) => Onward(q, n, new)
  BY <1>1, <1>2, QuietOnward DEF DataTypes
<1>6. CASE stack' = [stack EXCEPT ![q] = <<>>]
  BY <1>1, <1>3, <1>5, <1>6, PopKeeps
<1>7. CASE Referenced(q) /\ stack' = [stack EXCEPT ![q] = <<f>>]
  <2>1. f \in StackFrames
    BY DEF Frame, StackFrames, RefAts
  <2>2. /\ "service" \in (RefAts \cup LooseAts) \ (CreateAts \cup DtorAts \cup {"s_stop", "s_join", "d_stop", "d_join"})
        /\ "service" \in RefAts /\ TRUE \in BOOLEAN /\ "service" # "notify"
    BY DEF RefAts, CreateAts, DtorAts
  <2>3. ASSUME NEW new, StepOf(q, 1, new), 1 \in DOMAIN new, new[1] = f PROVE FitsIn(q, new, 1)
    BY <1>1, <1>2, <1>3, <1>4, <1>7, <2>2, <2>3, PlainFits
  <2> HIDE DEF f
  <2> QED
    BY <1>1, <1>3, <1>5, <1>7, <2>1, <2>3, GotoKeeps
<1> QED
  BY <1>6, <1>7 DEF ServiceLoop

\* The driver is asked; a failure is latched before it is reported.
LEMMA ServiceKeeps == ASSUME QueuesInv, NEW q \in Queues, Service(q) PROVE QueuesInv'
<1>1. DataTypes /\ q \in Threads /\ Backed /\ Latched
  BY DEF QueuesInv, QueuesTypes, Threads
<1>2. At(q, "service") /\ UNCHANGED <<references, inits, registry, backend, lifecycle, retiredOK, reported>>
  BY DEF Service
<1>3. stack[q] # <<>> /\ Top(q).at = "service" /\ Top(q) \in GoodFrames(q) /\ Rest(q) = Tail(stack[q])
  BY <1>1, <1>2, TopFacts DEF At
<1>4. Top(q).q = q
  BY <1>3 DEF GoodFrames, LoopAts
<1>5. Holds(Top(q), Top(q).q) /\ queue[q].st # "unborn"
  BY <1>1, <1>3, <1>4, TopHolds DEF RefAts
<1>6. ASSUME NEW at \in {"release", "notify"}, Goto(q, Frame(at, q, TRUE)),
             \A n \in 0 .. 2 : \A new : StepOf(q, n, new) => Onward(q, n, new),
             at = "notify" => queue'[q].err = TRUE /\ reported'[q] = 0
      PROVE  QueuesInv'
  <2> DEFINE f == Frame(at, q, TRUE)
  <2>1. f \in StackFrames
    BY DEF Frame, StackFrames, RefAts
  <2>2. /\ at \in (RefAts \cup LooseAts) \ (CreateAts \cup DtorAts \cup {"s_stop", "s_join", "d_stop", "d_join"})
        /\ at \in RefAts /\ TRUE \in BOOLEAN
    BY DEF RefAts, CreateAts, DtorAts
  <2>3. ASSUME NEW new, StepOf(q, 1, new), 1 \in DOMAIN new, new[1] = f PROVE FitsIn(q, new, 1)
    <3>1. Onward(q, 1, new)
      BY <1>6, <2>3
    <3>2. \A p \in Queues : queue[p].st # "unborn" => queue'[p].st # "unborn" /\ (p \in registry' => p \in registry)
      BY <3>1 DEF Onward
    <3> QED
      BY <1>1, <1>3, <1>4, <1>5, <1>6, <2>2, <2>3, <3>2, PlainFits
  <2>4. stack' = [stack EXCEPT ![q] = <<f>> \o Tail(stack[q])]
    BY <1>3, <1>6 DEF Goto
  <2> HIDE DEF f
  <2> QED
    BY <1>1, <1>3, <1>6, <2>1, <2>3, <2>4, GotoKeeps
<1>7. CASE Goto(q, Frame("release", q, TRUE)) /\ UNCHANGED <<queue, reported>>
  <2>1. \A n \in 0 .. 2 : \A new : StepOf(q, n, new) => Onward(q, n, new)
    BY <1>1, <1>2, <1>7, QuietOnward DEF DataTypes
  <2> QED
    BY <1>6, <1>7, <2>1
<1>8. CASE Usable(q) /\ queue' = [queue EXCEPT ![q].err = TRUE] /\ Goto(q, Frame("notify", q, TRUE))
  <2>1. /\ queue' \in [Queues -> QueueStates] /\ queue'[q].err = TRUE /\ queue'[q].st = queue[q].st
        /\ queue'[q].thread = queue[q].thread /\ queue'[q].handle = queue[q].handle
        /\ queue'[q].active = queue[q].active /\ queue'[q].backing = queue[q].backing
        /\ \A p \in Queues \ {q} : queue'[p] = queue[p]
    <3>1. queue \in [Queues -> QueueStates] /\ queue' = [queue EXCEPT ![q].err = TRUE]
      BY <1>1, <1>8 DEF DataTypes
    <3> QED
      BY <3>1 DEF QueueStates
  <2>2. reported[q] = 0
    BY <1>1, <1>8 DEF Usable, Latched
  <2>3. \A n \in 0 .. 2 : \A new : StepOf(q, n, new) => Onward(q, n, new)
    <3>1. /\ backend'[q] = "running" => queue'[q].handle = TRUE /\ queue'[q].active = TRUE
          /\ queue'[q].backing = "freed" => backend'[q] # "running" /\ queue'[q].st = "gone"
      BY <1>1, <1>2, <2>1 DEF Backed
    <3>2. retiredOK' \subseteq Queues /\ backend' \in [Queues -> {"none", "running", "destroyed"}]
          /\ reported' \in [Queues -> Nat] /\ reported'[q] = 0
      BY <1>1, <1>2, <2>2 DEF DataTypes
    <3>3. \A p \in Queues \ {q} : queue'[p] = queue[p] /\ backend'[p] = backend[p] /\ reported'[p] = reported[p]
      BY <1>2, <2>1
    <3>4. reported'[q] <= 1 /\ (reported'[q] # 0 => queue'[q].err = TRUE) /\ reported'[q] = reported[q]
      BY <1>2, <2>2, <3>2
    <3>5. UNCHANGED <<references, inits, registry, lifecycle>> /\ retiredOK' = retiredOK
      BY <1>2
    <3> QED
      BY <1>1, <1>5, <2>1, <3>1, <3>2, <3>3, <3>4, <3>5, OnwardAt
  <2> QED
    BY <1>2, <1>6, <1>8, <2>1, <2>2, <2>3
<1> QED
  BY <1>7, <1>8 DEF Service

\* The report is made once: the frame that makes it is gone afterwards.
LEMMA NotifyKeeps == ASSUME QueuesInv, NEW q \in Queues, Notify(q) PROVE QueuesInv'
<1> DEFINE f == Frame("callback", q, FALSE)
           r == Frame("release", q, TRUE)
           news == <<f, r>>
<1>1. DataTypes /\ q \in Threads /\ Backed /\ Latched /\ stack \in [Threads -> Seq(StackFrames)]
  BY DEF QueuesInv, QueuesTypes, Threads
<1>2. /\ At(q, "notify") /\ UNCHANGED <<references, inits, registry, backend, lifecycle, retiredOK>>
      /\ queue' = [queue EXCEPT ![q].stop = TRUE] /\ reported' = [reported EXCEPT ![q] = @ + 1]
      /\ stack' = [stack EXCEPT ![q] = news]
  BY DEF Notify
<1>3. /\ stack[q] # <<>> /\ Top(q).at = "notify" /\ Top(q) \in GoodFrames(q) /\ 1 \in DOMAIN stack[q]
      /\ Top(q) = stack[q][1]
  BY <1>1, <1>2, TopFacts DEF At
<1>4. Top(q).q = q
  BY <1>3 DEF GoodFrames, LoopAts
<1>5. Holds(Top(q), Top(q).q) /\ queue[q].st # "unborn"
  BY <1>1, <1>3, <1>4, TopHolds DEF RefAts
<1>6. queue[q].err = TRUE /\ reported[q] = 0
  BY <1>1, <1>3, <1>4 DEF Latched
<1>7. /\ f.at = "callback" /\ r.at = "release" /\ f \in StackFrames /\ r \in StackFrames
  BY DEF Frame, StackFrames, LooseAts, RefAts
<1> HIDE DEF f, r
<1>8. /\ queue' \in [Queues -> QueueStates] /\ queue'[q].err = TRUE /\ queue'[q].st = queue[q].st
      /\ queue'[q].thread = queue[q].thread /\ queue'[q].handle = queue[q].handle
      /\ queue'[q].active = queue[q].active /\ queue'[q].backing = queue[q].backing
      /\ \A p \in Queues \ {q} : queue'[p] = queue[p]
  <2>1. queue \in [Queues -> QueueStates] /\ queue' = [queue EXCEPT ![q].stop = TRUE] /\ queue[q].err = TRUE
    BY <1>1, <1>2, <1>6 DEF DataTypes
  <2> QED
    BY <2>1 DEF QueueStates
<1>9. news \in Seq(StackFrames) /\ Len(news) = 2 /\ news[1] = f /\ news[2] = r
  BY <1>7
<1> HIDE DEF news
<1>10. \A n \in 0 .. 2 : \A new : StepOf(q, n, new) => Onward(q, n, new)
  <2>1. /\ backend'[q] = "running" => queue'[q].handle = TRUE /\ queue'[q].active = TRUE
        /\ queue'[q].backing = "freed" => backend'[q] # "running" /\ queue'[q].st = "gone"
    BY <1>1, <1>2, <1>8 DEF Backed
  <2>2. retiredOK' \subseteq Queues /\ backend' \in [Queues -> {"none", "running", "destroyed"}]
    BY <1>1, <1>2 DEF DataTypes
  <2>3. reported' \in [Queues -> Nat] /\ reported'[q] = 1 /\ \A p \in Queues \ {q} : reported'[p] = reported[p]
    BY <1>1, <1>2, <1>6 DEF DataTypes
  <2>4. \A i \in DOMAIN stack'[q] : stack'[q][i].at # "notify"
    <3>1. stack'[q] = news
      BY <1>1, <1>2
    <3>2. \A i \in DOMAIN news : i = 1 \/ i = 2
      BY <1>9
    <3> QED
      BY <1>7, <1>9, <3>1, <3>2
  <2>5. \A p \in Queues \ {q} : queue'[p] = queue[p] /\ backend'[p] = backend[p] /\ reported'[p] = reported[p]
    BY <1>2, <1>8, <2>3
  <2>6. reported'[q] <= 1 /\ (reported'[q] # 0 => queue'[q].err = TRUE)
    BY <1>8, <2>3
  <2>7. UNCHANGED <<references, inits, registry, lifecycle>> /\ retiredOK' = retiredOK
    BY <1>2
  <2> QED
    BY <1>1, <1>5, <1>8, <2>1, <2>2, <2>3, <2>4, <2>5, <2>6, <2>7, OnwardAt
<1>11. \A new : StepOf(q, Len(news), new) => Onward(q, Len(news), new)
  BY <1>9, <1>10
<1>12. ASSUME NEW new, StepOf(q, Len(news), new), \A i \in 1 .. Len(news) : i \in DOMAIN new /\ new[i] = news[i]
       PROVE  \A i \in 1 .. Len(news) : FitsIn(q, new, i)
  <2>1. Onward(q, Len(news), new)
    BY <1>11, <1>12
  <2>2. \A p \in Queues : queue[p].st # "unborn" => queue'[p].st # "unborn" /\ (p \in registry' => p \in registry)
    BY <2>1 DEF Onward
  <2>3. 1 \in DOMAIN new /\ new[1] = Frame("callback", Top(q).q, FALSE)
        /\ 2 \in DOMAIN new /\ new[2] = Frame("release", Top(q).q, TRUE)
    <3>1. 1 \in 1 .. Len(news) /\ 2 \in 1 .. Len(news)
      BY <1>9
    <3>2. 1 \in DOMAIN new /\ new[1] = f /\ 2 \in DOMAIN new /\ new[2] = r
      BY <1>9, <1>12, <3>1
    <3> QED
      BY <1>4, <3>2 DEF f, r
  <2>4. /\ {"callback", "release"} \subseteq
              (RefAts \cup LooseAts) \ (CreateAts \cup DtorAts \cup {"s_stop", "s_join", "d_stop", "d_join"})
        /\ "release" \in RefAts /\ "callback" \notin RefAts /\ "callback" \notin LoopAts
    BY DEF RefAts, LooseAts, CreateAts, DtorAts, LoopAts
  <2>5. FitsIn(q, new, 1)
    BY <1>1, <1>3, <1>4, <1>5, <2>2, <2>3, <2>4, PlainFits
  <2>6. FitsIn(q, new, 2)
    BY <1>1, <1>3, <1>4, <1>5, <2>2, <2>3, <2>4, PlainFits
  <2>7. \A i \in 1 .. Len(news) : i = 1 \/ i = 2
    BY <1>9
  <2> QED
    BY <2>5, <2>6, <2>7
<1>13. Len(news) \in 0 .. 2
  BY <1>9
<1> QED
  BY <1>1, <1>2, <1>3, <1>9, <1>11, <1>12, <1>13, NewsKeep

\* The application's error callback returns.
LEMMA CallbackReturnsKeeps == ASSUME QueuesInv, NEW t \in Threads, CallbackReturns(t) PROVE QueuesInv'
<1>1. DataTypes /\ stack \in [Threads -> Seq(StackFrames)]
  BY DEF QueuesInv, QueuesTypes
<1>2. /\ stack[t] # <<>> /\ stack' = [stack EXCEPT ![t] = Tail(stack[t])]
      /\ UNCHANGED <<references, inits, registry, queue, backend, lifecycle, reported, retiredOK>>
  BY DEF CallbackReturns, At
<1>3. \A n \in 0 .. 2 : \A new : StepOf(t, n, new) => Onward(t, n, new)
  BY <1>1, <1>2, QuietOnward DEF DataTypes
<1> QED
  BY <1>2, <1>3, PopKeeps

\* The service thread drops its reference and goes round its loop again.
LEMMA ServiceReleaseKeeps == ASSUME QueuesInv, NEW q \in Queues, ServiceRelease(q) PROVE QueuesInv'
<1> DEFINE f == Frame("loop", q, FALSE)
<1>1. DataTypes /\ q \in Threads
  BY DEF QueuesInv, QueuesTypes, Threads
<1>2. /\ At(q, "release") /\ Drop(q, registry, <<f>> \o Rest(q))
      /\ UNCHANGED <<references, inits, registry, queue, backend, lifecycle, reported, retiredOK>>
  BY DEF ServiceRelease
<1>3. /\ stack[q] # <<>> /\ Top(q).at = "release" /\ Top(q) \in GoodFrames(q) /\ Top(q).at \in RefAts \ {"c_start"}
  BY <1>1, <1>2, TopFacts DEF At, RefAts
<1>4. Top(q).q = q
  BY <1>3 DEF GoodFrames, LoopAts
<1>5. f \in StackFrames /\ \A p \in Queues : ~Holds(f, p)
  BY DEF Frame, StackFrames, LooseAts, Holds
<1>6. \A n \in 0 .. 2 : \A new : StepOf(q, n, new) => Onward(q, n, new)
  BY <1>1, <1>2, QuietOnward DEF DataTypes
<1>7. ASSUME NEW new, NEW i \in DOMAIN new, new[i] = f PROVE FitsIn(q, new, i)
  <2>1. /\ "loop" \in (RefAts \cup LooseAts) \ (CreateAts \cup DtorAts \cup {"s_stop", "s_join", "d_stop", "d_join"})
        /\ "loop" \notin RefAts
    BY DEF RefAts, LooseAts, CreateAts, DtorAts
  <2>2. \A p \in Queues : queue[p].st # "unborn" => queue'[p].st # "unborn" /\ (p \in registry' => p \in registry)
    BY <1>2
  <2>3. new[i] = Frame("loop", Top(q).q, FALSE) /\ Top(q).at # "c_start" /\ Top(q).q \in Queues
    BY <1>3, <1>4, <1>7
  <2> QED
    BY <1>1, <1>3, <1>4, <2>1, <2>2, <2>3, PlainFits
<1> HIDE DEF f
<1> QED
  BY <1>1, <1>2, <1>3, <1>5, <1>6, <1>7, DropToKeeps

-----------------------------------------------------------------------------
\* A producer's doorbell: the ring is served, or it finds the error and reports it.
LEMMA RingKeeps == ASSUME QueuesInv, NEW u \in Threads, Ring(u) PROVE QueuesInv'
<1> DEFINE q == Top(u).q
           f == Frame("callback", q, FALSE)
           r == Frame("unpin", q, TRUE)
           news == <<f, r>>
<1>1. DataTypes /\ Backed /\ Latched /\ stack \in [Threads -> Seq(StackFrames)]
  BY DEF QueuesInv, QueuesTypes
<1>2. At(u, "ring") /\ UNCHANGED <<references, inits, registry, backend, lifecycle, retiredOK>>
  BY DEF Ring
<1>3. /\ stack[u] # <<>> /\ Top(u).at = "ring" /\ Top(u) \in GoodFrames(u) /\ 1 \in DOMAIN stack[u]
      /\ Top(u) = stack[u][1] /\ Rest(u) = Tail(stack[u]) /\ Top(u).at \in RefAts \ {"c_start"}
  BY <1>1, <1>2, TopFacts DEF At, RefAts
<1>4. q \in Queues /\ Holds(Top(u), q) /\ queue[q].st # "unborn"
  BY <1>1, <1>3, TopHolds
<1>5. queue \in [Queues -> QueueStates] /\ reported \in [Queues -> Nat]
  BY <1>1 DEF DataTypes
<1>6. CASE /\ Drop(u, registry, Rest(u)) /\ UNCHANGED reported
           /\ queue' = [queue EXCEPT ![q].kicked = @ \/ Usable(q)]
  <2> HIDE DEF q
  <2>1. /\ queue' \in [Queues -> QueueStates] /\ queue'[q].err = queue[q].err /\ queue'[q].st = queue[q].st
        /\ queue'[q].thread = queue[q].thread /\ queue'[q].handle = queue[q].handle
        /\ queue'[q].active = queue[q].active /\ queue'[q].backing = queue[q].backing
        /\ \A p \in Queues \ {q} : queue'[p] = queue[p]
    <3>1. Usable(q) \in BOOLEAN
      BY DEF Usable
    <3>2. queue' = [queue EXCEPT ![q].kicked = @ \/ Usable(q)]
      BY <1>6
    <3> QED
      BY <1>4, <1>5, <3>1, <3>2 DEF QueueStates
  <2>2. \A n \in 0 .. 2 : \A new : StepOf(u, n, new) => Onward(u, n, new)
    <3>1. /\ backend'[q] = "running" => queue'[q].handle = TRUE /\ queue'[q].active = TRUE
          /\ queue'[q].backing = "freed" => backend'[q] # "running" /\ queue'[q].st = "gone"
      BY <1>1, <1>2, <1>4, <2>1 DEF Backed
    <3>2. retiredOK' \subseteq Queues /\ backend' \in [Queues -> {"none", "running", "destroyed"}]
          /\ reported' \in [Queues -> Nat]
      BY <1>1, <1>2, <1>6 DEF DataTypes
    <3>3. \A p \in Queues \ {q} : queue'[p] = queue[p] /\ backend'[p] = backend[p] /\ reported'[p] = reported[p]
      BY <1>2, <1>6, <2>1
    <3>4. reported'[q] <= 1 /\ (reported'[q] # 0 => queue'[q].err = TRUE) /\ reported'[q] = reported[q]
      BY <1>1, <1>4, <1>6, <2>1 DEF Latched
    <3>5. UNCHANGED <<references, inits, registry, lifecycle>> /\ retiredOK' = retiredOK
      BY <1>2
    <3> QED
      BY <1>1, <1>4, <2>1, <3>1, <3>2, <3>3, <3>4, <3>5, OnwardAt
  <2> QED
    BY <1>1, <1>2, <1>3, <1>6, <2>2, DropKeeps
<1>7. CASE /\ Usable(q) /\ queue' = [queue EXCEPT ![q].kicked = TRUE, ![q].err = TRUE]
           /\ reported' = [reported EXCEPT ![q] = @ + 1]
           /\ stack' = [stack EXCEPT ![u] = news \o Rest(u)]
  <2>1. f.at = "callback" /\ r.at = "unpin" /\ f \in StackFrames /\ r \in StackFrames
    BY <1>4 DEF Frame, StackFrames, LooseAts, RefAts
  <2>2. stack' = [stack EXCEPT ![u] = news \o Tail(stack[u])]
    BY <1>3, <1>7
  <2>3. Usable(q) /\ queue' = [queue EXCEPT ![q].kicked = TRUE, ![q].err = TRUE]
        /\ reported' = [reported EXCEPT ![q] = @ + 1]
    BY <1>7
  <2> HIDE DEF f, r, q
  <2>4. news \in Seq(StackFrames) /\ Len(news) = 2 /\ news[1] = f /\ news[2] = r
    BY <2>1
  <2> HIDE DEF news
  <2>5. /\ queue' \in [Queues -> QueueStates] /\ queue'[q].err = TRUE /\ queue'[q].st = queue[q].st
        /\ queue'[q].thread = queue[q].thread /\ queue'[q].handle = queue[q].handle
        /\ queue'[q].active = queue[q].active /\ queue'[q].backing = queue[q].backing
        /\ \A p \in Queues \ {q} : queue'[p] = queue[p]
    <3>1. queue' = [queue EXCEPT ![q].kicked = TRUE, ![q].err = TRUE]
      BY <2>3
    <3>2. /\ queue' \in [Queues -> QueueStates]
          /\ \A p \in Queues \ {q} : queue'[p] = queue[p]
      <4> DEFINE kicked == [queue EXCEPT ![q].kicked = TRUE]
      <4>1. queue' = [kicked EXCEPT ![q].err = TRUE]
        BY <3>1
      <4>2. kicked \in [Queues -> QueueStates] /\ \A p \in Queues \ {q} : kicked[p] = queue[p]
        BY <1>4, <1>5 DEF QueueStates
      <4> HIDE DEF kicked
      <4> DEFINE k == [kicked[q] EXCEPT !.err = TRUE]
      <4>3. kicked[q] \in QueueStates
        BY <1>4, <4>2
      <4>4. k \in QueueStates
        BY <4>3 DEF QueueStates
      <4>5. queue' = [kicked EXCEPT ![q] = k]
        BY <4>1
      <4> HIDE DEF k
      <4> QED
        BY <1>4, <4>2, <4>4, <4>5
    <3>3. /\ queue'[q].err = TRUE /\ queue'[q].st = queue[q].st
          /\ queue'[q].thread = queue[q].thread /\ queue'[q].handle = queue[q].handle
          /\ queue'[q].active = queue[q].active /\ queue'[q].backing = queue[q].backing
      BY <1>4, <1>5, <3>1 DEF QueueStates
    <3> QED
      BY <3>2, <3>3
  <2>6. reported[q] = 0 /\ ~(queue[q].err = TRUE)
    BY <1>1, <1>4, <2>3 DEF Usable, Latched
  <2>7. \A n \in 0 .. 2 : \A new : StepOf(u, n, new) => Onward(u, n, new)
    <3>1. /\ backend'[q] = "running" => queue'[q].handle = TRUE /\ queue'[q].active = TRUE
          /\ queue'[q].backing = "freed" => backend'[q] # "running" /\ queue'[q].st = "gone"
      BY <1>1, <1>2, <1>4, <2>5 DEF Backed
    <3>2. retiredOK' \subseteq Queues /\ backend' \in [Queues -> {"none", "running", "destroyed"}]
      BY <1>1, <1>2 DEF DataTypes
    <3>3. reported' \in [Queues -> Nat] /\ reported'[q] = 1 /\ \A p \in Queues \ {q} : reported'[p] = reported[p]
      BY <1>4, <1>5, <2>3, <2>6
    <3>4. \A p \in Queues \ {q} : queue'[p] = queue[p] /\ backend'[p] = backend[p] /\ reported'[p] = reported[p]
      BY <1>2, <2>5, <3>3
    <3>5. reported'[q] <= 1 /\ (reported'[q] # 0 => queue'[q].err = TRUE)
      BY <2>5, <3>3
    <3>6. UNCHANGED <<references, inits, registry, lifecycle>> /\ retiredOK' = retiredOK
      BY <1>2
    <3> QED
      BY <1>1, <1>4, <2>5, <2>6, <3>1, <3>2, <3>3, <3>4, <3>5, <3>6, OnwardAt
  <2>8. \A new : StepOf(u, Len(news), new) => Onward(u, Len(news), new)
    BY <2>4, <2>7
  <2>9. ASSUME NEW new, StepOf(u, Len(news), new), \A i \in 1 .. Len(news) : i \in DOMAIN new /\ new[i] = news[i]
        PROVE  \A i \in 1 .. Len(news) : FitsIn(u, new, i)
    <3>1. Onward(u, Len(news), new)
      BY <2>8, <2>9
    <3>2. \A p \in Queues : queue[p].st # "unborn" => queue'[p].st # "unborn" /\ (p \in registry' => p \in registry)
      BY <3>1 DEF Onward
    <3>3. 1 \in DOMAIN new /\ new[1] = Frame("callback", Top(u).q, FALSE)
          /\ 2 \in DOMAIN new /\ new[2] = Frame("unpin", Top(u).q, TRUE)
      <4>1. 1 \in 1 .. Len(news) /\ 2 \in 1 .. Len(news)
        BY <2>4
      <4>2. 1 \in DOMAIN new /\ new[1] = f /\ 2 \in DOMAIN new /\ new[2] = r
        BY <2>4, <2>9, <4>1
      <4> QED
        BY <4>2 DEF f, r, q
    <3>4. /\ {"callback", "unpin"} \subseteq
                (RefAts \cup LooseAts) \ (CreateAts \cup DtorAts \cup {"s_stop", "s_join", "d_stop", "d_join"})
          /\ "unpin" \in RefAts /\ "callback" \notin RefAts /\ "callback" \notin LoopAts /\ "unpin" \notin LoopAts
      BY DEF RefAts, LooseAts, CreateAts, DtorAts, LoopAts
    <3>5. Top(u).q \in Queues /\ Holds(Top(u), Top(u).q) /\ Top(u).at # "c_start"
      BY <1>3, <1>4 DEF q
    <3>6. FitsIn(u, new, 1)
      BY <1>1, <1>3, <3>2, <3>3, <3>4, <3>5, PlainFits
    <3>7. FitsIn(u, new, 2)
      BY <1>1, <1>3, <3>2, <3>3, <3>4, <3>5, PlainFits
    <3>8. \A i \in 1 .. Len(news) : i = 1 \/ i = 2
      BY <2>4
    <3> QED
      BY <3>6, <3>7, <3>8
  <2>10. Len(news) \in 0 .. 2
    BY <2>4
  <2> QED
    BY <1>1, <1>3, <2>2, <2>4, <2>8, <2>9, <2>10, NewsKeep
<1> QED
  BY <1>6, <1>7 DEF Ring

\* A call that only pinned the queue drops its reference.
LEMMA UnpinKeeps == ASSUME QueuesInv, NEW t \in Threads, Unpin(t) PROVE QueuesInv'
<1>1. DataTypes
  BY DEF QueuesInv, QueuesTypes
<1>2. /\ stack[t] # <<>> /\ Top(t).at \in RefAts \ {"c_start"} /\ Drop(t, registry, Rest(t))
      /\ UNCHANGED <<references, inits, registry, queue, backend, lifecycle, reported, retiredOK>>
  BY DEF Unpin, At, RefAts
<1>3. \A n \in 0 .. 2 : \A new : StepOf(t, n, new) => Onward(t, n, new)
  BY <1>1, <1>2, QuietOnward DEF DataTypes
<1> QED
  BY <1>2, <1>3, DropKeeps

\* The calls that change a queue's record but neither its error, its thread nor its lifetime.
LEMMA RecordOnward ==
    ASSUME QueuesInv, NEW t \in Threads, NEW q \in Queues, queue[q].st # "unborn",
           UNCHANGED <<references, inits, registry, lifecycle, reported, retiredOK>>,
           queue' \in [Queues -> QueueStates], backend' \in [Queues -> {"none", "running", "destroyed"}],
           \A p \in Queues \ {q} : queue'[p] = queue[p] /\ backend'[p] = backend[p],
           queue'[q].st = queue[q].st \/ (queue'[q].st = "gone" /\ ~Referenced(q)),
           queue'[q].thread = queue[q].thread, queue'[q].err = queue[q].err,
           backend'[q] = "running" => queue'[q].handle = TRUE /\ queue'[q].active = TRUE,
           queue'[q].backing = "freed" => backend'[q] # "running" /\ queue'[q].st = "gone"
    PROVE  \A n \in 0 .. 2 : \A new : StepOf(t, n, new) => Onward(t, n, new)
<1>1. DataTypes /\ Latched
  BY DEF QueuesInv, QueuesTypes
<1>2. retiredOK' \subseteq Queues /\ reported' \in [Queues -> Nat]
  BY <1>1 DEF DataTypes
<1>3. reported'[q] <= 1 /\ (reported'[q] # 0 => queue'[q].err = TRUE) /\ reported'[q] = reported[q]
  BY <1>1 DEF Latched
<1>4. \A p \in Queues \ {q} : queue'[p] = queue[p] /\ backend'[p] = backend[p] /\ reported'[p] = reported[p]
  OBVIOUS
<1> QED
  BY <1>2, <1>3, <1>4, OnwardAt

\* Switching the profiler touches neither the error, the thread nor the driver's queue.
LEMMA SetProfilerEnabledKeeps == ASSUME QueuesInv, NEW u \in Threads, SetProfilerEnabled(u) PROVE QueuesInv'
<1> DEFINE q == Top(u).q
           P == queue[q].active /\ ~queue[q].err /\ (queue[q].soft \/ (queue[q].handle /\ ~queue[q].kicked))
<1>1. DataTypes /\ Backed
  BY DEF QueuesInv, QueuesTypes
<1>2. /\ At(u, "profile") /\ UNCHANGED <<references, inits, registry, backend, lifecycle, reported, retiredOK>>
      /\ queue' = [queue EXCEPT ![q].profiled = IF P THEN ~@ ELSE @] /\ Drop(u, registry, Rest(u))
  BY DEF SetProfilerEnabled
<1>3. stack[u] # <<>> /\ Top(u).at \in RefAts \ {"c_start"}
  BY <1>2 DEF At, RefAts
<1>4. q \in Queues /\ queue[q].st # "unborn"
  BY <1>1, <1>3, TopHolds
<1>5. queue \in [Queues -> QueueStates]
  BY <1>1 DEF DataTypes
<1> HIDE DEF q, P
<1>6. /\ queue' \in [Queues -> QueueStates] /\ queue'[q].err = queue[q].err /\ queue'[q].st = queue[q].st
      /\ queue'[q].thread = queue[q].thread /\ queue'[q].handle = queue[q].handle
      /\ queue'[q].active = queue[q].active /\ queue'[q].backing = queue[q].backing
      /\ \A p \in Queues \ {q} : queue'[p] = queue[p]
  <2> DEFINE v == IF P THEN ~queue[q].profiled ELSE queue[q].profiled
  <2>1. queue' = [queue EXCEPT ![q].profiled = v]
    BY <1>2
  <2>2. v \in BOOLEAN
    BY <1>4, <1>5 DEF QueueStates
  <2> HIDE DEF v
  <2> QED
    BY <1>4, <1>5, <2>1, <2>2 DEF QueueStates
<1>7. /\ backend'[q] = "running" => queue'[q].handle = TRUE /\ queue'[q].active = TRUE
      /\ queue'[q].backing = "freed" => backend'[q] # "running" /\ queue'[q].st = "gone"
      /\ backend' \in [Queues -> {"none", "running", "destroyed"}]
  BY <1>1, <1>2, <1>4, <1>6 DEF Backed, DataTypes
<1>8. \A p \in Queues \ {q} : queue'[p] = queue[p] /\ backend'[p] = backend[p]
  BY <1>2, <1>6
<1>9. \A n \in 0 .. 2 : \A new : StepOf(u, n, new) => Onward(u, n, new)
  BY <1>1, <1>2, <1>4, <1>6, <1>7, <1>8, RecordOnward
<1> QED
  BY <1>1, <1>2, <1>3, <1>9, DropKeeps

-----------------------------------------------------------------------------
\* RuntimeQueue::inactivate keeps what the driver runs in step with the handle.
LEMMA InactivateOnward ==
    ASSUME QueuesInv, NEW t \in Threads, NEW q \in Queues, queue[q].st # "unborn",
           NEW done \in BOOLEAN, Inactivate(q, done),
           UNCHANGED <<references, inits, registry, lifecycle, reported, retiredOK>>
    PROVE  \A n \in 0 .. 2 : \A new : StepOf(t, n, new) => Onward(t, n, new)
<1>1. DataTypes /\ Backed
  BY DEF QueuesInv, QueuesTypes
<1>2. queue \in [Queues -> QueueStates] /\ backend \in [Queues -> {"none", "running", "destroyed"}]
  BY <1>1 DEF DataTypes
<1>3. CASE done = TRUE
  <2> DEFINE stop == queue[q].stop \/ (queue[q].active /\ queue[q].thread # "none")
             k == [queue[q] EXCEPT !.handle = FALSE, !.active = FALSE, !.stop = stop]
  <2>1. queue[q] \in QueueStates /\ stop \in BOOLEAN
    BY <1>2 DEF QueueStates
  <2>2. queue' = [queue EXCEPT ![q] = k]
    <3>1. queue' = [queue EXCEPT ![q].handle = FALSE, ![q].active = FALSE, ![q].stop = stop]
      BY <1>2, <1>3 DEF Inactivate
    <3> HIDE DEF stop
    <3> QED
      BY <1>2, <3>1
  <2> HIDE DEF stop
  <2>3. /\ k \in QueueStates /\ k.st = queue[q].st /\ k.thread = queue[q].thread /\ k.err = queue[q].err
        /\ k.backing = queue[q].backing
    BY <2>1 DEF QueueStates
  <2> HIDE DEF k
  <2>4. queue' \in [Queues -> QueueStates] /\ queue'[q] = k /\ \A p \in Queues \ {q} : queue'[p] = queue[p]
    BY <1>2, <2>2, <2>3
  <2>5. /\ backend' \in [Queues -> {"none", "running", "destroyed"}]
        /\ \A p \in Queues \ {q} : backend'[p] = backend[p]
        /\ backend'[q] = "destroyed" \/ (backend'[q] = backend[q] /\ ~(queue[q].active /\ queue[q].handle))
    BY <1>2, <1>3 DEF Inactivate
  <2>6. backend'[q] # "running"
    BY <1>1, <2>5 DEF Backed
  <2>7. queue'[q].backing = "freed" => queue'[q].st = "gone"
    BY <1>1, <2>3, <2>4 DEF Backed
  <2>8. \A p \in Queues \ {q} : queue'[p] = queue[p] /\ backend'[p] = backend[p]
    BY <2>4, <2>5
  <2>9. queue'[q].st = queue[q].st /\ queue'[q].thread = queue[q].thread /\ queue'[q].err = queue[q].err
    BY <2>3, <2>4
  <2> QED
    BY <2>4, <2>5, <2>6, <2>7, <2>8, <2>9, RecordOnward
<1>4. CASE done = FALSE
  <2>1. queue' = queue /\ backend' = backend
    BY <1>4 DEF Inactivate
  <2>2. /\ backend'[q] = "running" => queue'[q].handle = TRUE /\ queue'[q].active = TRUE
        /\ queue'[q].backing = "freed" => backend'[q] # "running" /\ queue'[q].st = "gone"
    BY <1>1, <2>1 DEF Backed
  <2> QED
    BY <1>2, <2>1, <2>2, RecordOnward
<1> QED
  BY <1>3, <1>4

\* hsa_queue_destroy takes the queue out of service, or fails and returns.
LEMMA DestroyInactivateKeeps == ASSUME QueuesInv, NEW t \in Threads, DestroyInactivate(t) PROVE QueuesInv'
<1> DEFINE q == Top(t).q
           f == Frame("d_erase", q, TRUE)
<1>1. /\ At(t, "d_inactivate") /\ UNCHANGED <<references, inits, registry, lifecycle, reported, retiredOK>>
  BY DEF DestroyInactivate
<1>2. stack[t] # <<>> /\ Top(t).at \in RefAts \ {"c_start"} /\ Top(t).at = "d_inactivate"
  BY <1>1 DEF At, RefAts
<1>3. Top(t) \in GoodFrames(t) /\ Rest(t) = Tail(stack[t])
  BY <1>2, TopFacts
<1>4. q \in Queues /\ Holds(Top(t), q) /\ queue[q].st # "unborn"
  BY <1>2, TopHolds
<1>5. PICK done \in BOOLEAN : Inactivate(q, done) /\ IF done THEN Goto(t, f) ELSE Drop(t, registry, Rest(t))
  BY DEF DestroyInactivate
<1>6. \A n \in 0 .. 2 : \A new : StepOf(t, n, new) => Onward(t, n, new)
  BY <1>1, <1>4, <1>5, InactivateOnward
<1>7. CASE Goto(t, f)
  <2>1. f \in StackFrames
    BY <1>4 DEF Frame, StackFrames, RefAts
  <2>2. /\ "d_erase" \in (RefAts \cup LooseAts) \ (CreateAts \cup DtorAts \cup {"s_stop", "s_join", "d_stop", "d_join"})
        /\ "d_erase" \in RefAts /\ "d_erase" \notin LoopAts
    BY DEF RefAts, CreateAts, DtorAts, LoopAts
  <2>3. ASSUME NEW new, StepOf(t, 1, new), 1 \in DOMAIN new, new[1] = f PROVE FitsIn(t, new, 1)
    <3>1. Onward(t, 1, new)
      BY <1>6, <2>3
    <3>2. \A p \in Queues : queue[p].st # "unborn" => queue'[p].st # "unborn" /\ (p \in registry' => p \in registry)
      BY <3>1 DEF Onward
    <3> QED
      BY <1>2, <1>4, <2>2, <2>3, <3>2, PlainFits
  <2>4. stack' = [stack EXCEPT ![t] = <<f>> \o Tail(stack[t])]
    BY <1>3, <1>7 DEF Goto
  <2> HIDE DEF f
  <2> QED
    BY <1>2, <1>6, <2>1, <2>3, <2>4, GotoKeeps
<1>8. CASE Drop(t, registry, Rest(t))
  BY <1>1, <1>2, <1>6, <1>8, DropKeeps
<1> QED
  BY <1>5, <1>7, <1>8

\* hsa_queue_inactivate, whether the driver can unmap the queue or not.
LEMMA QueueInactivateKeeps == ASSUME QueuesInv, NEW t \in Threads, QueueInactivate(t) PROVE QueuesInv'
<1>1. /\ At(t, "inactivate") /\ UNCHANGED <<references, inits, registry, lifecycle, reported, retiredOK>>
      /\ Drop(t, registry, Rest(t))
  BY DEF QueueInactivate
<1>2. stack[t] # <<>> /\ Top(t).at \in RefAts \ {"c_start"}
  BY <1>1 DEF At, RefAts
<1>3. Top(t).q \in Queues /\ queue[Top(t).q].st # "unborn"
  BY <1>2, TopHolds
<1>4. PICK done \in BOOLEAN : Inactivate(Top(t).q, done)
  BY DEF QueueInactivate
<1>5. \A n \in 0 .. 2 : \A new : StepOf(t, n, new) => Onward(t, n, new)
  BY <1>1, <1>3, <1>4, InactivateOnward
<1> QED
  BY <1>1, <1>2, <1>5, DropKeeps

\* The destroyer that erases the registry's entry takes the queue over; another one returns.
LEMMA DestroyEraseKeeps == ASSUME QueuesInv, NEW t \in Threads, DestroyErase(t) PROVE QueuesInv'
<1> DEFINE q == Top(t).q
           f == Frame("d_stop", q, TRUE)
<1>1. /\ DataTypes /\ Backed /\ Unborn /\ Unreferenced /\ Latched /\ InCreation /\ Claimed
  BY DEF QueuesInv, QueuesTypes
<1>2. /\ At(t, "d_erase") /\ UNCHANGED <<references, inits, queue, backend, lifecycle, reported, retiredOK>>
      /\ registry' = registry \ {q} /\ IF q \in registry THEN Goto(t, f) ELSE Drop(t, registry, Rest(t))
  BY DEF DestroyErase
<1>3. stack[t] # <<>> /\ Top(t).at \in RefAts \ {"c_start"} /\ Top(t).at = "d_erase"
  BY <1>2 DEF At, RefAts
<1>4. Top(t) \in GoodFrames(t) /\ Rest(t) = Tail(stack[t])
  BY <1>3, TopFacts
<1>5. q \in Queues /\ Holds(Top(t), q) /\ queue[q].st # "unborn"
  BY <1>3, TopHolds
<1>6. CASE q \in registry
  <2>1. /\ f.at = "d_stop" /\ f.q = q /\ f.ref = TRUE /\ f.todo = {} /\ f.retired = {} /\ f \in StackFrames
    BY <1>5 DEF Frame, StackFrames, RefAts
  <2>2. stack' = [stack EXCEPT ![t] = <<f>> \o Tail(stack[t])]
    BY <1>2, <1>4, <1>6 DEF Goto
  <2> HIDE DEF f
  <2>3. f \in GoodFrames(t)
    BY <1>5, <2>1 DEF GoodFrames, RefAts, LoopAts
  <2>4. ASSUME NEW n \in 0 .. 2, NEW new, StepOf(t, n, new) PROVE Onward(t, n, new)
    <3>1. DataTypes' /\ Backed'
      BY <1>1, <1>2 DEF DataTypes, Backed
    <3>2. \A p \in Queues : /\ queue[p].st = "unborn" => p \notin registry /\ p \notin retiredOK
                            /\ queue[p].st = "gone" => queue[p].st # "unborn" /\ ~Referenced(p)
                            /\ reported[p] <= 1 /\ (reported[p] # 0 => queue[p].err = TRUE)
      BY <1>1 DEF Unborn, Unreferenced, Latched
    <3>3. \A s \in Threads : \A j \in DOMAIN stack[s] : stack[s][j].at = "c_start" =>
             stack[s][j].q # q /\ stack[s][j].q \in registry /\ queue[stack[s][j].q].thread = "none"
      BY <1>1, <1>3, <1>5, TopMentions DEF InCreation
    <3> HIDE DEF q
    <3> QED
      BY <1>2, <3>1, <3>2, <3>3 DEF Onward
  <2>5. ASSUME NEW new, StepOf(t, 1, new), 1 \in DOMAIN new, new[1] = f PROVE FitsIn(t, new, 1)
    <3>1. queue[q].thread # "moved"
      BY <1>1, <1>5, <1>6 DEF Claimed
    <3>2. ASSUME NEW p \in Queues
          PROVE  /\ queue[p].st # "unborn" => queue'[p].st # "unborn" /\ (p \in registry' => p \in registry)
                 /\ new[1].q = p => Top(t).q = p
                 /\ p \notin new[1].retired
                 /\ Holds(new[1], p) => Holds(Top(t), p)
                 /\ Claims(new[1], p) => p \in registry /\ p \notin registry'
                 /\ Pending(new[1], p) => queue'[p].thread # "moved"
      BY <1>2, <1>5, <1>6, <2>1, <2>5, <3>1 DEF Holds, Claims, Pending
    <3>3. new[1].at \notin CreateAts \cup DtorAts /\ new[1].at # "notify"
      BY <2>1, <2>5 DEF CreateAts, DtorAts
    <3> QED
      BY <1>3, <2>3, <2>5, <3>2, <3>3, HeirFits
  <2> QED
    BY <1>3, <2>1, <2>2, <2>4, <2>5, GotoKeeps
<1>7. CASE q \notin registry
  <2>1. registry' = registry /\ Drop(t, registry, Rest(t))
    BY <1>2, <1>7
  <2>2. \A n \in 0 .. 2 : \A new : StepOf(t, n, new) => Onward(t, n, new)
    BY <1>1, <1>2, <2>1, QuietOnward DEF DataTypes
  <2> QED
    BY <1>3, <2>1, <2>2, DropKeeps
<1> QED
  BY <1>6, <1>7

\* RuntimeQueue::stopService by the thread that took the queue over, or by its destructor.
LEMMA StopOnward ==
    ASSUME QueuesInv, NEW t \in Threads, NEW q \in Queues, queue[q].st # "unborn",
           queue' = [queue EXCEPT ![q].stop = @ \/ queue[q].thread # "none",
                                  ![q].thread = IF @ = "held" THEN "moved" ELSE @],
           (q \notin registry /\ Pending(Top(t), q) /\ stack[t] # <<>>) \/ ~Referenced(q),
           UNCHANGED <<references, inits, registry, backend, lifecycle, reported>>,
           retiredOK' \subseteq Queues,
           \A p \in retiredOK' : p \in retiredOK \/ (stack[p] = <<>> /\ p \notin registry /\ queue[p].st # "unborn")
    PROVE  /\ \A n \in 0 .. 2 : \A new : StepOf(t, n, new) => Onward(t, n, new)
           /\ \A p \in Queues \ {q} : queue'[p] = queue[p]
           /\ queue[q].thread # "held" => queue'[q].thread = queue[q].thread
<1>1. DataTypes /\ Backed /\ Latched
  BY DEF QueuesInv, QueuesTypes
<1>2. queue \in [Queues -> QueueStates]
  BY <1>1 DEF DataTypes
<1> DEFINE stop == queue[q].stop \/ queue[q].thread # "none"
           th == IF queue[q].thread = "held" THEN "moved" ELSE queue[q].thread
           k == [queue[q] EXCEPT !.stop = stop, !.thread = th]
<1>3. queue[q] \in QueueStates /\ stop \in BOOLEAN /\ th \in {"none", "held", "moved"}
  BY <1>2 DEF QueueStates
<1>4. /\ queue[q].thread = "held" => th = "moved"
      /\ queue[q].thread # "held" => th = queue[q].thread
  OBVIOUS
<1>5. queue' = [queue EXCEPT ![q].stop = stop, ![q].thread = th]
  BY <1>2, <1>3
<1> HIDE DEF stop, th
<1>6. queue' = [queue EXCEPT ![q] = k]
  BY <1>2, <1>5
<1>7. /\ k \in QueueStates /\ k.st = queue[q].st /\ k.thread = th /\ k.err = queue[q].err
      /\ k.backing = queue[q].backing /\ k.handle = queue[q].handle /\ k.active = queue[q].active
  BY <1>3 DEF QueueStates
<1> HIDE DEF k
<1>8. queue' \in [Queues -> QueueStates] /\ queue'[q] = k /\ \A p \in Queues \ {q} : queue'[p] = queue[p]
  BY <1>2, <1>6, <1>7
<1>9. /\ backend'[q] = "running" => queue'[q].handle = TRUE /\ queue'[q].active = TRUE
      /\ queue'[q].backing = "freed" => backend'[q] # "running" /\ queue'[q].st = "gone"
  BY <1>1, <1>7, <1>8 DEF Backed
<1>10. backend' \in [Queues -> {"none", "running", "destroyed"}] /\ reported' \in [Queues -> Nat]
  BY <1>1 DEF DataTypes
<1>11. \A p \in Queues \ {q} : queue'[p] = queue[p] /\ backend'[p] = backend[p] /\ reported'[p] = reported[p]
  BY <1>8
<1>12. reported'[q] <= 1 /\ (reported'[q] # 0 => queue'[q].err = TRUE) /\ reported'[q] = reported[q]
  BY <1>1, <1>7, <1>8 DEF Latched
<1>13. (stack[t] # <<>> /\ Pending(stack[t][1], q)) \/ ~Referenced(q)
  BY DEF Top
<1>14. q \notin registry
  BY DEF Referenced
<1>15. /\ queue'[q].st = queue[q].st /\ (queue[q].err = TRUE => queue'[q].err = TRUE)
       /\ queue'[q].thread = queue[q].thread \/ (queue[q].thread = "held" /\ queue'[q].thread = "moved")
  BY <1>4, <1>7, <1>8
<1>16. \A n \in 0 .. 2 : \A new : StepOf(t, n, new) => Onward(t, n, new)
  BY <1>8, <1>9, <1>10, <1>11, <1>12, <1>13, <1>14, <1>15, OnwardAt
<1> QED
  BY <1>4, <1>7, <1>8, <1>16

\* The destroyer stops the service thread; when there is none left, or it is the caller, it returns.
LEMMA DestroyStopKeeps == ASSUME QueuesInv, NEW t \in Threads, DestroyStop(t) PROVE QueuesInv'
<1> DEFINE q == Top(t).q
           f == Frame("d_join", q, TRUE)
<1>1. DataTypes /\ Started /\ Claimed
  BY DEF QueuesInv, QueuesTypes
<1>2. /\ At(t, "d_stop") /\ UNCHANGED <<references, inits, registry, backend, lifecycle, reported>>
      /\ queue' = [queue EXCEPT ![q].stop = @ \/ queue[q].thread # "none",
                                ![q].thread = IF @ = "held" THEN "moved" ELSE @]
      /\ IF queue[q].thread = "held" /\ t # q THEN Goto(t, f) /\ UNCHANGED retiredOK
                                              ELSE Drop(t, registry, Rest(t)) /\ Confirmed(t, q)
  BY DEF DestroyStop, StopService
<1>3. stack[t] # <<>> /\ Top(t).at \in RefAts \ {"c_start"} /\ Top(t).at = "d_stop"
  BY <1>2 DEF At, RefAts
<1>4. Top(t) \in GoodFrames(t) /\ Rest(t) = Tail(stack[t])
  BY <1>3, TopFacts
<1>5. q \in Queues /\ Holds(Top(t), q) /\ queue[q].st # "unborn"
  BY <1>3, TopHolds
<1>6. Pending(Top(t), q) /\ Claims(Top(t), q)
  BY <1>3 DEF Pending, Claims
<1>7. q \notin registry /\ queue[q].thread # "moved"
  BY <1>3, <1>5, <1>6, TopMentions
<1>8. CASE queue[q].thread = "held" /\ t # q
  <2>1. stack' = [stack EXCEPT ![t] = <<f>> \o Tail(stack[t])] /\ retiredOK' = retiredOK
    BY <1>2, <1>4, <1>8 DEF Goto
  <2>2. /\ f.at = "d_join" /\ f.q = q /\ f.ref = TRUE /\ f.todo = {} /\ f.retired = {} /\ f \in StackFrames
    BY <1>5 DEF Frame, StackFrames, RefAts
  <2>3. \A n \in 0 .. 2 : \A new : StepOf(t, n, new) => Onward(t, n, new)
    <3>1. retiredOK' \subseteq Queues
      BY <1>1, <2>1 DEF DataTypes
    <3> QED
      BY <1>2, <1>3, <1>5, <1>6, <1>7, <2>1, <3>1, StopOnward
  <2> HIDE DEF f
  <2>4. f \in GoodFrames(t)
    BY <1>5, <2>2 DEF GoodFrames, RefAts, LoopAts
  <2>5. ASSUME NEW new, StepOf(t, 1, new), 1 \in DOMAIN new, new[1] = f PROVE FitsIn(t, new, 1)
    <3>1. Onward(t, 1, new)
      BY <2>3, <2>5
    <3>2. \A p \in Queues : queue[p].st # "unborn" => queue'[p].st # "unborn" /\ (p \in registry' => p \in registry)
      BY <3>1 DEF Onward
    <3>3. ASSUME NEW p \in Queues
          PROVE  /\ new[1].q = p => Top(t).q = p
                 /\ p \notin new[1].retired
                 /\ Holds(new[1], p) => Holds(Top(t), p)
                 /\ Claims(new[1], p) => Claims(Top(t), p)
                 /\ ~Pending(new[1], p)
      BY <1>5, <1>6, <2>2, <2>5 DEF Holds, Claims, Pending
    <3>4. new[1].at \notin CreateAts \cup DtorAts /\ new[1].at # "notify"
      BY <2>2, <2>5 DEF CreateAts, DtorAts
    <3> QED
      BY <1>3, <2>4, <2>5, <3>2, <3>3, <3>4, HeirFits
  <2> QED
    BY <1>3, <2>1, <2>2, <2>3, <2>5, GotoKeeps
<1>9. CASE ~(queue[q].thread = "held" /\ t # q)
  <2>1. Drop(t, registry, Rest(t)) /\ retiredOK' = IF t = q THEN retiredOK ELSE retiredOK \union {q}
    BY <1>2, <1>9 DEF Confirmed
  <2>2. t # q => stack[q] = <<>>
    <3>1. queue[q].thread \in {"none", "held", "moved"}
      BY <1>1, <1>5 DEF DataTypes, QueueStates
    <3> QED
      BY <1>1, <1>5, <1>7, <1>9, <3>1 DEF Started
  <2>3. retiredOK' \subseteq Queues
    BY <1>1, <1>5, <2>1 DEF DataTypes
  <2>4. \A p \in retiredOK' : p \in retiredOK \/ (stack[p] = <<>> /\ p \notin registry /\ queue[p].st # "unborn")
    BY <1>5, <1>7, <2>1, <2>2
  <2>5. \A n \in 0 .. 2 : \A new : StepOf(t, n, new) => Onward(t, n, new)
    BY <1>2, <1>3, <1>5, <1>6, <1>7, <2>3, <2>4, StopOnward
  <2> QED
    BY <1>2, <1>3, <2>1, <2>5, DropKeeps
<1> QED
  BY <1>8, <1>9

\* The join is over: the service thread has ended.
LEMMA DestroyJoinKeeps == ASSUME QueuesInv, NEW t \in Threads, DestroyJoin(t) PROVE QueuesInv'
<1> DEFINE q == Top(t).q
<1>1. DataTypes
  BY DEF QueuesInv, QueuesTypes
<1>2. /\ At(t, "d_join") /\ UNCHANGED <<references, inits, registry, queue, backend, lifecycle, reported>>
      /\ stack[q] = <<>> /\ Drop(t, registry, Rest(t))
      /\ retiredOK' = IF t = q THEN retiredOK ELSE retiredOK \union {q}
  BY DEF DestroyJoin, Confirmed
<1>3. stack[t] # <<>> /\ Top(t).at \in RefAts \ {"c_start"} /\ Top(t).at = "d_join"
  BY <1>2 DEF At, RefAts
<1>4. q \in Queues /\ queue[q].st # "unborn"
  BY <1>3, TopHolds
<1>5. Claims(Top(t), q)
  BY <1>3 DEF Claims
<1>6. q \notin registry
  BY <1>3, <1>4, <1>5, TopMentions
<1>7. /\ retiredOK' \subseteq Queues
      /\ \A p \in retiredOK' : p \in retiredOK \/ (stack[p] = <<>> /\ p \notin registry /\ queue[p].st # "unborn")
  BY <1>1, <1>2, <1>4, <1>6 DEF DataTypes
<1>8. \A n \in 0 .. 2 : \A new : StepOf(t, n, new) => Onward(t, n, new)
  BY <1>1, <1>2, <1>7, QuietOnward DEF DataTypes
<1> QED
  BY <1>2, <1>3, <1>8, DropKeeps

\* hsa_shut_down stops the next of the queues it took over.
LEMMA ShutDownStopKeeps == ASSUME QueuesInv, NEW t \in Threads, ShutDownStop(t) PROVE QueuesInv'
<1>1. /\ DataTypes /\ Started /\ Claimed /\ Joined /\ stack \in [Threads -> Seq(StackFrames)]
  BY DEF QueuesInv, QueuesTypes
<1>2. /\ At(t, "s_stop") /\ UNCHANGED <<references, inits, registry, backend, lifecycle, reported, retiredOK>>
  BY DEF ShutDownStop
<1>3. /\ stack[t] # <<>> /\ Top(t).at = "s_stop" /\ Top(t) \in GoodFrames(t) /\ Rest(t) = Tail(stack[t])
      /\ 1 \in DOMAIN stack[t] /\ Top(t) = stack[t][1] /\ Top(t) \in StackFrames
  BY <1>2, TopFacts DEF At, GoodFrames
<1>4. PICK q \in Top(t).todo :
          /\ queue' = [queue EXCEPT ![q].stop = @ \/ queue[q].thread # "none",
                                    ![q].thread = IF @ = "held" THEN "moved" ELSE @]
          /\ IF queue[q].thread = "held" /\ t # q
             THEN Goto(t, [[Top(t) EXCEPT !.todo = @ \ {q}] EXCEPT !.at = "s_join", !.q = q])
             ELSE Goto(t, [Top(t) EXCEPT !.todo = @ \ {q}])
  BY DEF ShutDownStop, StopService
<1>5. q \in Queues /\ q \in Top(t).retired /\ Top(t).todo \subseteq Top(t).retired
  BY <1>3 DEF GoodFrames, StackFrames
<1>6. Pending(Top(t), q) /\ Claims(Top(t), q)
  BY DEF Pending, Claims
<1>7. q \notin registry /\ queue[q].thread # "moved" /\ queue[q].st # "unborn"
  BY <1>3, <1>5, <1>6, TopMentions
<1>8. /\ \A n \in 0 .. 2 : \A new : StepOf(t, n, new) => Onward(t, n, new)
      /\ \A p \in Queues \ {q} : queue'[p] = queue[p]
      /\ queue[q].thread # "held" => queue'[q].thread = queue[q].thread
  <2>1. retiredOK' \subseteq Queues
    BY <1>1, <1>2 DEF DataTypes
  <2> QED
    BY <1>2, <1>3, <1>4, <1>5, <1>6, <1>7, <2>1, StopOnward
<1>9. ASSUME NEW f \in StackFrames, f.todo = Top(t).todo \ {q}, f.retired = Top(t).retired, f.ref = Top(t).ref,
             \/ f.at = "s_join" /\ f.q = q
             \/ f.at = "s_stop" /\ f.q = Top(t).q /\ (queue[q].thread = "held" => t = q),
             stack' = [stack EXCEPT ![t] = <<f>> \o Tail(stack[t])]
      PROVE  QueuesInv'
  <2>1. f \in GoodFrames(t)
    BY <1>3, <1>5, <1>9 DEF GoodFrames, RefAts, LooseAts, LoopAts
  <2>2. ASSUME NEW new, StepOf(t, 1, new), 1 \in DOMAIN new, new[1] = f PROVE FitsIn(t, new, 1)
    <3>1. Onward(t, 1, new)
      BY <1>8, <2>2
    <3>2. \A p \in Queues : queue[p].st # "unborn" => queue'[p].st # "unborn" /\ (p \in registry' => p \in registry)
      BY <3>1 DEF Onward
    <3>3. Top(t).ref # TRUE /\ f.ref # TRUE
      BY <1>3, <1>9 DEF GoodFrames, RefAts
    <3>4. ASSUME NEW p \in Queues
          PROVE  /\ f.q = p => Top(t).q = p \/ p \in Top(t).retired
                 /\ p \in f.retired => p \in Top(t).retired
                 /\ Holds(f, p) => Holds(Top(t), p)
                 /\ Claims(f, p) => Claims(Top(t), p)
                 /\ Pending(f, p) => Pending(Top(t), p) /\ p # q
                 /\ ~Claims(f, p) => ~Claims(Top(t), p) \/ (p = q /\ (queue[q].thread = "held" => t = q))
      BY <1>3, <1>5, <1>9, <3>3 DEF Holds, Claims, Pending
    <3>5. \A p \in Queues : Pending(f, p) => queue'[p].thread # "moved"
      <4>1. \A p \in Queues : Pending(Top(t), p) => queue[p].thread # "moved"
        BY <1>3, TopMentions
      <4> QED
        BY <1>8, <3>4, <4>1
    <3>6. ASSUME NEW p \in Queues, p \in f.retired, ~Claims(f, p), t # p PROVE stack'[p] = <<>>
      <4>1. p \in Top(t).retired
        BY <3>4, <3>6
      <4>2. p \notin registry
        BY <1>3, <4>1, TopMentions
      <4>3. CASE ~Claims(Top(t), p)
        <5>1. stack[p] = <<>>
          BY <1>1, <1>3, <3>6, <4>1, <4>3 DEF Joined
        <5>2. 1 \in 0 .. 2
          OBVIOUS
        <5> QED
          BY <2>2, <4>2, <5>1, <5>2, EndedStays
      <4>4. CASE p = q /\ (queue[q].thread = "held" => t = q)
        <5>1. queue[q].thread \in {"none", "held", "moved"}
          BY <1>1, <1>5 DEF DataTypes, QueueStates
        <5>2. queue[q].thread = "none"
          BY <1>7, <3>6, <4>4, <5>1
        <5>3. stack[p] = <<>>
          BY <1>1, <3>6, <4>4, <5>2 DEF Started
        <5>4. 1 \in 0 .. 2
          OBVIOUS
        <5> QED
          BY <2>2, <4>2, <5>3, <5>4, EndedStays
      <4> QED
        BY <3>4, <3>6, <4>3, <4>4
    <3>7. new[1].at \notin CreateAts \cup DtorAts /\ new[1].at # "notify" /\ Top(t).at # "c_start"
      BY <1>3, <1>9, <2>2 DEF CreateAts, DtorAts
    <3>8. \A p \in Queues :
            /\ new[1].q = p => Top(t).q = p \/ p \in Top(t).retired
            /\ p \in new[1].retired => p \in Top(t).retired
            /\ Holds(new[1], p) => Holds(Top(t), p)
            /\ Claims(new[1], p) => Claims(Top(t), p)
            /\ Pending(new[1], p) => queue'[p].thread # "moved"
            /\ p \in new[1].retired /\ ~Claims(new[1], p) /\ t # p => stack'[p] = <<>>
      BY <2>2, <3>4, <3>5, <3>6
    <3> QED
      BY <1>3, <2>1, <2>2, <3>2, <3>7, <3>8, HeirFits
  <2> QED
    BY <1>3, <1>8, <1>9, <2>2, GotoKeeps
<1>10. CASE queue[q].thread = "held" /\ t # q
  <2> DEFINE f == [[Top(t) EXCEPT !.todo = @ \ {q}] EXCEPT !.at = "s_join", !.q = q]
  <2>1. f \in StackFrames /\ f.todo = Top(t).todo \ {q} /\ f.retired = Top(t).retired /\ f.ref = Top(t).ref
        /\ f.at = "s_join" /\ f.q = q
    BY <1>3, <1>5 DEF StackFrames, LooseAts
  <2>2. stack' = [stack EXCEPT ![t] = <<f>> \o Tail(stack[t])]
    BY <1>3, <1>4, <1>10 DEF Goto
  <2> HIDE DEF f
  <2> QED
    BY <1>9, <2>1, <2>2
<1>11. CASE ~(queue[q].thread = "held" /\ t # q)
  <2> DEFINE f == [Top(t) EXCEPT !.todo = @ \ {q}]
  <2>1. f \in StackFrames /\ f.todo = Top(t).todo \ {q} /\ f.retired = Top(t).retired /\ f.ref = Top(t).ref
        /\ f.at = "s_stop" /\ f.q = Top(t).q
    BY <1>3, <1>5 DEF StackFrames, LooseAts
  <2>2. stack' = [stack EXCEPT ![t] = <<f>> \o Tail(stack[t])]
    BY <1>3, <1>4, <1>11 DEF Goto
  <2> HIDE DEF f
  <2> QED
    BY <1>9, <1>11, <2>1, <2>2
<1> QED
  BY <1>10, <1>11

\* The join is over: the retired queue's service thread has ended.
LEMMA ShutDownJoinKeeps == ASSUME QueuesInv, NEW t \in Threads, ShutDownJoin(t) PROVE QueuesInv'
<1> DEFINE f == [Top(t) EXCEPT !.at = "s_stop", !.q = None]
<1>1. /\ DataTypes /\ Joined /\ stack \in [Threads -> Seq(StackFrames)]
  BY DEF QueuesInv, QueuesTypes
<1>2. /\ At(t, "s_join") /\ UNCHANGED <<references, inits, registry, queue, backend, lifecycle, reported, retiredOK>>
      /\ stack[Top(t).q] = <<>> /\ stack' = [stack EXCEPT ![t] = <<f>> \o Rest(t)]
  BY DEF ShutDownJoin, Goto
<1>3. /\ stack[t] # <<>> /\ Top(t).at = "s_join" /\ Top(t) \in GoodFrames(t) /\ Rest(t) = Tail(stack[t])
      /\ 1 \in DOMAIN stack[t] /\ Top(t) = stack[t][1] /\ Top(t) \in StackFrames
  BY <1>2, TopFacts DEF At, GoodFrames
<1>4. /\ f \in StackFrames /\ f.at = "s_stop" /\ f.q = None /\ f.todo = Top(t).todo
      /\ f.retired = Top(t).retired /\ f.ref = Top(t).ref
  BY <1>3 DEF StackFrames, LooseAts
<1> HIDE DEF f
<1>5. f \in GoodFrames(t)
  BY <1>3, <1>4 DEF GoodFrames, RefAts, LooseAts, LoopAts
<1>6. \A n \in 0 .. 2 : \A new : StepOf(t, n, new) => Onward(t, n, new)
  BY <1>1, <1>2, QuietOnward DEF DataTypes
<1>7. ASSUME NEW new, StepOf(t, 1, new), 1 \in DOMAIN new, new[1] = f PROVE FitsIn(t, new, 1)
  <2>1. Top(t).ref # TRUE /\ f.ref # TRUE /\ None \notin Queues
    BY <1>3, <1>4, RuntimeAssumption DEF GoodFrames, RefAts, None
  <2>2. ASSUME NEW p \in Queues
        PROVE  /\ f.q # p
               /\ p \in f.retired => p \in Top(t).retired
               /\ Holds(f, p) => Holds(Top(t), p)
               /\ Claims(f, p) => Claims(Top(t), p)
               /\ Pending(f, p) => Pending(Top(t), p)
               /\ ~Claims(f, p) => ~Claims(Top(t), p) \/ p = Top(t).q
    BY <1>3, <1>4, <2>1 DEF Holds, Claims, Pending
  <2>3. ASSUME NEW p \in Queues, p \in f.retired, ~Claims(f, p), t # p PROVE stack'[p] = <<>>
    <3>1. p \in Top(t).retired
      BY <2>2, <2>3
    <3>2. p \notin registry
      BY <1>3, <3>1, TopMentions
    <3>3. stack[p] = <<>>
      <4>1. CASE ~Claims(Top(t), p)
        BY <1>1, <1>3, <2>3, <3>1, <4>1 DEF Joined
      <4>2. CASE p = Top(t).q
        BY <1>2, <4>2
      <4> QED
        BY <2>2, <2>3, <4>1, <4>2
    <3>4. 1 \in 0 .. 2
      OBVIOUS
    <3> QED
      BY <1>7, <3>2, <3>3, <3>4, EndedStays
  <2>4. \A p \in Queues : Pending(Top(t), p) => queue[p].thread # "moved"
    BY <1>3, TopMentions
  <2>5. new[1].at \notin CreateAts \cup DtorAts /\ new[1].at # "notify" /\ Top(t).at # "c_start"
    BY <1>3, <1>4, <1>7 DEF CreateAts, DtorAts
  <2>6. \A p \in Queues :
            /\ queue[p].st # "unborn" => queue'[p].st # "unborn" /\ (p \in registry' => p \in registry)
            /\ new[1].q = p => Top(t).q = p \/ p \in Top(t).retired
            /\ p \in new[1].retired => p \in Top(t).retired
            /\ Holds(new[1], p) => Holds(Top(t), p)
            /\ Claims(new[1], p) => Claims(Top(t), p)
            /\ Pending(new[1], p) => queue'[p].thread # "moved"
            /\ p \in new[1].retired /\ ~Claims(new[1], p) /\ t # p => stack'[p] = <<>>
    BY <1>2, <1>7, <2>2, <2>3, <2>4
  <2> QED
    BY <1>3, <1>5, <1>7, <2>5, <2>6, HeirFits
<1> QED
  BY <1>2, <1>3, <1>4, <1>6, <1>7, GotoKeeps

\* retiredQueues.clear() drops the shared_ptrs one by one; each queue's thread has ended.
LEMMA ShutDownClearKeeps == ASSUME QueuesInv, NEW t \in Threads, ShutDownClear(t) PROVE QueuesInv'
<1>1. /\ DataTypes /\ Joined /\ stack \in [Threads -> Seq(StackFrames)]
  BY DEF QueuesInv, QueuesTypes
<1>2. /\ At(t, "s_stop") /\ UNCHANGED <<references, inits, registry, queue, backend, lifecycle, reported>>
      /\ Top(t).todo = {}
  BY DEF ShutDownClear
<1>3. /\ stack[t] # <<>> /\ Top(t).at = "s_stop" /\ Top(t) \in GoodFrames(t) /\ Rest(t) = Tail(stack[t])
      /\ 1 \in DOMAIN stack[t] /\ Top(t) = stack[t][1] /\ Top(t) \in StackFrames
  BY <1>2, TopFacts DEF At, GoodFrames
<1>4. CASE Top(t).retired = {}
  <2>1. stack' = [stack EXCEPT ![t] = Tail(stack[t])] /\ retiredOK' = retiredOK
    BY <1>4 DEF ShutDownClear
  <2>2. \A n \in 0 .. 2 : \A new : StepOf(t, n, new) => Onward(t, n, new)
    BY <1>1, <1>2, <2>1, QuietOnward DEF DataTypes
  <2> QED
    BY <1>3, <2>1, <2>2, PopKeeps
<1>5. CASE Top(t).retired # {}
  <2>1. PICK q \in Top(t).retired :
          LET kept == <<[Top(t) EXCEPT !.retired = @ \ {q}]>> \o Rest(t)
              left == [stack EXCEPT ![t] = kept]
          IN  /\ stack' = IF q \notin registry /\ ~Held(left, q)
                          THEN [stack EXCEPT ![t] = <<Frame("x_stop", q, FALSE)>> \o kept]
                          ELSE left
              /\ retiredOK' = IF t = q THEN retiredOK ELSE retiredOK \union {q}
    BY <1>5 DEF ShutDownClear
  <2> DEFINE f == [Top(t) EXCEPT !.retired = @ \ {q}]
             b == Tail(stack[t])
             x == Frame("x_stop", q, FALSE)
             left == [stack EXCEPT ![t] = <<f>> \o b]
  <2>2. /\ stack' = IF q \notin registry /\ ~Held(left, q)
                    THEN [stack EXCEPT ![t] = <<x>> \o (<<f>> \o b)] ELSE left
        /\ retiredOK' = IF t = q THEN retiredOK ELSE retiredOK \union {q}
    BY <1>3, <2>1
  <2>3. q \in Queues /\ q \in Top(t).retired
    BY <1>3 DEF StackFrames
  <2>4. /\ f \in StackFrames /\ f.at = "s_stop" /\ f.q = Top(t).q /\ f.todo = {}
        /\ f.retired = Top(t).retired \ {q} /\ f.ref = Top(t).ref
    BY <1>2, <1>3 DEF StackFrames, LooseAts
  <2>5. b \in Seq(StackFrames)
    BY <1>1, <1>3
  <2>6. x \in StackFrames /\ ~Holds(x, q)
    BY <2>3 DEF Frame, StackFrames, LooseAts, Holds
  <2>7. ~Claims(Top(t), q) /\ \A p \in Queues : ~Claims(f, p) /\ ~Pending(f, p) /\ ~Claims(Top(t), p)
    BY <1>2, <1>3, <2>3, <2>4 DEF Claims, Pending
  <2>8. q \notin registry /\ queue[q].st # "unborn" /\ (t # q => stack[q] = <<>>)
    BY <1>1, <1>3, <2>3, <2>7, TopMentions DEF Joined
  <2>9. \A n \in 0 .. 2 : \A new : StepOf(t, n, new) => Onward(t, n, new)
    <3>1. /\ retiredOK' \subseteq Queues
          /\ \A p \in retiredOK' : p \in retiredOK \/ (stack[p] = <<>> /\ p \notin registry /\ queue[p].st # "unborn")
      BY <1>1, <2>2, <2>3, <2>8 DEF DataTypes
    <3> QED
      BY <1>1, <1>2, <3>1, QuietOnward DEF DataTypes
  <2> HIDE DEF f, x, b
  <2>10. f \in GoodFrames(t)
    BY <1>3, <2>4 DEF GoodFrames, RefAts, LooseAts, LoopAts
  <2>11. ASSUME NEW n \in 0 .. 2, NEW new, StepOf(t, n, new), NEW i \in DOMAIN new, new[i] = f
         PROVE  FitsIn(t, new, i)
    <3>1. Top(t).ref # TRUE /\ f.ref # TRUE
      BY <1>3, <2>4 DEF GoodFrames, RefAts
    <3>2. ASSUME NEW p \in Queues, p \in f.retired, t # p PROVE stack'[p] = <<>>
      <4>1. p \in Top(t).retired
        BY <2>4, <3>2
      <4>2. p \notin registry /\ stack[p] = <<>>
        BY <1>1, <1>3, <2>7, <3>2, <4>1, TopMentions DEF Joined
      <4> QED
        BY <2>11, <4>2, EndedStays
    <3>3. \A p \in Queues : Holds(f, p) => Holds(Top(t), p)
      BY <2>4, <3>1 DEF Holds
    <3>4. new[i].at \notin CreateAts \cup DtorAts /\ new[i].at # "notify" /\ Top(t).at # "c_start"
      BY <1>3, <2>4, <2>11 DEF CreateAts, DtorAts
    <3>5. \A p \in Queues :
            /\ queue[p].st # "unborn" => queue'[p].st # "unborn" /\ (p \in registry' => p \in registry)
            /\ new[i].q = p => Top(t).q = p
            /\ p \in new[i].retired => p \in Top(t).retired
            /\ Holds(new[i], p) => Holds(Top(t), p)
            /\ ~Claims(new[i], p)
            /\ ~Pending(new[i], p)
            /\ p \in new[i].retired /\ t # p => stack'[p] = <<>>
      BY <1>2, <2>4, <2>7, <2>11, <3>2, <3>3
    <3> QED
      BY <1>3, <2>10, <2>11, <3>4, <3>5, HeirFits
  <2>12. CASE ~(q \notin registry /\ ~Held(left, q))
    <3>1. stack' = [stack EXCEPT ![t] = <<f>> \o Tail(stack[t])]
      BY <2>2, <2>12 DEF b
    <3>2. \A new : StepOf(t, 1, new) /\ 1 \in DOMAIN new /\ new[1] = f => FitsIn(t, new, 1)
      <4>1. 1 \in 0 .. 2
        OBVIOUS
      <4> QED
        BY <2>11, <4>1
    <3> QED
      BY <1>3, <2>4, <2>9, <3>1, <3>2, GotoKeeps
  <2>13. CASE q \notin registry /\ ~Held(left, q)
    <3> DEFINE news == <<x, f>>
               c == <<f>> \o b
    <3>1. stack' = [stack EXCEPT ![t] = <<x>> \o c] /\ left = [stack EXCEPT ![t] = c]
      BY <2>2, <2>13
    <3>2. c \in Seq(StackFrames) /\ <<x>> \o c = news \o b
      BY <2>4, <2>5, <2>6
    <3>3. stack' = [stack EXCEPT ![t] = news \o Tail(stack[t])]
      BY <3>1, <3>2 DEF b
    <3>4. news \in Seq(StackFrames) /\ Len(news) = 2 /\ news[1] = x /\ news[2] = f
      BY <2>4, <2>6
    <3> HIDE DEF news, c, left
    <3>5. ~Held(stack', q)
      <4>1. ASSUME NEW s \in Threads, NEW i \in DOMAIN stack'[s], Holds(stack'[s][i], q) PROVE FALSE
        <5>1. CASE s = t
          <6>1. stack'[t] = <<x>> \o c /\ left[t] = c
            BY <1>1, <3>1
          <6>2. (i = 1 /\ stack'[t][i] = x) \/ (i - 1 \in DOMAIN c /\ stack'[t][i] = c[i - 1])
            BY <2>6, <3>2, <4>1, <5>1, <6>1
          <6> QED
            BY <2>6, <2>13, <4>1, <5>1, <6>1, <6>2 DEF Held
        <5>2. CASE s # t
          <6>1. stack'[s] = left[s]
            BY <1>1, <3>1, <5>2
          <6> QED
            BY <2>13, <4>1, <6>1 DEF Held
        <5> QED
          BY <5>1, <5>2
      <4> QED
        BY <4>1 DEF Held
    <3>6. Len(news) \in 0 .. 2 /\ \A new : StepOf(t, Len(news), new) => Onward(t, Len(news), new)
      BY <2>9, <3>4
    <3>7. ASSUME NEW new, StepOf(t, Len(news), new), \A i \in 1 .. Len(news) : i \in DOMAIN new /\ new[i] = news[i]
          PROVE  \A i \in 1 .. Len(news) : FitsIn(t, new, i)
      <4>1. 1 \in 1 .. Len(news) /\ 2 \in 1 .. Len(news)
        BY <3>4
      <4>2. 1 \in DOMAIN new /\ new[1] = x /\ 2 \in DOMAIN new /\ new[2] = f
        BY <3>4, <3>7, <4>1
      <4>3. "x_stop" \in DtorAts
        BY DEF DtorAts
      <4>4. new[1] = Frame("x_stop", q, FALSE) /\ Top(t).at # "c_start"
        BY <1>3, <4>2 DEF x
      <4>5. \A p \in Queues : queue[p].st # "unborn" => queue'[p].st # "unborn"
        BY <1>2
      <4>6. q \notin registry'
        BY <1>2, <2>8
      <4>7. FitsIn(t, new, 1)
        BY <1>3, <2>3, <3>5, <4>2, <4>3, <4>4, <4>5, <4>6, DtorFits
      <4>8. FitsIn(t, new, 2)
        BY <2>11, <3>6, <3>7, <4>2
      <4>9. \A i \in 1 .. Len(news) : i = 1 \/ i = 2
        BY <3>4
      <4> QED
        BY <4>7, <4>8, <4>9
    <3> QED
      BY <1>3, <3>3, <3>4, <3>6, <3>7, NewsKeep
  <2> QED
    BY <2>12, <2>13
<1> QED
  BY <1>4, <1>5

-----------------------------------------------------------------------------
\* The destructor goes on to its next frame: still nobody refers to the queue.
LEMMA DtorGoes ==
    ASSUME QueuesInv, NEW t \in Threads, stack[t] # <<>>, Top(t).at \in DtorAts,
           NEW at \in DtorAts, Goto(t, Frame(at, Top(t).q, FALSE)),
           \A n \in 0 .. 2 : \A new : StepOf(t, n, new) => Onward(t, n, new)
    PROVE  QueuesInv'
<1> DEFINE q == Top(t).q
           f == Frame(at, q, FALSE)
<1>1. Top(t) \in GoodFrames(t) /\ Rest(t) = Tail(stack[t])
  BY TopFacts
<1>2. q \in Queues /\ Top(t).at # "c_start"
  BY <1>1 DEF GoodFrames, RefAts, LooseAts, DtorAts
<1>3. ~Referenced(q) /\ queue[q].st # "unborn"
  BY <1>2, TopMentions
<1>4. f \in StackFrames /\ \A p \in Queues : ~Holds(f, p)
  BY <1>2 DEF Frame, StackFrames, LooseAts, DtorAts, Holds
<1>5. stack' = [stack EXCEPT ![t] = <<f>> \o Tail(stack[t])]
  BY <1>1 DEF Goto
<1>6. ASSUME NEW new, StepOf(t, 1, new), 1 \in DOMAIN new, new[1] = f PROVE FitsIn(t, new, 1)
  <2> HIDE DEF q, f
  <2>1. 1 \in 0 .. 2
    OBVIOUS
  <2>2. Onward(t, 1, new)
    BY <1>6, <2>1
  <2>3. \A p \in Queues : queue[p].st # "unborn" => queue'[p].st # "unborn" /\ (p \in registry' => p \in registry)
    BY <2>2 DEF Onward
  <2>4. \A i \in DOMAIN new : i <= 1 => i = 1
    BY <1>6 DEF StepOf
  <2>5. \A i \in DOMAIN new : i <= 1 => (Holds(new[i], q) => Referenced(q))
    BY <1>2, <1>4, <1>6, <2>4
  <2>6. q \in registry' => q \in registry
    BY <1>2, <1>3, <2>3
  <2>7. q \notin registry' /\ ~Held(stack', q)
    BY <1>2, <1>3, <1>6, <2>1, <2>5, <2>6, NoRevival
  <2>8. new[1] = Frame(at, q, FALSE) /\ Top(t).q = q
    BY <1>6 DEF f, q
  <2> QED
    BY <1>2, <1>6, <2>3, <2>7, <2>8, DtorFits
<1> HIDE DEF f
<1> QED
  BY <1>4, <1>5, <1>6, GotoKeeps

\* The destructor stops the service thread.
LEMMA DtorStopKeeps == ASSUME QueuesInv, NEW t \in Threads, DtorStop(t) PROVE QueuesInv'
<1> DEFINE q == Top(t).q
<1>1. DataTypes
  BY DEF QueuesInv, QueuesTypes
<1>2. /\ At(t, "x_stop") /\ UNCHANGED <<references, inits, registry, backend, lifecycle, reported, retiredOK>>
      /\ queue' = [queue EXCEPT ![q].stop = @ \/ queue[q].thread # "none",
                                ![q].thread = IF @ = "held" THEN "moved" ELSE @]
      /\ Goto(t, Frame("x_join", q, FALSE)) \/ Goto(t, Frame("x_free", q, FALSE))
  BY DEF DtorStop, StopService
<1>3. stack[t] # <<>> /\ Top(t).at \in DtorAts
  BY <1>2 DEF At, DtorAts
<1>4. q \in Queues
  BY <1>3, TopFacts DEF GoodFrames, RefAts, LooseAts, DtorAts
<1>5. ~Referenced(q) /\ queue[q].st # "unborn"
  BY <1>3, <1>4, TopMentions
<1>6. \A n \in 0 .. 2 : \A new : StepOf(t, n, new) => Onward(t, n, new)
  <2>1. retiredOK' \subseteq Queues
    BY <1>1, <1>2 DEF DataTypes
  <2> QED
    BY <1>2, <1>4, <1>5, <2>1, StopOnward
<1>7. "x_join" \in DtorAts /\ "x_free" \in DtorAts
  BY DEF DtorAts
<1> QED
  BY <1>2, <1>3, <1>6, <1>7, DtorGoes

\* The destructor's join is over.
LEMMA DtorJoinKeeps == ASSUME QueuesInv, NEW t \in Threads, DtorJoin(t) PROVE QueuesInv'
<1>1. DataTypes
  BY DEF QueuesInv, QueuesTypes
<1>2. /\ At(t, "x_join") /\ Goto(t, Frame("x_free", Top(t).q, FALSE))
      /\ UNCHANGED <<references, inits, registry, queue, backend, lifecycle, reported, retiredOK>>
  BY DEF DtorJoin
<1>3. stack[t] # <<>> /\ Top(t).at \in DtorAts /\ "x_free" \in DtorAts
  BY <1>2 DEF At, DtorAts
<1>4. \A n \in 0 .. 2 : \A new : StepOf(t, n, new) => Onward(t, n, new)
  BY <1>1, <1>2, QuietOnward DEF DataTypes
<1> QED
  BY <1>2, <1>3, <1>4, DtorGoes

\* The memory goes back to the driver only when its queue does not run any more.
LEMMA DtorFreeKeeps == ASSUME QueuesInv, NEW t \in Threads, DtorFree(t) PROVE QueuesInv'
<1> DEFINE q == Top(t).q
<1>1. DataTypes /\ Backed
  BY DEF QueuesInv, QueuesTypes
<1>2. /\ At(t, "x_free") /\ UNCHANGED <<references, inits, registry, lifecycle, reported, retiredOK>>
      /\ stack' = [stack EXCEPT ![t] = Tail(stack[t])]
  BY DEF DtorFree
<1>3. PICK done \in BOOLEAN :
         /\ done \/ (queue[q].active /\ queue[q].handle)
         /\ backend' = IF done /\ queue[q].active /\ queue[q].handle THEN [backend EXCEPT ![q] = "destroyed"] ELSE backend
         /\ queue' = [queue EXCEPT ![q].st = "gone", ![q].handle = @ /\ ~done, ![q].active = @ /\ ~done,
                                   ![q].backing = IF done THEN "freed" ELSE "retained"]
  BY DEF DtorFree
<1>4. stack[t] # <<>> /\ Top(t).at \in DtorAts
  BY <1>2 DEF At, DtorAts
<1>5. q \in Queues
  BY <1>4, TopFacts DEF GoodFrames, RefAts, LooseAts, DtorAts
<1>6. ~Referenced(q) /\ queue[q].st # "unborn"
  BY <1>4, <1>5, TopMentions
<1>7. queue \in [Queues -> QueueStates] /\ backend \in [Queues -> {"none", "running", "destroyed"}]
  BY <1>1 DEF DataTypes
<1> HIDE DEF q
<1> DEFINE h == queue[q].handle /\ ~done
           a == queue[q].active /\ ~done
           m == IF done THEN "freed" ELSE "retained"
           k == [queue[q] EXCEPT !.st = "gone", !.handle = h, !.active = a, !.backing = m]
<1>8. queue[q] \in QueueStates /\ h \in BOOLEAN /\ a \in BOOLEAN /\ m \in {"freed", "retained"}
  BY <1>5, <1>7 DEF QueueStates
<1>9. /\ m = "freed" => done = TRUE
      /\ done = FALSE => h = queue[q].handle /\ a = queue[q].active
  BY <1>5, <1>7 DEF QueueStates
<1>10. queue' = [queue EXCEPT ![q].st = "gone", ![q].handle = h, ![q].active = a, ![q].backing = m]
  BY <1>3, <1>5, <1>7
<1> HIDE DEF h, a, m
<1>11. queue' = [queue EXCEPT ![q] = k]
  BY <1>5, <1>7, <1>10
<1>12. /\ k \in QueueStates /\ k.st = "gone" /\ k.thread = queue[q].thread /\ k.err = queue[q].err
       /\ k.backing = m /\ k.handle = h /\ k.active = a
  BY <1>8 DEF QueueStates
<1> HIDE DEF k
<1>13. queue' \in [Queues -> QueueStates] /\ queue'[q] = k /\ \A p \in Queues \ {q} : queue'[p] = queue[p]
  BY <1>5, <1>7, <1>11, <1>12
<1>14. /\ backend' \in [Queues -> {"none", "running", "destroyed"}]
       /\ \A p \in Queues \ {q} : backend'[p] = backend[p]
  BY <1>3, <1>5, <1>7
<1>15. /\ backend'[q] = "running" => queue'[q].handle = TRUE /\ queue'[q].active = TRUE
       /\ queue'[q].backing = "freed" => backend'[q] # "running" /\ queue'[q].st = "gone"
  <2>1. backend[q] = "running" => queue[q].handle = TRUE /\ queue[q].active = TRUE
    BY <1>1, <1>5 DEF Backed
  <2>2. CASE done = TRUE
    <3>1. backend'[q] # "running"
      BY <1>3, <1>5, <1>7, <2>1, <2>2
    <3> QED
      BY <1>12, <1>13, <3>1
  <2>3. CASE done = FALSE
    <3>1. backend' = backend
      BY <1>3, <2>3
    <3> QED
      BY <1>9, <1>12, <1>13, <2>1, <2>3, <3>1
  <2> QED
    BY <2>2, <2>3
<1>16. \A p \in Queues \ {q} : queue'[p] = queue[p] /\ backend'[p] = backend[p]
  BY <1>13, <1>14
<1>17. queue'[q].st = "gone" /\ queue'[q].thread = queue[q].thread /\ queue'[q].err = queue[q].err
  BY <1>12, <1>13
<1>18. \A n \in 0 .. 2 : \A new : StepOf(t, n, new) => Onward(t, n, new)
  BY <1>2, <1>5, <1>6, <1>13, <1>14, <1>15, <1>16, <1>17, RecordOnward
<1> QED
  BY <1>2, <1>4, <1>18, PopKeeps

-----------------------------------------------------------------------------
\* Before the first call nothing exists.
LEMMA QueuesInitially == ASSUME QueuesInit PROVE QueuesInv
<1>1. stack = [t \in Threads |-> <<>>] /\ \A t \in Threads : DOMAIN stack[t] = {}
  BY DEF QueuesInit
<1>2. stack \in [Threads -> Seq(StackFrames)]
  <2>1. <<>> \in Seq(StackFrames)
    OBVIOUS
  <2> QED
    BY <1>1, <2>1
<1>3. /\ Fresh \in QueueStates /\ Fresh.st = "unborn" /\ Fresh.thread = "none" /\ Fresh.backing = "none"
  BY DEF Fresh, QueueStates
<1>4. queue = [q \in Queues |-> Fresh] /\ queue \in [Queues -> QueueStates]
  BY <1>3 DEF QueuesInit
<1>5. DataTypes
  BY <1>4, RuntimeAssumption DEF QueuesInit, DataTypes
<1>6. \A q \in Queues : queue[q] = Fresh /\ backend[q] = "none" /\ reported[q] = 0 /\ stack[q] = <<>>
  BY <1>1, <1>4 DEF QueuesInit, Threads
<1>7. registry = {} /\ retiredOK = {}
  BY DEF QueuesInit
<1>8. Shaped /\ Unreferenced
  BY <1>1, <1>3, <1>6 DEF Shaped, Unreferenced
<1>9. Unborn /\ Started /\ InCreation
  BY <1>1, <1>3, <1>6, <1>7 DEF Unborn, Started, InCreation
<1>10. Claimed /\ Joined
  BY <1>1, <1>3, <1>6, <1>7 DEF Claimed, Joined
<1>11. Backed
  BY <1>3, <1>6 DEF Backed
<1>12. Latched
  BY <1>1, <1>6 DEF Latched
<1> QED
  BY <1>2, <1>5, <1>8, <1>9, <1>10, <1>11, <1>12 DEF QueuesInv, QueuesTypes

\* Every step of every thread keeps the invariant.
LEMMA QueuesStepKeeps == ASSUME QueuesInv, QueuesNext PROVE QueuesInv'
<1>1. ASSUME NEW t \in Threads, Call(t) PROVE QueuesInv'
  <2>1. CASE HsaInit(t) \/ HsaShutDown(t)
    BY <2>1, HsaInitKeeps, HsaShutDownKeeps
  <2>2. ASSUME NEW q \in Queues, QueueCreate(t, q) \/ SoftQueueCreate(t, q) PROVE QueuesInv'
    BY <2>2, QueueCreateKeeps, SoftQueueCreateKeeps
  <2>3. ASSUME NEW q \in Queues, NEW at \in {"ring", "profile", "unpin", "d_inactivate", "inactivate"}, Pin(t, q, at),
               UNCHANGED <<references, inits, registry, queue, backend, lifecycle, reported, retiredOK>>
        PROVE  QueuesInv'
    BY <2>3, PinKeeps
  <2> QED
    BY <1>1, <2>1, <2>2, <2>3 DEF Call
<1>2. ASSUME NEW t \in Threads, ThreadStep(t) PROVE QueuesInv'
  <2>1. CASE ShutDownStop(t) \/ ShutDownJoin(t) \/ ShutDownClear(t)
    BY <2>1, ShutDownStopKeeps, ShutDownJoinKeeps, ShutDownClearKeeps
  <2>2. CASE StartService(t) \/ StartServiceFails(t) \/ QueueCreateReturns(t) \/ LifecycleUnlock(t)
    BY <2>2, StartServiceKeeps, StartServiceFailsKeeps, QueueCreateReturnsKeeps, LifecycleUnlockKeeps
  <2>3. CASE Ring(t) \/ SetProfilerEnabled(t) \/ Unpin(t) \/ QueueInactivate(t)
    BY <2>3, RingKeeps, SetProfilerEnabledKeeps, UnpinKeeps, QueueInactivateKeeps
  <2>4. CASE DestroyInactivate(t) \/ DestroyErase(t) \/ DestroyStop(t) \/ DestroyJoin(t)
    BY <2>4, DestroyInactivateKeeps, DestroyEraseKeeps, DestroyStopKeeps, DestroyJoinKeeps
  <2>5. CASE DtorStop(t) \/ DtorJoin(t) \/ DtorFree(t)
    BY <2>5, DtorStopKeeps, DtorJoinKeeps, DtorFreeKeeps
  <2> QED
    BY <1>2, <2>1, <2>2, <2>3, <2>4, <2>5 DEF ThreadStep
<1>3. ASSUME NEW t \in Threads, CallbackReturns(t) PROVE QueuesInv'
  BY <1>3, CallbackReturnsKeeps
<1>4. ASSUME NEW q \in Queues, ServiceStep(q) PROVE QueuesInv'
  BY <1>4, ServiceLoopKeeps, ServiceKeeps, NotifyKeeps, ServiceReleaseKeeps DEF ServiceStep
<1> QED
  BY <1>1, <1>2, <1>3, <1>4 DEF QueuesNext

\* A stuttering step keeps the invariant.
LEMMA QueuesStutter == ASSUME QueuesInv, UNCHANGED queueVars PROVE QueuesInv'
<1>1. UNCHANGED <<references, inits, registry, queue, backend, lifecycle, stack, reported, retiredOK>>
  BY DEF queueVars
<1>2. QueuesTypes' /\ Shaped'
  BY <1>1 DEF QueuesInv, QueuesTypes, DataTypes, Shaped
<1>3. Unreferenced' /\ Unborn'
  BY <1>1 DEF QueuesInv, Unreferenced, Referenced, Held, Unborn
<1>4. Started' /\ InCreation'
  BY <1>1 DEF QueuesInv, Started, InCreation
<1>5. Claimed'
  BY <1>1 DEF QueuesInv, Claimed
<1>6. Joined'
  BY <1>1 DEF QueuesInv, Joined
<1>7. Backed' /\ Latched'
  BY <1>1 DEF QueuesInv, Backed, Latched
<1> QED
  BY <1>2, <1>3, <1>4, <1>5, <1>6, <1>7 DEF QueuesInv

\* However calls, service threads, callbacks and destructors interleave, references, registry,
\* threads and the driver's queues stay consistent.
THEOREM QueuesSafe == QueuesSpec => []QueuesInv
<1>1. QueuesInit => QueuesInv
  BY QueuesInitially
<1>2. QueuesInv /\ [QueuesNext]_queueVars => QueuesInv'
  BY QueuesStepKeeps, QueuesStutter
<1> QED
  BY <1>1, <1>2, PTL DEF QueuesSpec

\* errorDelivered is latched under the queue's mutex before either path reports: whoever finds the
\* fault, the service thread or a producer's doorbell, the callback is made at most once.
THEOREM ErrorsReportedOnce == QueuesSpec => []ErrorReportedOnce
<1>1. QueuesInv => ErrorReportedOnce
  BY DEF QueuesInv, Latched, ErrorReportedOnce
<1> QED
  BY <1>1, QueuesSafe, PTL

\* The last reference is gone and the driver's queue destroyed before the destructor returns the
\* ring, and a destruction confirmed to a caller is the end of the queue's service thread.
THEOREM DestructionSafe == QueuesSpec => []DestroyedQueuesSafe
<1>1. QueuesInv => QueuesTypeOK
  <2> SUFFICES ASSUME QueuesInv PROVE QueuesTypeOK
    OBVIOUS
  <2>1. DataTypes /\ stack \in [Threads -> Seq(StackFrames)]
    BY DEF QueuesInv, QueuesTypes
  <2>2. references \in 0 .. MaxInits /\ inits \in 0 .. MaxInits
    BY <2>1, RuntimeAssumption DEF DataTypes
  <2>3. \A t \in Threads : \A i \in DOMAIN stack[t] :
          stack[t][i].q \in Queues \union {None} /\ stack[t][i].ref \in BOOLEAN
    <3>1. \A t \in Threads : \A i \in DOMAIN stack[t] : stack[t][i] \in StackFrames
      BY <2>1
    <3>2. \A f \in StackFrames : f.q \in Queues \union {None} /\ f.ref \in BOOLEAN
      BY DEF StackFrames
    <3> QED
      BY <3>1, <3>2
  <2> QED
    BY <2>1, <2>2, <2>3 DEF DataTypes, QueueStates, QueuesTypeOK
<1>2. QueuesInv => RingOutlivesQueue
  BY DEF QueuesInv, Backed, Unreferenced, Referenced, RingOutlivesQueue
<1>3. QueuesInv => QuietAfterDestroy
  BY DEF QueuesInv, Joined, QuietAfterDestroy
<1>4. QueuesInv => DestroyedQueuesSafe
  BY <1>1, <1>2, <1>3 DEF DestroyedQueuesSafe
<1> QED
  BY <1>4, QueuesSafe, PTL

=============================================================================
