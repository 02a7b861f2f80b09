--------------------------- MODULE DriverSession ---------------------------
(***************************************************************************)
(* The lifecycle core of the DriverKit extension (dext/MacAMDGPU.cpp and   *)
(* dext/amdgpu/amdgpu_client_lifecycle.h): one PCI device, one driver      *)
(* object and several user clients that attach to it, allocate host memory *)
(* the GPU can reach, map firmware queues over it, fail, close and recover.*)
(*                                                                         *)
(* Every RPC, every client Stop completion and the driver's Stop run on    *)
(* one serial dispatch queue, so each is one action here.  What the GPU,   *)
(* PCI and firmware answer is a nondeterministic outcome of the action.    *)
(*                                                                         *)
(* Two kinds of state are kept apart:                                      *)
(*   - what the driver believes and owns (sessions, buffer tables, queue   *)
(*     slots, the shared bring-up storage, the quarantine list);           *)
(*   - what the device may still do by itself (bus mastering, page-table   *)
(*     entries that may be valid, queues firmware may be running).         *)
(* The safety property relates the two.                                    *)
(***************************************************************************)
EXTENDS Integers, FiniteSets

CONSTANTS
    Clients,           \* user-client objects (MacAMDGPUUserClient_IVars)
    NoClient,          \* the null owner pointer
    Slots,             \* entries of one client's buffer table
    Queues,            \* persistent AQL queue slots (bringup.aqlQueues)
    MaxParticipants    \* UINT32_MAX of ClientSessions.participants

ASSUME NoClientAssumption == NoClient \notin Clients
ASSUME FiniteAssumption == IsFiniteSet(Clients)
ASSUME LimitAssumption == MaxParticipants \in Nat \ {0}

VARIABLES
    \* driver object (MacAMDGPU_IVars)
    stopping, freed,          \* Stop entered; free() has run
    pciOpen, blocked,         \* pciOpen, shutdownBlocked
    reached, bringup,         \* bringup.reached; shared bring-up storage held
    initClient, exclusive,    \* sessions.initializationClient, .exclusiveClient
    participants, claimed,    \* sessions.participants; clients with ->claimed
    expOwner, expAcquired,    \* atomicRequester.owner, .acquiredExclusive
    submission,               \* the one raw submission (ClientSubmission)
    qOwner, qBufs, qRetained, \* aqlQueues[]: owner, {ring, metadata}, retained
    \* user clients (MacAMDGPUUserClient_IVars)
    life,                     \* absent, open, stopping, quarantined
    mapped, irq,              \* mappedBAR; interrupt queue and sources
    bo,                       \* GTT entries of the buffer table
    \* device
    busMaster,                \* PCI command register bit 2
    reach,                    \* buffers a page-table entry may still name
    bringupReach,             \* engines may use the bring-up storage
    fwQueues                  \* AQL queues firmware may be running

sessionVars == <<initClient, exclusive, participants, claimed>>
expVars     == <<expOwner, expAcquired>>
clientVars  == <<life, mapped, irq>>
queueVars   == <<qOwner, qBufs, qRetained>>
deviceVars  == <<reach, bringupReach, fwQueues>>
pciVars     == <<pciOpen, busMaster>>
endVars     == <<stopping, freed>>
stageVars   == <<reached, bringup>>
vars == <<endVars, pciVars, blocked, stageVars, sessionVars, expVars,
          submission, queueVars, clientVars, bo, deviceVars>>

Stages == {"None", "Partial", "SDMAInit"}
Lives  == {"absent", "open", "stopping", "quarantined"}
\* none; irqQueue but no source; sources live; a source that refuses to drain
IRQs   == {"none", "queue", "live", "stuck"}
\* free; mapped and ready; published to the page table but not ready
BOStates == {"free", "bound", "partial"}
\* stuck: begun, but no fence packet that could complete it was published
Submissions == {"none", "inflight", "stuck", "done"}
Owners == Clients \cup {NoClient}

NoBuffers == [s \in Slots |-> "free"]
Quarantined == {c \in Clients : life[c] = "quarantined"}
OwnQueues(c) == {q \in Queues : qOwner[q] = c}
Ready == reached = "SDMAInit"
\* ClientSubmission::poll() finds nothing pending
Idle == submission \in {"none", "done"}
Poll == submission' = IF submission = "done" THEN "none" ELSE submission

Init ==
    /\ stopping = FALSE /\ freed = FALSE
    /\ pciOpen = FALSE /\ busMaster = FALSE
    /\ blocked = FALSE
    /\ reached = "None" /\ bringup = FALSE
    /\ initClient = NoClient /\ exclusive = NoClient
    /\ participants = 0 /\ claimed = {}
    /\ expOwner = NoClient /\ expAcquired = FALSE
    /\ submission = "none"
    /\ qOwner = [q \in Queues |-> NoClient]
    /\ qBufs = [q \in Queues |-> {}]
    /\ qRetained = {}
    /\ life = [c \in Clients |-> "absent"]
    /\ mapped = {} /\ irq = [c \in Clients |-> "none"]
    /\ bo = [c \in Clients |-> NoBuffers]
    /\ reach = {} /\ bringupReach = FALSE /\ fwQueues = {}

-----------------------------------------------------------------------------
(***************************************************************************)
(* ClientSessions (amdgpu_client_lifecycle.h).                             *)
(***************************************************************************)
\* attach() returns true.
AttachAllowed(c) ==
    /\ exclusive \in {NoClient, c}
    /\ Ready \/ initClient \in {NoClient, c}
    /\ c \in claimed \/ participants < MaxParticipants

\* initializationClient after a successful attach().
AttachedInit(c) == IF Ready THEN NoClient
                   ELSE IF c \in claimed THEN initClient ELSE c

CountAttach(c) ==
    /\ participants' = IF c \in claimed THEN participants ELSE participants + 1
    /\ claimed' = claimed \cup {c}

\* claimExclusive() returns true right after c attached.
MayClaimExclusive(c) == participants' = 1 /\ exclusive \in {NoClient, c}

\* Mutant: looks at exclusive ownership only.
ResetIgnoresOthers(c) == exclusive \in {NoClient, c}

\* canReset(): nobody else takes part in the session.
CanReset(c) == /\ participants = IF c \in claimed THEN 1 ELSE 0
               /\ exclusive \in {NoClient, c}

Detach(c) ==
    /\ participants' = IF c \in claimed THEN participants - 1 ELSE participants
    /\ claimed' = claimed \ {c}
    /\ initClient' = IF initClient = c THEN NoClient ELSE initClient
    /\ exclusive' = IF exclusive = c THEN NoClient ELSE exclusive

(***************************************************************************)
(* ExternalMethod's gates and mac_amdgpu_ensure_open for a selector that   *)
(* is not an observer.  A refused call, and a call whose PCI Open fails    *)
(* (which undoes its own attachment), leave the state as it was.           *)
(***************************************************************************)
Admits(c) ==
    /\ life[c] = "open" /\ ~stopping /\ ~blocked
    /\ pciOpen \/ reached = "None"
    /\ AttachAllowed(c)

\* Open, then MEM and BUSMASTER on; an open device is left as it is.
OpenPCI == pciOpen' = TRUE /\ busMaster' = (pciOpen => busMaster)

EnsureOpen(c) ==
    /\ Admits(c)
    /\ CountAttach(c)
    /\ OpenPCI

\* An admitted call that may change storage: no raw submission is pending.
Mutates(c) == EnsureOpen(c) /\ Idle /\ submission' = "none"
              /\ initClient' = AttachedInit(c)

-----------------------------------------------------------------------------
(***************************************************************************)
(* Client calls.                                                           *)
(***************************************************************************)
\* NewUserClient and UserClient::Start.
OpenClient(c) ==
    /\ life[c] = "absent" /\ ~stopping
    /\ life' = [life EXCEPT ![c] = "open"]
    /\ UNCHANGED <<endVars, pciVars, blocked, stageVars, sessionVars, expVars,
                   submission, queueVars, mapped, irq, bo, deviceVars>>

\* Any admitted call that only reads, waits (WaitFence) or is refused by its
\* handler: it still attaches the caller, opens PCI and polls the fence.
Attach(c) ==
    /\ EnsureOpen(c) /\ Poll
    /\ initClient' = AttachedInit(c)
    /\ UNCHANGED <<endVars, blocked, stageVars, exclusive, expVars, queueVars,
                   clientVars, bo, deviceVars>>

\* InitDevice: bringup_to(target) stops at some stage at or after reached.
\* A failure that timed out or had submitted work blocks the session.
InitDevice(c, stage, ok, dirty) ==
    /\ Admits(c) /\ CountAttach(c) /\ OpenPCI
    /\ Idle /\ submission' = "none"
    /\ stage = "None" => reached = "None" /\ ~ok
    /\ stage = "Partial" => ~Ready
    /\ ok => ~dirty
    /\ reached' = stage
    /\ bringup' = TRUE /\ bringupReach' = TRUE
    /\ blocked' = dirty
    /\ initClient' = IF ok /\ stage = "SDMAInit" THEN NoClient
                                                 ELSE AttachedInit(c)
    /\ UNCHANGED <<endVars, exclusive, expVars, queueVars, clientVars, bo,
                   reach, fwQueues>>

\* ResetDevice: a cold FLR by the one client that is bringing the GPU up.
ResetDevice(c) ==
    /\ Mutates(c)
    /\ reached = "None" /\ initClient' = c /\ participants' = 1
    /\ exclusive \in {NoClient, c} /\ c \notin mapped /\ irq[c] = "none"
    /\ bringupReach' = FALSE
    /\ UNCHANGED <<endVars, blocked, stageVars, exclusive, expVars, queueVars,
                   clientVars, bo, reach, fwQueues>>

\* CopyClientMemoryForType on a BAR; after claimExclusive the descriptor may
\* still be refused.
MapBAR(c, got) ==
    /\ Mutates(c) /\ MayClaimExclusive(c)
    /\ exclusive' = c
    /\ mapped' = IF got THEN mapped \cup {c} ELSE mapped
    /\ UNCHANGED <<endVars, blocked, stageVars, expVars, queueVars, life, irq,
                   bo, deviceVars>>

\* SetupInterrupts: admission claims exclusivity before the handler runs.
\* A second call is refused (StillOpen); setup may stop after any step.
SetupInterrupts(c, got) ==
    /\ Mutates(c) /\ MayClaimExclusive(c)
    /\ exclusive' = c
    /\ got \in {"none", "queue", "live"}
    /\ irq' = IF irq[c] = "none" THEN [irq EXCEPT ![c] = got] ELSE irq
    /\ UNCHANGED <<endVars, blocked, stageVars, expVars, queueVars, life,
                   mapped, bo, deviceVars>>

\* SubmitIB: raw packets.  Once begin*() ran, every failure leaves the
\* submission pending (stuck: nothing will ever write the expected fence).
SubmitIB(c, began) ==
    /\ EnsureOpen(c) /\ MayClaimExclusive(c)
    /\ Idle /\ reached # "None"
    /\ began \in {"none", "inflight", "stuck"}
    /\ initClient' = AttachedInit(c)
    /\ exclusive' = c
    /\ submission' = began
    /\ UNCHANGED <<endVars, blocked, stageVars, expVars, queueVars, clientVars,
                   bo, deviceVars>>

\* The engine writes the fence value of the pending submission.
FenceArrives ==
    /\ submission = "inflight"
    /\ submission' = "done"
    /\ UNCHANGED <<endVars, pciVars, blocked, stageVars, sessionVars, expVars,
                   queueVars, clientVars, bo, deviceVars>>

\* BOCopy, AQLDispatch, ComputeDispatch and the engine self-tests: published
\* work that did not verifiably complete blocks the session.
DispatchFails(c) ==
    /\ Mutates(c) /\ Ready
    /\ blocked' = TRUE
    /\ UNCHANGED <<endVars, stageVars, exclusive, expVars, queueVars,
                   clientVars, bo, deviceVars>>

\* BOAlloc(GTT).  gart_bind_sysmem publishes ownership before the first PTE
\* write; a failure after that keeps the entry and blocks the session.
BOAlloc(c, s, ok) ==
    /\ Mutates(c) /\ Ready
    /\ bo[c][s] = "free"
    /\ bo' = [bo EXCEPT ![c][s] = IF ok THEN "bound" ELSE "partial"]
    /\ reach' = reach \cup {<<c, s>>}
    /\ blocked' = ~ok
    /\ UNCHANGED <<endVars, stageVars, exclusive, expVars, queueVars,
                   clientVars, bringupReach, fwQueues>>

\* BOFree(GTT): refused while an own queue uses the buffer; gart_unbind may
\* fail after it cleared ready.
BOFree(c, s, ok) ==
    /\ Mutates(c)
    /\ bo[c][s] = "bound"
    /\ \A q \in OwnQueues(c) : s \notin qBufs[q]
    /\ bo' = [bo EXCEPT ![c][s] = IF ok THEN "free" ELSE "partial"]
    /\ reach' = IF ok THEN reach \ {<<c, s>>} ELSE reach
    /\ blocked' = ~ok
    /\ UNCHANGED <<endVars, stageVars, exclusive, expVars, queueVars,
                   clientVars, bringupReach, fwQueues>>

\* AQLQueueCreate: ownership and retained are recorded before firmware is
\* asked to map; an unacknowledged map stays retained.
AQLQueueCreate(c, q, ring, meta, ok) ==
    /\ Mutates(c) /\ Ready
    /\ ring # meta /\ bo[c][ring] = "bound" /\ bo[c][meta] = "bound"
    /\ \A p \in OwnQueues(c) : {ring, meta} \cap qBufs[p] = {}
    /\ qOwner[q] = NoClient
    /\ qOwner' = [qOwner EXCEPT ![q] = c]
    /\ qBufs' = [qBufs EXCEPT ![q] = {ring, meta}]
    /\ qRetained' = IF ok THEN qRetained ELSE qRetained \cup {q}
    /\ fwQueues' = fwQueues \cup {q}
    /\ blocked' = ~ok
    /\ UNCHANGED <<endVars, stageVars, exclusive, expVars, clientVars, bo,
                   reach, bringupReach>>

\* AQLQueueDestroy (aql_queue_close): an unacknowledged unmap stays retained.
AQLQueueDestroy(c, q, ok) ==
    /\ Mutates(c)
    /\ qOwner[q] = c /\ q \notin qRetained
    /\ qOwner' = IF ok THEN [qOwner EXCEPT ![q] = NoClient] ELSE qOwner
    /\ qBufs' = IF ok THEN [qBufs EXCEPT ![q] = {}] ELSE qBufs
    /\ qRetained' = IF ok THEN qRetained ELSE qRetained \cup {q}
    /\ fwQueues' = IF ok THEN fwQueues \ {q} ELSE fwQueues
    /\ blocked' = ~ok
    /\ UNCHANGED <<endVars, stageVars, exclusive, expVars, clientVars, bo,
                   reach, bringupReach>>

-----------------------------------------------------------------------------
(***************************************************************************)
(* AtomicRequesterExperiment: admission belongs to the handler, which runs *)
(* even while the session is blocked when it is asked to restore.          *)
(***************************************************************************)

ExperimentAdmits(c) ==
    /\ life[c] = "open" /\ ~stopping
    /\ c \in claimed /\ pciOpen /\ Ready
    /\ CanReset(c) /\ c \notin mapped /\ irq[c] = "none"
    /\ Idle /\ submission' = "none"
    /\ \A q \in Queues : qOwner[q] = NoClient

\* outcome: "on"; "unsure" (owner recorded, write not verified); "off"
\* (begin() failed before recording an owner: exclusivity is given back).
ExperimentEnable(c, outcome) ==
    /\ ExperimentAdmits(c) /\ ~blocked /\ expOwner = NoClient
    /\ exclusive' = IF outcome = "off" THEN exclusive ELSE c
    /\ expOwner' = IF outcome = "off" THEN NoClient ELSE c
    /\ expAcquired' = (outcome # "off" /\ exclusive # c)
    /\ blocked' = (outcome = "unsure")
    /\ UNCHANGED <<endVars, pciVars, stageVars, initClient, participants,
                   claimed, queueVars, clientVars, bo, deviceVars>>

ExperimentDisable(c, ok) ==
    /\ ExperimentAdmits(c) /\ expOwner = c
    /\ exclusive' = IF ok /\ expAcquired THEN NoClient ELSE exclusive
    /\ expOwner' = IF ok THEN NoClient ELSE expOwner
    /\ expAcquired' = (expAcquired /\ ~ok)
    /\ blocked' = (blocked \/ ~ok)
    /\ UNCHANGED <<endVars, pciVars, stageVars, initClient, participants,
                   claimed, queueVars, clientVars, bo, deviceVars>>

-----------------------------------------------------------------------------
(***************************************************************************)
(* Reset and teardown.                                                     *)
(***************************************************************************)
\* mac_amdgpu_quiesce_for_shutdown succeeded: bus mastering verified off,
\* transactions drained, FLR done and verified.
DeviceReset ==
    /\ reach' = {} /\ bringupReach' = FALSE /\ fwQueues' = {}

\* It failed in some phase: bus mastering may be off, unchanged, or even
\* back on after an FLR whose restored configuration did not verify.
DeviceUncertain == UNCHANGED deviceVars

\* mac_amdgpu_release_client_storage for the clients in S.
ReleaseStorage(S) ==
    bo' = [c \in Clients |-> IF c \in S THEN NoBuffers ELSE bo[c]]

\* bringup_release_resources: also forgets every queue slot and the stage.
ReleaseBringup ==
    /\ reached' = "None" /\ bringup' = FALSE
    /\ qOwner' = [q \in Queues |-> NoClient]
    /\ qBufs' = [q \in Queues |-> {}]
    /\ qRetained' = {}

\* shutdown_gpu's checks before it touches anything.
ShutdownAdmits(c) ==
    /\ life[c] = "open" /\ ~stopping
    /\ CanReset(c) /\ c \notin mapped /\ irq[c] \notin {"live", "stuck"}
    /\ AttachAllowed(c)

\* Mutant: blocks the session only once PCI could be opened.
ShutdownFailsUnblocked(c, open) ==
    /\ ShutdownAdmits(c)
    /\ pciOpen => open
    /\ CountAttach(c) /\ initClient' = AttachedInit(c)
    /\ blocked' = open
    /\ pciOpen' = open
    /\ IF open THEN busMaster' \in BOOLEAN ELSE busMaster' = busMaster
    /\ DeviceUncertain
    /\ UNCHANGED <<endVars, stageVars, exclusive, expVars, submission,
                   queueVars, clientVars, bo>>

\* ShutdownGPU that cannot reopen PCI, or whose quiesce fails: the caller
\* stays attached, everything is retained and the session is blocked.
ShutdownFails(c, open) ==
    /\ ShutdownAdmits(c)
    /\ pciOpen => open
    /\ CountAttach(c) /\ initClient' = AttachedInit(c)
    /\ blocked' = TRUE
    /\ pciOpen' = open
    /\ IF open THEN busMaster' \in BOOLEAN ELSE busMaster' = busMaster
    /\ DeviceUncertain
    /\ UNCHANGED <<endVars, stageVars, exclusive, expVars, submission,
                   queueVars, clientVars, bo>>

\* ShutdownGPU through phase 6: everything of the session is released.
ShutdownGPU(c) ==
    /\ ShutdownAdmits(c)
    /\ DeviceReset
    /\ pciOpen' = FALSE /\ busMaster' = FALSE
    /\ participants' = IF c \in claimed THEN participants - 1 ELSE participants
    /\ claimed' = claimed \ {c}
    /\ initClient' = NoClient /\ exclusive' = NoClient
    /\ expOwner' = NoClient /\ expAcquired' = FALSE
    /\ submission' = "none"
    /\ ReleaseStorage(Quarantined \cup {c})
    /\ life' = [d \in Clients |-> IF d \in Quarantined THEN "absent" ELSE life[d]]
    /\ ReleaseBringup
    /\ blocked' = FALSE
    /\ UNCHANGED <<endVars, mapped, irq>>

\* MacAMDGPU::Stop.  Only an active experiment needs the quiesce; Close
\* itself turns bus mastering off.
DriverStop(ok) ==
    /\ ~stopping
    /\ stopping' = TRUE
    /\ pciOpen' = FALSE /\ busMaster' = FALSE
    /\ IF pciOpen /\ expOwner # NoClient /\ ok
         THEN DeviceReset /\ expOwner' = NoClient /\ expAcquired' = FALSE
         ELSE UNCHANGED <<deviceVars, expVars>>
    /\ blocked' = (blocked \/ (pciOpen /\ expOwner # NoClient /\ ~ok))
    /\ UNCHANGED <<freed, stageVars, sessionVars, submission, queueVars,
                   clientVars, bo>>

\* UserClient::Stop: no more RPCs; every interrupt source is asked to drain.
\* A source that accepts neither Cancel nor SetEnable stays forever.
StopClient(c, accepts) ==
    /\ life[c] = "open"
    /\ life' = [life EXCEPT ![c] = "stopping"]
    /\ irq' = IF irq[c] = "live" /\ ~accepts THEN [irq EXCEPT ![c] = "stuck"]
                                             ELSE irq
    /\ UNCHANGED <<endVars, pciVars, blocked, stageVars, sessionVars, expVars,
                   submission, queueVars, mapped, bo, deviceVars>>

\* The last source's callback: stop_source_drained counts down to zero.
SourcesDrained(c) ==
    /\ life[c] = "stopping" /\ irq[c] = "live"
    /\ irq' = [irq EXCEPT ![c] = "queue"]
    /\ UNCHANGED <<endVars, pciVars, blocked, stageVars, sessionVars, expVars,
                   submission, queueVars, life, mapped, bo, deviceVars>>

\* What every FinishStop does first: no interrupt left, session left.
FinishStop(c) ==
    /\ life[c] = "stopping" /\ irq[c] \in {"none", "queue"}
    /\ irq' = [irq EXCEPT ![c] = "none"]
    /\ mapped' = mapped \ {c}
    /\ Detach(c)
    /\ UNCHANGED endVars

\* The last participant closes: reset, Close in any case.  After a failed
\* reset the storage joins the quarantine and the session is blocked.
FinishStopLast(c, ok) ==
    /\ FinishStop(c)
    /\ c \in claimed /\ pciOpen /\ participants' = 0
    /\ pciOpen' = FALSE /\ busMaster' = FALSE
    /\ blocked' = ~ok
    /\ IF ok
         THEN /\ DeviceReset
              /\ submission' = "none"
              /\ ReleaseStorage(Quarantined \cup {c})
              /\ life' = [d \in Clients |-> IF d \in Quarantined \cup {c}
                                              THEN "absent" ELSE life[d]]
              /\ expOwner' = NoClient /\ expAcquired' = FALSE
              /\ ReleaseBringup
         ELSE /\ DeviceUncertain
              /\ life' = [life EXCEPT ![c] = "quarantined"]
              /\ UNCHANGED <<submission, bo, expVars, stageVars, queueVars>>

\* Another participant remains: no reset.  Uncertain work quarantines the
\* closing client's storage and blocks everyone.
FinishStopQuarantines(c) ==
    /\ FinishStop(c)
    /\ c \in claimed /\ pciOpen /\ participants' # 0
    /\ blocked \/ ~Idle
    /\ Poll
    /\ blocked' = TRUE
    /\ life' = [life EXCEPT ![c] = "quarantined"]
    /\ UNCHANGED <<pciVars, stageVars, expVars, queueVars, bo, deviceVars>>

\* retire_client_queues, then retire_client_storage: queues in `closed' were
\* unmapped and buffers in `unbound' were unmapped before the first failure.
\* Only complete retirement releases the client.
FinishStopRetires(c, closed, unbound) ==
    LET inUse == {s \in Slots : bo[c][s] # "free"}
        queuesGone == closed = OwnQueues(c)
        gone == queuesGone /\ unbound = inUse
    IN
    /\ FinishStop(c)
    /\ c \in claimed /\ pciOpen /\ participants' # 0
    /\ ~blocked /\ Idle /\ submission' = "none"
    /\ closed \subseteq OwnQueues(c)
    /\ unbound \subseteq inUse
    /\ ~queuesGone => unbound = {}
    /\ qOwner' = [q \in Queues |-> IF q \in closed THEN NoClient ELSE qOwner[q]]
    /\ qBufs' = [q \in Queues |-> IF q \in closed THEN {} ELSE qBufs[q]]
    /\ fwQueues' = fwQueues \ closed
    /\ IF queuesGone THEN qRetained' = qRetained
       ELSE \E q \in OwnQueues(c) \ closed : qRetained' = qRetained \cup {q}
    /\ reach' = reach \ {<<c, s>> : s \in unbound}
    /\ IF queuesGone /\ ~gone
         THEN \E f \in inUse \ unbound :
                bo' = [bo EXCEPT ![c] = [s \in Slots |->
                         IF s \in unbound THEN "free"
                         ELSE IF s = f THEN "partial" ELSE bo[c][s]]]
         ELSE bo' = IF gone THEN [bo EXCEPT ![c] = NoBuffers] ELSE bo
    /\ life' = [life EXCEPT ![c] = IF gone THEN "absent" ELSE "quarantined"]
    /\ blocked' = ~gone
    /\ UNCHANGED <<pciVars, stageVars, expVars, bringupReach>>

\* Mutant: handles observers only, not participants of a closed device.
FinishStopObserverOnly(c) ==
    /\ FinishStop(c)
    /\ c \notin claimed
    /\ ReleaseStorage({c})
    /\ life' = [life EXCEPT ![c] = "absent"]
    /\ UNCHANGED <<pciVars, blocked, stageVars, expVars, submission, queueVars,
                   deviceVars>>

\* Not a participant, or PCI is already closed: plain release.
FinishStopDetached(c) ==
    /\ FinishStop(c)
    /\ ~(c \in claimed /\ pciOpen)
    /\ ReleaseStorage({c})
    /\ life' = [life EXCEPT ![c] = "absent"]
    /\ UNCHANGED <<pciVars, blocked, stageVars, expVars, submission, queueVars,
                   deviceVars>>

\* MacAMDGPU::free: every client retained the driver until its FinishStop.
FreeDriver ==
    /\ stopping /\ ~freed
    /\ \A c \in Clients : life[c] \in {"absent", "quarantined"}
    /\ freed' = TRUE
    /\ ReleaseStorage(Quarantined)
    /\ life' = [c \in Clients |-> "absent"]
    /\ ReleaseBringup
    /\ UNCHANGED <<stopping, pciVars, blocked, sessionVars, expVars,
                   submission, mapped, irq, deviceVars>>

ClientCall(c) ==
    \/ OpenClient(c)
    \/ Attach(c)
    \/ \E stage \in Stages, ok, dirty \in BOOLEAN : InitDevice(c, stage, ok, dirty)
    \/ ResetDevice(c)
    \/ \E got \in BOOLEAN : MapBAR(c, got)
    \/ \E got \in IRQs : SetupInterrupts(c, got)
    \/ \E began \in Submissions : SubmitIB(c, began)
    \/ DispatchFails(c)
    \/ \E s \in Slots, ok \in BOOLEAN : BOAlloc(c, s, ok) \/ BOFree(c, s, ok)
    \/ \E q \in Queues, ring, meta \in Slots, ok \in BOOLEAN :
          AQLQueueCreate(c, q, ring, meta, ok)
    \/ \E q \in Queues, ok \in BOOLEAN : AQLQueueDestroy(c, q, ok)
    \/ \E outcome \in {"on", "unsure", "off"} : ExperimentEnable(c, outcome)
    \/ \E ok \in BOOLEAN : ExperimentDisable(c, ok)
    \/ \E open \in BOOLEAN : ShutdownFails(c, open)
    \/ ShutdownGPU(c)

\* The callback that completes a client's Stop, whichever way it goes.
FinishesStop(c) ==
    \/ \E ok \in BOOLEAN : FinishStopLast(c, ok)
    \/ FinishStopQuarantines(c)
    \/ \E closed \in SUBSET Queues, unbound \in SUBSET Slots :
          FinishStopRetires(c, closed, unbound)
    \/ FinishStopDetached(c)

ClientClose(c) ==
    \/ \E accepts \in BOOLEAN : StopClient(c, accepts)
    \/ SourcesDrained(c)
    \/ FinishesStop(c)

Next ==
    \/ \E c \in Clients : ClientCall(c) \/ ClientClose(c)
    \/ FenceArrives
    \/ \E ok \in BOOLEAN : DriverStop(ok)
    \/ FreeDriver

Spec == Init /\ [][Next]_vars

(***************************************************************************)
(* Fairness the platform provides: an accepted Cancel eventually calls     *)
(* back, a block on the serial queue eventually runs, IOKit stops the      *)
(* clients of a terminated service and frees what nobody retains.          *)
(* Nothing is assumed of applications, of the GPU, or of any outcome.      *)
(***************************************************************************)
Fairness ==
    /\ \A c \in Clients : /\ WF_vars(SourcesDrained(c))
                          /\ WF_vars(FinishesStop(c))
                          /\ WF_vars(stopping /\ \E accepts \in BOOLEAN :
                                                    StopClient(c, accepts))
    /\ WF_vars(FreeDriver)

-----------------------------------------------------------------------------
(***************************************************************************)
(* Properties.                                                             *)
(***************************************************************************)
\* Every variable keeps its type.
TypeOK ==
    /\ stopping \in BOOLEAN /\ freed \in BOOLEAN
    /\ pciOpen \in BOOLEAN /\ busMaster \in BOOLEAN
    /\ blocked \in BOOLEAN
    /\ reached \in Stages /\ bringup \in BOOLEAN
    /\ initClient \in Owners /\ exclusive \in Owners
    /\ participants \in Nat /\ claimed \in SUBSET Clients
    /\ expOwner \in Owners /\ expAcquired \in BOOLEAN
    /\ submission \in Submissions
    /\ qOwner \in [Queues -> Owners]
    /\ qBufs \in [Queues -> SUBSET Slots]
    /\ qRetained \in SUBSET Queues
    /\ life \in [Clients -> Lives]
    /\ mapped \in SUBSET Clients /\ irq \in [Clients -> IRQs]
    /\ bo \in [Clients -> [Slots -> BOStates]]
    /\ reach \in SUBSET (Clients \X Slots)
    /\ bringupReach \in BOOLEAN
    /\ fwQueues \in SUBSET Queues

\* The participants counter that decides who resets the GPU (FinishStop,
\* canReset) is exactly the number of attached clients.
SessionCount == participants = Cardinality(claimed)

\* Only live clients take part, and bootstrap and exclusive ownership never
\* outlive their client: a dead participant or owner would lock every later
\* client out of attach() and of ShutdownGPU.
OwnersAttached ==
    /\ \A c \in claimed : life[c] \in {"open", "stopping"}
    /\ initClient \in claimed \cup {NoClient}
    /\ exclusive \in claimed \cup {NoClient}

\* While one client holds exclusive ownership nobody else participates, and
\* while the GPU is not fully brought up only the bootstrap client does.
SoleParticipant ==
    /\ exclusive # NoClient => claimed = {exclusive}
    /\ reached # "SDMAInit" => claimed \subseteq {initClient}

\* Who takes part in a session, and who owns it, is always known exactly.
OwnershipExact == SessionCount /\ OwnersAttached /\ SoleParticipant

\* Raw hardware access (a mapped BAR, live interrupt sources, a pending raw
\* submission) implies exclusive ownership, unless the session is already
\* blocked for reset.  The requester experiment may not give it away.
RawAccessExclusive ==
    /\ \A c \in Clients : c \in mapped \/ irq[c] \in {"live", "stuck"}
                            => exclusive = c
    /\ submission \in {"inflight", "stuck"}
         => exclusive # NoClient \/ blocked \/ stopping

\* Buffers and bring-up storage the device may still use are allocated, and
\* a queue firmware may be running has both its buffers.
BackingHeld ==
    /\ \A c \in Clients, s \in Slots : <<c, s>> \in reach => bo[c][s] # "free"
    /\ bringupReach => bringup
    /\ \A q \in fwQueues : /\ qOwner[q] \in Clients
                           /\ \A s \in qBufs[q] : bo[qOwner[q]][s] # "free"

\* The device can never write memory that was given back: while it may
\* master the bus, everything it may reach is still held.
NoDMAToFreed == busMaster => BackingHeld

\* A closed client's storage is never lost track of: what a table still
\* holds belongs to an attached client of an open device, to the
\* quarantine, or to a driver that is being removed.
StorageAccounted ==
    \A c \in Clients :
        bo[c] # NoBuffers \/ OwnQueues(c) # {}
          => (c \in claimed /\ pciOpen) \/ life[c] = "quarantined" \/ stopping

\* A blocked session is unblocked only by a verified reset, after which the
\* device may reach nothing, bus mastering is off and no client is attached.
\* Quarantined storage is released only by such a reset or when the driver
\* object itself is freed after PCI was closed.
RecoveryByReset ==
    [][/\ blocked /\ ~blocked' => /\ reach' = {} /\ ~bringupReach' /\ fwQueues' = {}
                                  /\ ~busMaster' /\ claimed' = {}
       /\ \A c \in Clients :
            life[c] = "quarantined" /\ life'[c] # "quarantined"
              => (reach' = {} /\ fwQueues' = {}) \/ (freed' /\ ~busMaster')]_vars

\* A reset of the session never takes the GPU from a client that is still
\* attached and did not ask for it.
NoForeignReset ==
    [][reached # "None" /\ reached' = "None" =>
         \/ Cardinality(claimed) <= 1 /\ claimed' = {}
         \/ freed']_vars

\* What only a reset may do, and what a reset may never do: FinishStop, ShutdownGPU and the removal
\* of the driver, in whatever order clients come, fail and leave.
ResetsRecover == RecoveryByReset /\ NoForeignReset

\* The inductive invariant behind the safety properties.  It adds that bus
\* mastering needs an open device, that a stopping driver has closed it, and
\* that clients are attached to a closed device only once nobody can use it.
OpenDiscipline ==
    /\ busMaster => pciOpen
    /\ stopping => ~pciOpen
    /\ claimed # {} => pciOpen \/ blocked \/ stopping

SessionInv ==
    /\ TypeOK /\ SessionCount /\ OwnersAttached /\ SoleParticipant
    /\ RawAccessExclusive /\ OpenDiscipline
    /\ BackingHeld \/ stopping
    /\ StorageAccounted

\* A client's Stop completes unless one of its interrupt sources refused
\* both ways of draining, whatever the other clients and the driver do.
StopCompletes ==
    \A c \in Clients : life[c] = "stopping" ~> life[c] # "stopping" \/ irq[c] = "stuck"

\* Removing the driver terminates: the driver object is freed, unless a
\* source that cannot drain keeps its client and therefore the driver alive.
RemovalCompletes ==
    stopping ~> freed \/ \E c \in Clients : irq[c] = "stuck"

\* Stop of a client and Stop of the driver both come to their end.
StopsComplete == StopCompletes /\ RemovalCompletes
=============================================================================
