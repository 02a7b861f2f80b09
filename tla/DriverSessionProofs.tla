------------------------ MODULE DriverSessionProofs ------------------------
(***************************************************************************)
(* SessionInv is an inductive invariant of DriverSession, for any set of   *)
(* clients, buffer slots and queues.  The argument has two parts.          *)
(*   1. The counter `participants' is the number of attached clients, so   *)
(*      a comparison of it with 0 or 1 (canReset, claimExclusive, the last *)
(*      FinishStop) says who the attached clients are.                     *)
(*   2. Hence every reset that releases storage is a reset nobody else     *)
(*      uses, and every release without a reset finds nothing to release   *)
(*      that the device may still reach (StorageAccounted).                *)
(***************************************************************************)
EXTENDS DriverSession, FiniteSetTheorems, TLAPS

\* Initially the invariant holds.
LEMMA InitInv == Init => SessionInv
<1> SUFFICES ASSUME Init PROVE SessionInv
  OBVIOUS
<1>1. TypeOK
  <2>1. bo \in [Clients -> [Slots -> BOStates]]
    BY DEF Init, BOStates, NoBuffers
  <2>2. /\ life \in [Clients -> Lives] /\ irq \in [Clients -> IRQs]
        /\ qOwner \in [Queues -> Owners] /\ qBufs \in [Queues -> SUBSET Slots]
    BY DEF Init, Lives, IRQs, Owners
  <2>3. reach \in SUBSET (Clients \X Slots)
    BY DEF Init
  <2> QED
    BY <2>1, <2>2, <2>3 DEF Init, TypeOK, Stages, Owners, Submissions
<1>2. SessionCount
  BY FS_EmptySet DEF Init, SessionCount
<1>3. OwnersAttached /\ SoleParticipant /\ OpenDiscipline
  BY DEF Init, OwnersAttached, SoleParticipant, OpenDiscipline
<1>4. RawAccessExclusive
  BY DEF Init, RawAccessExclusive
<1>5. BackingHeld
  BY DEF Init, BackingHeld
<1>6. StorageAccounted
  BY NoClientAssumption DEF Init, StorageAccounted, OwnQueues
<1> QED
  BY <1>1, <1>2, <1>3, <1>4, <1>5, <1>6 DEF SessionInv

-----------------------------------------------------------------------------
(***************************************************************************)
(* Counting the session's participants.                                    *)
(***************************************************************************)
\* attach() keeps the counter equal to the number of attached clients.
LEMMA CountAttachInv ==
  ASSUME TypeOK, SessionCount, NEW c \in Clients, CountAttach(c)
  PROVE  /\ participants' \in Nat /\ claimed' \in SUBSET Clients
         /\ participants' = Cardinality(claimed')
<1>1. IsFiniteSet(claimed)
  BY FS_Subset, FiniteAssumption DEF TypeOK
<1>2. CASE c \in claimed
  <2>1. claimed' = claimed
    BY <1>2 DEF CountAttach
  <2> QED
    BY <1>2, <2>1 DEF CountAttach, TypeOK, SessionCount
<1>3. CASE c \notin claimed
  <2>1. Cardinality(claimed \cup {c}) = Cardinality(claimed) + 1
    BY <1>1, <1>3, FS_AddElement
  <2> QED
    BY <1>3, <2>1 DEF CountAttach, TypeOK, SessionCount
<1> QED
  BY <1>2, <1>3

\* detach() does too, for participants and for observers.
LEMMA DetachInv ==
  ASSUME TypeOK, SessionCount, NEW c \in Clients,
         participants' = IF c \in claimed THEN participants - 1 ELSE participants,
         claimed' = claimed \ {c}
  PROVE  /\ participants' \in Nat /\ claimed' \in SUBSET Clients
         /\ participants' = Cardinality(claimed')
<1>1. IsFiniteSet(claimed)
  BY FS_Subset, FiniteAssumption DEF TypeOK
<1>2. /\ IsFiniteSet(claimed \ {c})
      /\ Cardinality(claimed \ {c}) = IF c \in claimed THEN Cardinality(claimed) - 1
                                      ELSE Cardinality(claimed)
  BY <1>1, FS_RemoveElement
<1>3. Cardinality(claimed \ {c}) \in Nat
  BY <1>2, FS_CardinalityType
<1> QED
  BY <1>2, <1>3 DEF TypeOK, SessionCount

\* A set of clients with one element is that element's singleton.
LEMMA OneParticipant ==
  ASSUME NEW S \in SUBSET Clients, NEW c \in S, Cardinality(S) = 1
  PROVE  S = {c}
<1>1. IsFiniteSet(S)
  BY FS_Subset, FiniteAssumption
<1>2. PICK d : S = {d}
  BY <1>1, FS_Singleton
<1> QED
  BY <1>2

\* A set of clients with no element is empty.
LEMMA NoParticipant ==
  ASSUME NEW S \in SUBSET Clients, Cardinality(S) = 0
  PROVE  S = {}
<1>1. IsFiniteSet(S)
  BY FS_Subset, FiniteAssumption
<1> QED
  BY <1>1, FS_EmptySet

\* canReset(c) really means that nobody but c takes part.
LEMMA CanResetSole ==
  ASSUME TypeOK, SessionCount, NEW c \in Clients, CanReset(c)
  PROVE  claimed \subseteq {c}
<1>1. CASE c \in claimed
  <2>1. Cardinality(claimed) = 1 /\ claimed \in SUBSET Clients
    BY <1>1 DEF CanReset, TypeOK, SessionCount
  <2> QED
    BY <1>1, <2>1, OneParticipant
<1>2. CASE c \notin claimed
  <2>1. Cardinality(claimed) = 0 /\ claimed \in SUBSET Clients
    BY <1>2 DEF CanReset, TypeOK, SessionCount
  <2> QED
    BY <2>1, NoParticipant
<1> QED
  BY <1>1, <1>2

\* claimExclusive(c) succeeds only for the sole participant.
LEMMA MayClaimExclusiveSole ==
  ASSUME TypeOK, SessionCount, NEW c \in Clients, CountAttach(c), MayClaimExclusive(c)
  PROVE  claimed' = {c}
<1>1. c \in claimed' /\ claimed' \in SUBSET Clients /\ Cardinality(claimed') = 1
  BY CountAttachInv DEF CountAttach, MayClaimExclusive
<1> QED
  BY <1>1, OneParticipant

-----------------------------------------------------------------------------
(***************************************************************************)
(* What admission alone does to the session: every admitted call begins    *)
(* with it, so its effect on the invariant is proved once.                 *)
(***************************************************************************)
Joined(c) ==
    /\ participants' \in Nat /\ claimed' \in SUBSET Clients
    /\ initClient' \in Owners /\ exclusive' \in Owners
    /\ pciOpen' = TRUE /\ busMaster' \in BOOLEAN
    /\ c \in claimed' /\ claimed \subseteq claimed'
    /\ exclusive' = exclusive \/ (exclusive' = c /\ exclusive = NoClient)
    /\ SessionCount' /\ OwnersAttached' /\ SoleParticipant' /\ OpenDiscipline'

\* An admitted call leaves a well-formed session with its caller attached.
LEMMA Admitted ==
  ASSUME SessionInv, NEW c \in Clients, Admits(c), CountAttach(c), OpenPCI,
         initClient' = AttachedInit(c), UNCHANGED <<stopping, reached, life>>,
         exclusive' = exclusive \/ (MayClaimExclusive(c) /\ exclusive' = c)
  PROVE  Joined(c)
<1>1. /\ participants' \in Nat /\ claimed' \in SUBSET Clients /\ SessionCount'
      /\ c \in claimed' /\ claimed \subseteq claimed'
  BY CountAttachInv DEF SessionInv, SessionCount, CountAttach
<1>2. /\ initClient' \in Owners /\ exclusive' \in Owners
      /\ pciOpen' = TRUE /\ busMaster' \in BOOLEAN
  BY DEF SessionInv, TypeOK, Owners, AttachedInit, OpenPCI
<1>3. exclusive' = exclusive \/ (exclusive' = c /\ exclusive = NoClient)
  BY DEF MayClaimExclusive
<1>4. OwnersAttached'
  BY <1>1, <1>3 DEF SessionInv, OwnersAttached, AttachedInit, Admits, CountAttach
<1>5. claimed' = claimed \cup {c}
  BY DEF CountAttach
<1>6. (exclusive # NoClient => claimed = {exclusive})'
  <2>1. CASE exclusive' = exclusive
    BY <2>1, <1>5 DEF Admits, AttachAllowed, SessionInv, SoleParticipant
  <2>2. CASE MayClaimExclusive(c) /\ exclusive' = c
    BY <2>2, MayClaimExclusiveSole DEF SessionInv
  <2> QED
    BY <2>1, <2>2
<1>7. (reached # "SDMAInit" => claimed \subseteq {initClient})'
  BY <1>5, NoClientAssumption DEF Admits, AttachAllowed, AttachedInit, Ready,
    SessionInv, TypeOK, SoleParticipant
<1>8. OpenDiscipline'
  BY <1>2 DEF Admits, OpenDiscipline, SessionInv
<1> QED
  BY <1>1, <1>2, <1>3, <1>4, <1>6, <1>7, <1>8 DEF Joined, SoleParticipant

\* A finished Stop leaves a well-formed session without its client.
Left(c) ==
    /\ participants' \in Nat /\ claimed' \in SUBSET Clients
    /\ initClient' \in Owners /\ exclusive' \in Owners
    /\ mapped' \in SUBSET Clients /\ irq' \in [Clients -> IRQs]
    /\ participants' = Cardinality(claimed')
    /\ claimed' = claimed \ {c}
    /\ initClient' \in claimed' \cup {NoClient}
    /\ exclusive' \in claimed' \cup {NoClient}
    /\ exclusive' # NoClient => claimed' = {exclusive'}
    /\ reached # "SDMAInit" => claimed' \subseteq {initClient'}
    /\ exclusive' = IF exclusive = c THEN NoClient ELSE exclusive
    /\ \A d \in Clients : d \in mapped' \/ irq'[d] \in {"live", "stuck"}
                            => exclusive' = d
    /\ participants' = 0 => claimed' = {}

\* FinishStop's common part establishes Left: the counter, the owners and the
\* raw-access rule all follow the client out.
LEMMA Finished ==
  ASSUME SessionInv, NEW c \in Clients, FinishStop(c)
  PROVE  Left(c)
<1>1. /\ participants' \in Nat /\ claimed' \in SUBSET Clients
      /\ participants' = Cardinality(claimed') /\ claimed' = claimed \ {c}
  BY DetachInv DEF SessionInv, FinishStop, Detach
<1>2. /\ initClient' \in Owners /\ exclusive' \in Owners
      /\ mapped' \in SUBSET Clients /\ irq' \in [Clients -> IRQs]
      /\ exclusive' = IF exclusive = c THEN NoClient ELSE exclusive
  BY DEF SessionInv, TypeOK, FinishStop, Detach, Owners, IRQs
<1>3. /\ initClient' \in claimed' \cup {NoClient}
      /\ exclusive' \in claimed' \cup {NoClient}
  BY <1>1 DEF SessionInv, OwnersAttached, FinishStop, Detach
<1>4. /\ exclusive' # NoClient => claimed' = {exclusive'}
      /\ reached # "SDMAInit" => claimed' \subseteq {initClient'}
  BY <1>1 DEF SessionInv, SoleParticipant, FinishStop, Detach
<1>5. \A d \in Clients : d \in mapped' \/ irq'[d] \in {"live", "stuck"}
                           => exclusive' = d
  BY DEF SessionInv, TypeOK, RawAccessExclusive, FinishStop, Detach
<1>6. participants' = 0 => claimed' = {}
  BY <1>1, NoParticipant
<1> QED
  BY <1>1, <1>2, <1>3, <1>4, <1>5, <1>6 DEF Left

-----------------------------------------------------------------------------
(***************************************************************************)
(* One lemma per action.                                                   *)
(***************************************************************************)

\* A new client owns nothing, so it disturbs only its own life.
LEMMA OpenClientInv ==
  ASSUME SessionInv, NEW c \in Clients, OpenClient(c)
  PROVE  SessionInv'
<1> USE DEF endVars, pciVars, stageVars, sessionVars, expVars, queueVars, clientVars,
           deviceVars
<1>1. TypeOK'
  BY DEF SessionInv, TypeOK, Stages, Owners, Submissions, Lives, IRQs,
    BOStates, NoBuffers, OpenClient, Ready
<1>2. SessionCount' /\ OwnersAttached' /\ SoleParticipant' /\ OpenDiscipline'
  BY DEF SessionInv, SessionCount, OwnersAttached, SoleParticipant,
    OpenDiscipline, OpenClient, Ready
<1>3. RawAccessExclusive'
  BY DEF SessionInv, RawAccessExclusive, OpenClient, Ready
<1>4. (BackingHeld \/ stopping)'
  BY DEF SessionInv, TypeOK, BackingHeld, OpenClient, Ready
<1>5. StorageAccounted'
  BY DEF SessionInv, TypeOK, StorageAccounted, OwnQueues, OpenClient, Ready
<1> QED
  BY <1>1, <1>2, <1>3, <1>4, <1>5 DEF SessionInv

\* A call that only attaches leaves every owner in place.
LEMMA AttachInv ==
  ASSUME SessionInv, NEW c \in Clients, Attach(c)
  PROVE  SessionInv'
<1> USE DEF endVars, pciVars, stageVars, sessionVars, expVars, queueVars, clientVars,
           deviceVars
<1>0. Joined(c)
  BY Admitted DEF SessionInv, Attach, EnsureOpen, stageVars, endVars,
    clientVars
<1>1. TypeOK'
  BY <1>0 DEF SessionInv, TypeOK, Stages, Owners, Submissions, Lives, IRQs,
    BOStates, NoBuffers, Attach, EnsureOpen, Poll, Joined
<1>2. SessionCount' /\ OwnersAttached' /\ SoleParticipant' /\ OpenDiscipline'
  BY <1>0 DEF SessionInv, SessionCount, OwnersAttached, SoleParticipant,
    OpenDiscipline, Attach, EnsureOpen, Poll, Joined
<1>3. RawAccessExclusive'
  BY <1>0 DEF SessionInv, RawAccessExclusive, Attach, EnsureOpen, Poll, Joined
<1>4. (BackingHeld \/ stopping)'
  BY <1>0 DEF SessionInv, TypeOK, BackingHeld, Attach, EnsureOpen, Poll,
    Joined
<1>5. StorageAccounted'
  BY <1>0 DEF SessionInv, TypeOK, StorageAccounted, OwnQueues, Attach,
    EnsureOpen, Poll, Joined
<1> QED
  BY <1>1, <1>2, <1>3, <1>4, <1>5 DEF SessionInv

\* Bring-up starts from nothing or continues what the bootstrap client
\* began; success hands the device to everyone.
LEMMA InitDeviceInv ==
  ASSUME SessionInv, NEW c \in Clients, NEW stage \in Stages, NEW ok \in
         BOOLEAN, NEW dirty \in BOOLEAN, InitDevice(c, stage, ok, dirty)
  PROVE  SessionInv'
<1> USE DEF endVars, pciVars, stageVars, sessionVars, expVars, queueVars, clientVars,
           deviceVars
<1>1. TypeOK'
  BY CountAttachInv DEF SessionInv, TypeOK, Stages, Owners, Submissions,
    Lives, IRQs, BOStates, NoBuffers, InitDevice, Admits, OpenPCI,
    AttachedInit
<1>2. SessionCount' /\ OwnersAttached' /\ SoleParticipant' /\ OpenDiscipline'
  <2>1. SessionCount' /\ claimed' = claimed \cup {c}
    BY CountAttachInv DEF SessionInv, SessionCount, InitDevice, CountAttach
  <2>2. OwnersAttached'
    BY <2>1 DEF SessionInv, OwnersAttached, InitDevice, AttachedInit, Admits
  <2>3. SoleParticipant'
    <3>1. (exclusive # NoClient => claimed = {exclusive})'
      BY <2>1 DEF InitDevice, Admits, AttachAllowed, SessionInv, SoleParticipant
    <3>2. (reached # "SDMAInit" => claimed \subseteq {initClient})'
      BY <2>1, NoClientAssumption DEF InitDevice, Admits, AttachAllowed,
        AttachedInit, Ready, Stages, SessionInv, TypeOK, SoleParticipant
    <3> QED
      BY <3>1, <3>2 DEF SoleParticipant
  <2>4. OpenDiscipline'
    BY DEF InitDevice, Admits, OpenPCI, OpenDiscipline, SessionInv
  <2> QED
    BY <2>1, <2>2, <2>3, <2>4
<1>3. RawAccessExclusive'
  BY DEF SessionInv, RawAccessExclusive, InitDevice, Admits, OpenPCI
<1>4. (BackingHeld \/ stopping)'
  BY DEF SessionInv, TypeOK, BackingHeld, InitDevice, Admits, OpenPCI
<1>5. StorageAccounted'
  BY DEF SessionInv, TypeOK, StorageAccounted, OwnQueues, InitDevice, Admits,
    OpenPCI, CountAttach
<1> QED
  BY <1>1, <1>2, <1>3, <1>4, <1>5 DEF SessionInv

\* A cold reset only takes reach away from the device.
LEMMA ResetDeviceInv ==
  ASSUME SessionInv, NEW c \in Clients, ResetDevice(c)
  PROVE  SessionInv'
<1> USE DEF endVars, pciVars, stageVars, sessionVars, expVars, queueVars, clientVars,
           deviceVars
<1>0. Joined(c)
  BY Admitted DEF SessionInv, ResetDevice, Mutates, EnsureOpen, stageVars,
    endVars, clientVars
<1>1. TypeOK'
  BY <1>0 DEF SessionInv, TypeOK, Stages, Owners, Submissions, Lives, IRQs,
    BOStates, NoBuffers, ResetDevice, Mutates, EnsureOpen, Joined
<1>2. SessionCount' /\ OwnersAttached' /\ SoleParticipant' /\ OpenDiscipline'
  BY <1>0 DEF SessionInv, SessionCount, OwnersAttached, SoleParticipant,
    OpenDiscipline, ResetDevice, Mutates, EnsureOpen, Joined
<1>3. RawAccessExclusive'
  BY <1>0 DEF SessionInv, RawAccessExclusive, ResetDevice, Mutates,
    EnsureOpen, Joined
<1>4. (BackingHeld \/ stopping)'
  BY <1>0 DEF SessionInv, TypeOK, BackingHeld, ResetDevice, Mutates,
    EnsureOpen, Joined
<1>5. StorageAccounted'
  BY <1>0 DEF SessionInv, TypeOK, StorageAccounted, OwnQueues, ResetDevice,
    Mutates, EnsureOpen, Joined
<1> QED
  BY <1>1, <1>2, <1>3, <1>4, <1>5 DEF SessionInv

\* A BAR is mapped only for the sole participant, which becomes the
\* exclusive owner.
LEMMA MapBARInv ==
  ASSUME SessionInv, NEW c \in Clients, NEW got \in BOOLEAN, MapBAR(c, got)
  PROVE  SessionInv'
<1> USE DEF endVars, pciVars, stageVars, sessionVars, expVars, queueVars, clientVars,
           deviceVars
<1>0. Joined(c)
  BY Admitted DEF SessionInv, MapBAR, Mutates, EnsureOpen, stageVars, endVars,
    clientVars
<1>1. TypeOK'
  BY <1>0 DEF SessionInv, TypeOK, Stages, Owners, Submissions, Lives, IRQs,
    BOStates, NoBuffers, MapBAR, Mutates, EnsureOpen, Joined
<1>2. SessionCount' /\ OwnersAttached' /\ SoleParticipant' /\ OpenDiscipline'
  BY <1>0 DEF SessionInv, SessionCount, OwnersAttached, SoleParticipant,
    OpenDiscipline, MapBAR, Mutates, EnsureOpen, Joined
<1>3. RawAccessExclusive'
  BY <1>0, NoClientAssumption DEF SessionInv, RawAccessExclusive, MapBAR,
    Mutates, EnsureOpen, Joined, TypeOK, Owners
<1>4. (BackingHeld \/ stopping)'
  BY <1>0 DEF SessionInv, TypeOK, BackingHeld, MapBAR, Mutates, EnsureOpen,
    Joined
<1>5. StorageAccounted'
  BY <1>0 DEF SessionInv, TypeOK, StorageAccounted, OwnQueues, MapBAR,
    Mutates, EnsureOpen, Joined
<1> QED
  BY <1>1, <1>2, <1>3, <1>4, <1>5 DEF SessionInv

\* Interrupt sources are created only for the exclusive owner.
LEMMA SetupInterruptsInv ==
  ASSUME SessionInv, NEW c \in Clients, NEW got \in IRQs, SetupInterrupts(c,
         got)
  PROVE  SessionInv'
<1> USE DEF endVars, pciVars, stageVars, sessionVars, expVars, queueVars, clientVars,
           deviceVars
<1>0. Joined(c)
  BY Admitted DEF SessionInv, SetupInterrupts, Mutates, EnsureOpen, stageVars,
    endVars, clientVars
<1>1. TypeOK'
  BY <1>0 DEF SessionInv, TypeOK, Stages, Owners, Submissions, Lives, IRQs,
    BOStates, NoBuffers, SetupInterrupts, Mutates, EnsureOpen, Joined
<1>2. SessionCount' /\ OwnersAttached' /\ SoleParticipant' /\ OpenDiscipline'
  BY <1>0 DEF SessionInv, SessionCount, OwnersAttached, SoleParticipant,
    OpenDiscipline, SetupInterrupts, Mutates, EnsureOpen, Joined
<1>3. RawAccessExclusive'
  BY <1>0, NoClientAssumption DEF SessionInv, RawAccessExclusive,
    SetupInterrupts, Mutates, EnsureOpen, Joined, TypeOK, Owners
<1>4. (BackingHeld \/ stopping)'
  BY <1>0 DEF SessionInv, TypeOK, BackingHeld, SetupInterrupts, Mutates,
    EnsureOpen, Joined
<1>5. StorageAccounted'
  BY <1>0 DEF SessionInv, TypeOK, StorageAccounted, OwnQueues,
    SetupInterrupts, Mutates, EnsureOpen, Joined
<1> QED
  BY <1>1, <1>2, <1>3, <1>4, <1>5 DEF SessionInv

\* A raw submission begins only for the exclusive owner.
LEMMA SubmitIBInv ==
  ASSUME SessionInv, NEW c \in Clients, NEW began \in Submissions, SubmitIB(c,
         began)
  PROVE  SessionInv'
<1> USE DEF endVars, pciVars, stageVars, sessionVars, expVars, queueVars, clientVars,
           deviceVars
<1>0. Joined(c)
  BY Admitted DEF SessionInv, SubmitIB, Mutates, EnsureOpen, stageVars,
    endVars, clientVars
<1>1. TypeOK'
  BY <1>0 DEF SessionInv, TypeOK, Stages, Owners, Submissions, Lives, IRQs,
    BOStates, NoBuffers, SubmitIB, EnsureOpen, Joined
<1>2. SessionCount' /\ OwnersAttached' /\ SoleParticipant' /\ OpenDiscipline'
  BY <1>0 DEF SessionInv, SessionCount, OwnersAttached, SoleParticipant,
    OpenDiscipline, SubmitIB, EnsureOpen, Joined
<1>3. RawAccessExclusive'
  BY <1>0, NoClientAssumption DEF SessionInv, RawAccessExclusive, SubmitIB,
    EnsureOpen, Joined, TypeOK, Owners
<1>4. (BackingHeld \/ stopping)'
  BY <1>0 DEF SessionInv, TypeOK, BackingHeld, SubmitIB, EnsureOpen, Joined
<1>5. StorageAccounted'
  BY <1>0 DEF SessionInv, TypeOK, StorageAccounted, OwnQueues, SubmitIB,
    EnsureOpen, Joined
<1> QED
  BY <1>1, <1>2, <1>3, <1>4, <1>5 DEF SessionInv

\* Uncertain work changes nothing but the blocked flag.
LEMMA DispatchFailsInv ==
  ASSUME SessionInv, NEW c \in Clients, DispatchFails(c)
  PROVE  SessionInv'
<1> USE DEF endVars, pciVars, stageVars, sessionVars, expVars, queueVars, clientVars,
           deviceVars
<1>0. Joined(c)
  BY Admitted DEF SessionInv, DispatchFails, Mutates, EnsureOpen, stageVars,
    endVars, clientVars
<1>1. TypeOK'
  BY <1>0 DEF SessionInv, TypeOK, Stages, Owners, Submissions, Lives, IRQs,
    BOStates, NoBuffers, DispatchFails, Mutates, EnsureOpen, Joined
<1>2. SessionCount' /\ OwnersAttached' /\ SoleParticipant' /\ OpenDiscipline'
  BY <1>0 DEF SessionInv, SessionCount, OwnersAttached, SoleParticipant,
    OpenDiscipline, DispatchFails, Mutates, EnsureOpen, Joined
<1>3. RawAccessExclusive'
  BY <1>0 DEF SessionInv, RawAccessExclusive, DispatchFails, Mutates,
    EnsureOpen, Joined
<1>4. (BackingHeld \/ stopping)'
  BY <1>0 DEF SessionInv, TypeOK, BackingHeld, DispatchFails, Mutates,
    EnsureOpen, Joined
<1>5. StorageAccounted'
  BY <1>0 DEF SessionInv, TypeOK, StorageAccounted, OwnQueues, DispatchFails,
    Mutates, EnsureOpen, Joined
<1> QED
  BY <1>1, <1>2, <1>3, <1>4, <1>5 DEF SessionInv

\* A new buffer is held before the device can reach it.
LEMMA BOAllocInv ==
  ASSUME SessionInv, NEW c \in Clients, NEW s \in Slots, NEW ok \in BOOLEAN,
         BOAlloc(c, s, ok)
  PROVE  SessionInv'
<1> USE DEF endVars, pciVars, stageVars, sessionVars, expVars, queueVars, clientVars,
           deviceVars
<1>0. Joined(c)
  BY Admitted DEF SessionInv, BOAlloc, Mutates, EnsureOpen, stageVars,
    endVars, clientVars
<1>1. TypeOK'
  BY <1>0 DEF SessionInv, TypeOK, Stages, Owners, Submissions, Lives, IRQs,
    BOStates, NoBuffers, BOAlloc, Mutates, EnsureOpen, Joined
<1>2. SessionCount' /\ OwnersAttached' /\ SoleParticipant' /\ OpenDiscipline'
  BY <1>0 DEF SessionInv, SessionCount, OwnersAttached, SoleParticipant,
    OpenDiscipline, BOAlloc, Mutates, EnsureOpen, Joined
<1>3. RawAccessExclusive'
  BY <1>0 DEF SessionInv, RawAccessExclusive, BOAlloc, Mutates, EnsureOpen,
    Joined
<1>4. (BackingHeld \/ stopping)'
  BY <1>0 DEF SessionInv, TypeOK, BackingHeld, BOAlloc, Mutates, EnsureOpen,
    Joined
<1>5. StorageAccounted'
  BY <1>0 DEF SessionInv, TypeOK, StorageAccounted, OwnQueues, BOAlloc,
    Mutates, EnsureOpen, Joined
<1> QED
  BY <1>1, <1>2, <1>3, <1>4, <1>5 DEF SessionInv

\* A buffer is given back only when its page-table entry is gone and no
\* queue uses it.
LEMMA BOFreeInv ==
  ASSUME SessionInv, NEW c \in Clients, NEW s \in Slots, NEW ok \in BOOLEAN,
         BOFree(c, s, ok)
  PROVE  SessionInv'
<1> USE DEF endVars, pciVars, stageVars, sessionVars, expVars, queueVars, clientVars,
           deviceVars
<1>0. Joined(c)
  BY Admitted DEF SessionInv, BOFree, Mutates, EnsureOpen, stageVars, endVars,
    clientVars
<1>1. TypeOK'
  BY <1>0 DEF SessionInv, TypeOK, Stages, Owners, Submissions, Lives, IRQs,
    BOStates, NoBuffers, BOFree, Mutates, EnsureOpen, Joined
<1>2. SessionCount' /\ OwnersAttached' /\ SoleParticipant' /\ OpenDiscipline'
  BY <1>0 DEF SessionInv, SessionCount, OwnersAttached, SoleParticipant,
    OpenDiscipline, BOFree, Mutates, EnsureOpen, Joined
<1>3. RawAccessExclusive'
  BY <1>0 DEF SessionInv, RawAccessExclusive, BOFree, Mutates, EnsureOpen,
    Joined
<1>4. (BackingHeld \/ stopping)'
  <2>1. ~stopping /\ BackingHeld
    BY DEF SessionInv, BOFree, Mutates, EnsureOpen, Admits
  <2>2. CASE ~ok
    BY <2>1, <2>2 DEF SessionInv, TypeOK, BackingHeld, BOFree
  <2>3. CASE ok
    <3>1. /\ \A d \in Clients, t \in Slots :
                bo'[d][t] = IF d = c /\ t = s THEN "free" ELSE bo[d][t]
          /\ reach' = reach \ {<<c, s>>}
      BY <2>3 DEF SessionInv, TypeOK, BOFree
    <3>2. \A q \in fwQueues' : /\ qOwner'[q] \in Clients
                               /\ \A t \in qBufs'[q] : bo'[qOwner'[q]][t] # "free"
      BY <2>1, <2>3, <3>1 DEF SessionInv, TypeOK, BackingHeld, BOFree, OwnQueues
    <3> QED
      BY <2>1, <3>1, <3>2 DEF BackingHeld, BOFree
  <2> QED
    BY <2>2, <2>3
<1>5. StorageAccounted'
  BY <1>0 DEF SessionInv, TypeOK, StorageAccounted, OwnQueues, BOFree,
    Mutates, EnsureOpen, Joined, NoBuffers, BOStates
<1> QED
  BY <1>1, <1>2, <1>3, <1>4, <1>5 DEF SessionInv

\* A queue is recorded with two buffers that are held.
LEMMA AQLQueueCreateInv ==
  ASSUME SessionInv, NEW c \in Clients, NEW q \in Queues, NEW ring \in Slots,
         NEW meta \in Slots, NEW ok \in BOOLEAN, AQLQueueCreate(c, q, ring,
         meta, ok)
  PROVE  SessionInv'
<1> USE DEF endVars, pciVars, stageVars, sessionVars, expVars, queueVars, clientVars,
           deviceVars
<1>0. Joined(c)
  BY Admitted DEF SessionInv, AQLQueueCreate, Mutates, EnsureOpen, stageVars,
    endVars, clientVars
<1>1. TypeOK'
  BY <1>0 DEF SessionInv, TypeOK, Stages, Owners, Submissions, Lives, IRQs,
    BOStates, NoBuffers, AQLQueueCreate, Mutates, EnsureOpen, Joined
<1>2. SessionCount' /\ OwnersAttached' /\ SoleParticipant' /\ OpenDiscipline'
  BY <1>0 DEF SessionInv, SessionCount, OwnersAttached, SoleParticipant,
    OpenDiscipline, AQLQueueCreate, Mutates, EnsureOpen, Joined
<1>3. RawAccessExclusive'
  BY <1>0 DEF SessionInv, RawAccessExclusive, AQLQueueCreate, Mutates,
    EnsureOpen, Joined
<1>4. (BackingHeld \/ stopping)'
  BY <1>0 DEF SessionInv, TypeOK, BackingHeld, AQLQueueCreate, Mutates,
    EnsureOpen, Joined
<1>5. StorageAccounted'
  BY <1>0 DEF SessionInv, TypeOK, StorageAccounted, OwnQueues, AQLQueueCreate,
    Mutates, EnsureOpen, Joined
<1> QED
  BY <1>1, <1>2, <1>3, <1>4, <1>5 DEF SessionInv

\* A queue slot is forgotten only after the unmap was acknowledged.
LEMMA AQLQueueDestroyInv ==
  ASSUME SessionInv, NEW c \in Clients, NEW q \in Queues, NEW ok \in BOOLEAN,
         AQLQueueDestroy(c, q, ok)
  PROVE  SessionInv'
<1> USE DEF endVars, pciVars, stageVars, sessionVars, expVars, queueVars, clientVars,
           deviceVars
<1>0. Joined(c)
  BY Admitted DEF SessionInv, AQLQueueDestroy, Mutates, EnsureOpen, stageVars,
    endVars, clientVars
<1>1. TypeOK'
  BY <1>0 DEF SessionInv, TypeOK, Stages, Owners, Submissions, Lives, IRQs,
    BOStates, NoBuffers, AQLQueueDestroy, Mutates, EnsureOpen, Joined
<1>2. SessionCount' /\ OwnersAttached' /\ SoleParticipant' /\ OpenDiscipline'
  BY <1>0 DEF SessionInv, SessionCount, OwnersAttached, SoleParticipant,
    OpenDiscipline, AQLQueueDestroy, Mutates, EnsureOpen, Joined
<1>3. RawAccessExclusive'
  BY <1>0 DEF SessionInv, RawAccessExclusive, AQLQueueDestroy, Mutates,
    EnsureOpen, Joined
<1>4. (BackingHeld \/ stopping)'
  BY <1>0 DEF SessionInv, TypeOK, BackingHeld, AQLQueueDestroy, Mutates,
    EnsureOpen, Joined
<1>5. StorageAccounted'
  <2>1. \A d \in Clients : OwnQueues(d)' \subseteq OwnQueues(d)
    BY NoClientAssumption DEF SessionInv, TypeOK, AQLQueueDestroy, OwnQueues
  <2> QED
    BY <1>0, <2>1 DEF SessionInv, StorageAccounted, AQLQueueDestroy, Joined
<1> QED
  BY <1>1, <1>2, <1>3, <1>4, <1>5 DEF SessionInv

\* The requester experiment makes the sole participant the exclusive owner.
LEMMA ExperimentEnableInv ==
  ASSUME SessionInv, NEW c \in Clients, NEW outcome \in {"on", "unsure",
         "off"}, ExperimentEnable(c, outcome)
  PROVE  SessionInv'
<1> USE DEF endVars, pciVars, stageVars, sessionVars, expVars, queueVars, clientVars,
           deviceVars
<1>0. claimed \subseteq {c} /\ exclusive \in {NoClient, c}
  BY CanResetSole DEF SessionInv, ExperimentEnable, ExperimentAdmits, CanReset
<1>1. TypeOK'
  BY <1>0 DEF SessionInv, TypeOK, Stages, Owners, Submissions, Lives, IRQs,
    BOStates, NoBuffers, ExperimentEnable, ExperimentAdmits
<1>2. SessionCount' /\ OwnersAttached' /\ SoleParticipant' /\ OpenDiscipline'
  BY <1>0 DEF SessionInv, SessionCount, OwnersAttached, SoleParticipant,
    OpenDiscipline, ExperimentEnable, ExperimentAdmits
<1>3. RawAccessExclusive'
  BY <1>0, NoClientAssumption DEF SessionInv, RawAccessExclusive,
    ExperimentEnable, ExperimentAdmits, TypeOK, Owners
<1>4. (BackingHeld \/ stopping)'
  BY <1>0 DEF SessionInv, TypeOK, BackingHeld, ExperimentEnable,
    ExperimentAdmits
<1>5. StorageAccounted'
  BY <1>0 DEF SessionInv, TypeOK, StorageAccounted, OwnQueues,
    ExperimentEnable, ExperimentAdmits
<1> QED
  BY <1>1, <1>2, <1>3, <1>4, <1>5 DEF SessionInv

\* Restoring gives exclusivity back only while nothing raw depends on it.
LEMMA ExperimentDisableInv ==
  ASSUME SessionInv, NEW c \in Clients, NEW ok \in BOOLEAN,
         ExperimentDisable(c, ok)
  PROVE  SessionInv'
<1> USE DEF endVars, pciVars, stageVars, sessionVars, expVars, queueVars, clientVars,
           deviceVars
<1>0. claimed \subseteq {c} /\ exclusive \in {NoClient, c}
  BY CanResetSole DEF SessionInv, ExperimentDisable, ExperimentAdmits, CanReset
<1>1. TypeOK'
  BY <1>0 DEF SessionInv, TypeOK, Stages, Owners, Submissions, Lives, IRQs,
    BOStates, NoBuffers, ExperimentDisable, ExperimentAdmits
<1>2. SessionCount' /\ OwnersAttached' /\ SoleParticipant' /\ OpenDiscipline'
  BY <1>0 DEF SessionInv, SessionCount, OwnersAttached, SoleParticipant,
    OpenDiscipline, ExperimentDisable, ExperimentAdmits
<1>3. RawAccessExclusive'
  BY <1>0, NoClientAssumption DEF SessionInv, RawAccessExclusive,
    ExperimentDisable, ExperimentAdmits, TypeOK, Owners
<1>4. (BackingHeld \/ stopping)'
  BY <1>0 DEF SessionInv, TypeOK, BackingHeld, ExperimentDisable,
    ExperimentAdmits
<1>5. StorageAccounted'
  BY <1>0 DEF SessionInv, TypeOK, StorageAccounted, OwnQueues,
    ExperimentDisable, ExperimentAdmits
<1> QED
  BY <1>1, <1>2, <1>3, <1>4, <1>5 DEF SessionInv

\* A failed shutdown attaches its caller, keeps everything and blocks the
\* session.
LEMMA ShutdownFailsInv ==
  ASSUME SessionInv, NEW c \in Clients, NEW open \in BOOLEAN, ShutdownFails(c,
         open)
  PROVE  SessionInv'
<1> USE DEF endVars, pciVars, stageVars, sessionVars, expVars, queueVars, clientVars,
           deviceVars
<1>0. claimed \subseteq {c} /\ exclusive \in {NoClient, c}
  BY CanResetSole DEF SessionInv, ShutdownFails, ShutdownAdmits, CanReset
<1>1. TypeOK'
  BY <1>0, CountAttachInv DEF SessionInv, TypeOK, Stages, Owners, Submissions,
    Lives, IRQs, BOStates, NoBuffers, ShutdownFails, ShutdownAdmits,
    DeviceUncertain, CountAttach, AttachedInit
<1>2. SessionCount' /\ OwnersAttached' /\ SoleParticipant' /\ OpenDiscipline'
  <2>1. SessionCount' /\ claimed' = {c}
    BY <1>0, CountAttachInv DEF SessionInv, SessionCount, ShutdownFails, CountAttach
  <2>2. OwnersAttached'
    BY <1>0, <2>1 DEF SessionInv, OwnersAttached, ShutdownFails, ShutdownAdmits,
      AttachedInit
  <2>3. SoleParticipant'
    BY <1>0, <2>1 DEF SessionInv, SoleParticipant, OwnersAttached, ShutdownFails,
      AttachedInit, Ready
  <2>4. OpenDiscipline'
    BY DEF SessionInv, OpenDiscipline, ShutdownFails, ShutdownAdmits, TypeOK
  <2> QED
    BY <2>1, <2>2, <2>3, <2>4
<1>3. RawAccessExclusive'
  BY <1>0 DEF SessionInv, RawAccessExclusive, ShutdownFails, ShutdownAdmits,
    DeviceUncertain
<1>4. (BackingHeld \/ stopping)'
  BY <1>0 DEF SessionInv, TypeOK, BackingHeld, ShutdownFails, ShutdownAdmits,
    DeviceUncertain
<1>5. StorageAccounted'
  BY <1>0 DEF SessionInv, TypeOK, StorageAccounted, OwnQueues, ShutdownFails,
    ShutdownAdmits, DeviceUncertain, CountAttach
<1> QED
  BY <1>1, <1>2, <1>3, <1>4, <1>5 DEF SessionInv

\* A completed shutdown resets the device, so everything of the session and
\* of the quarantine may go.
LEMMA ShutdownGPUInv ==
  ASSUME SessionInv, NEW c \in Clients, ShutdownGPU(c)
  PROVE  SessionInv'
<1> USE DEF endVars, pciVars, stageVars, sessionVars, expVars, queueVars, clientVars,
           deviceVars
<1>0. claimed \subseteq {c} /\ exclusive \in {NoClient, c}
  BY CanResetSole DEF SessionInv, ShutdownGPU, ShutdownAdmits, CanReset
<1>1. TypeOK'
  BY <1>0, DetachInv DEF SessionInv, TypeOK, Stages, Owners, Submissions,
    Lives, IRQs, BOStates, NoBuffers, ShutdownGPU, ShutdownAdmits,
    DeviceReset, ReleaseStorage, ReleaseBringup
<1>2. SessionCount' /\ OwnersAttached' /\ SoleParticipant' /\ OpenDiscipline'
  <2>1. SessionCount' /\ claimed' = {}
    BY <1>0, DetachInv DEF SessionInv, SessionCount, ShutdownGPU
  <2> QED
    BY <2>1 DEF ShutdownGPU, ShutdownAdmits, ReleaseBringup, OwnersAttached,
      SoleParticipant, OpenDiscipline
<1>3. RawAccessExclusive'
  BY <1>0, NoClientAssumption DEF SessionInv, RawAccessExclusive, ShutdownGPU,
    ShutdownAdmits, DeviceReset, ReleaseStorage, ReleaseBringup, TypeOK, IRQs
<1>4. (BackingHeld \/ stopping)'
  BY <1>0 DEF SessionInv, TypeOK, BackingHeld, ShutdownGPU, ShutdownAdmits,
    DeviceReset, ReleaseStorage, ReleaseBringup
<1>5. StorageAccounted'
  BY <1>0, NoClientAssumption DEF SessionInv, TypeOK, StorageAccounted,
    OwnQueues, ShutdownGPU, ShutdownAdmits, DeviceReset, ReleaseStorage,
    ReleaseBringup, Quarantined
<1> QED
  BY <1>1, <1>2, <1>3, <1>4, <1>5 DEF SessionInv

\* A completed submission needs no owner any more.
LEMMA FenceArrivesInv ==
  ASSUME SessionInv, FenceArrives
  PROVE  SessionInv'
<1> USE DEF endVars, pciVars, stageVars, sessionVars, expVars, queueVars, clientVars,
           deviceVars
<1>1. TypeOK'
  BY DEF SessionInv, TypeOK, Stages, Owners, Submissions, Lives, IRQs,
    BOStates, NoBuffers, FenceArrives
<1>2. SessionCount' /\ OwnersAttached' /\ SoleParticipant' /\ OpenDiscipline'
  BY DEF SessionInv, SessionCount, OwnersAttached, SoleParticipant,
    OpenDiscipline, FenceArrives
<1>3. RawAccessExclusive'
  BY DEF SessionInv, RawAccessExclusive, FenceArrives
<1>4. (BackingHeld \/ stopping)'
  BY DEF SessionInv, TypeOK, BackingHeld, FenceArrives
<1>5. StorageAccounted'
  BY DEF SessionInv, TypeOK, StorageAccounted, OwnQueues, FenceArrives
<1> QED
  BY <1>1, <1>2, <1>3, <1>4, <1>5 DEF SessionInv

\* Stop closes the device in every case.
LEMMA DriverStopInv ==
  ASSUME SessionInv, NEW ok \in BOOLEAN, DriverStop(ok)
  PROVE  SessionInv'
<1> USE DEF endVars, pciVars, stageVars, sessionVars, expVars, queueVars, clientVars,
           deviceVars
<1>1. TypeOK'
  <2>1. TypeOK /\ blocked' \in BOOLEAN
    BY DEF SessionInv, TypeOK, DriverStop
  <2>2. stopping' \in BOOLEAN /\ pciOpen' \in BOOLEAN /\ busMaster' \in BOOLEAN
    BY DEF DriverStop
  <2>3. UNCHANGED <<freed, stageVars, sessionVars, submission, queueVars, clientVars, bo>>
    BY DEF DriverStop
  <2>4. /\ reach' \in SUBSET (Clients \X Slots) /\ bringupReach' \in BOOLEAN /\ fwQueues' \in SUBSET Queues
        /\ expOwner' \in Owners /\ expAcquired' \in BOOLEAN
    BY <2>1 DEF TypeOK, DriverStop, DeviceReset, Owners
  <2> QED
    BY <2>1, <2>2, <2>3, <2>4 DEF TypeOK
<1>2. SessionCount' /\ OwnersAttached' /\ SoleParticipant' /\ OpenDiscipline'
  BY DEF SessionInv, SessionCount, OwnersAttached, SoleParticipant,
    OpenDiscipline, DriverStop, DeviceReset
<1>3. RawAccessExclusive'
  BY DEF SessionInv, RawAccessExclusive, DriverStop, DeviceReset
<1>4. (BackingHeld \/ stopping)'
  BY DEF SessionInv, TypeOK, BackingHeld, DriverStop, DeviceReset
<1>5. StorageAccounted'
  BY DEF SessionInv, TypeOK, StorageAccounted, OwnQueues, DriverStop,
    DeviceReset
<1> QED
  BY <1>1, <1>2, <1>3, <1>4, <1>5 DEF SessionInv

\* A stopping client keeps its place in the session.
LEMMA StopClientInv ==
  ASSUME SessionInv, NEW c \in Clients, NEW accepts \in BOOLEAN, StopClient(c,
         accepts)
  PROVE  SessionInv'
<1> USE DEF endVars, pciVars, stageVars, sessionVars, expVars, queueVars, clientVars,
           deviceVars
<1>1. TypeOK'
  BY DEF SessionInv, TypeOK, Stages, Owners, Submissions, Lives, IRQs,
    BOStates, NoBuffers, StopClient
<1>2. SessionCount' /\ OwnersAttached' /\ SoleParticipant' /\ OpenDiscipline'
  BY DEF SessionInv, SessionCount, OwnersAttached, SoleParticipant,
    OpenDiscipline, StopClient
<1>3. RawAccessExclusive'
  BY DEF SessionInv, RawAccessExclusive, StopClient
<1>4. (BackingHeld \/ stopping)'
  BY DEF SessionInv, TypeOK, BackingHeld, StopClient
<1>5. StorageAccounted'
  BY DEF SessionInv, TypeOK, StorageAccounted, OwnQueues, StopClient
<1> QED
  BY <1>1, <1>2, <1>3, <1>4, <1>5 DEF SessionInv

\* Drained sources need no owner any more.
LEMMA SourcesDrainedInv ==
  ASSUME SessionInv, NEW c \in Clients, SourcesDrained(c)
  PROVE  SessionInv'
<1> USE DEF endVars, pciVars, stageVars, sessionVars, expVars, queueVars, clientVars,
           deviceVars
<1>1. TypeOK'
  BY DEF SessionInv, TypeOK, Stages, Owners, Submissions, Lives, IRQs,
    BOStates, NoBuffers, SourcesDrained
<1>2. SessionCount' /\ OwnersAttached' /\ SoleParticipant' /\ OpenDiscipline'
  BY DEF SessionInv, SessionCount, OwnersAttached, SoleParticipant,
    OpenDiscipline, SourcesDrained
<1>3. RawAccessExclusive'
  BY DEF SessionInv, RawAccessExclusive, SourcesDrained
<1>4. (BackingHeld \/ stopping)'
  BY DEF SessionInv, TypeOK, BackingHeld, SourcesDrained
<1>5. StorageAccounted'
  BY DEF SessionInv, TypeOK, StorageAccounted, OwnQueues, SourcesDrained
<1> QED
  BY <1>1, <1>2, <1>3, <1>4, <1>5 DEF SessionInv

\* The last participant either leaves a reset device and no storage, or a
\* blocked session whose storage is quarantined.
LEMMA FinishStopLastInv ==
  ASSUME SessionInv, NEW c \in Clients, NEW ok \in BOOLEAN, FinishStopLast(c,
         ok)
  PROVE  SessionInv'
<1> USE DEF endVars, pciVars, stageVars, sessionVars, expVars, queueVars, clientVars,
           deviceVars
<1>0. Left(c) /\ life[c] = "stopping" /\ UNCHANGED <<stopping, freed>>
  BY Finished DEF FinishStopLast, FinishStop
<1>1. TypeOK'
  <2>1. CASE ok
    <3>1. /\ bo' \in [Clients -> [Slots -> BOStates]]
          /\ life' \in [Clients -> Lives]
      BY <2>1 DEF SessionInv, TypeOK, FinishStopLast, ReleaseStorage, NoBuffers,
        BOStates, Lives
    <3>2. qOwner' \in [Queues -> Owners] /\ qBufs' \in [Queues -> SUBSET Slots]
      BY <2>1 DEF FinishStopLast, ReleaseBringup, Owners
    <3> QED
      BY <1>0, <2>1, <3>1, <3>2 DEF SessionInv, TypeOK, FinishStopLast, Left,
        DeviceReset, ReleaseBringup, Stages, Owners, Submissions
  <2>2. CASE ~ok
    <3>1. life' \in [Clients -> Lives]
      BY <2>2 DEF SessionInv, TypeOK, FinishStopLast, Lives
    <3> QED
      BY <1>0, <2>2, <3>1 DEF SessionInv, TypeOK, FinishStopLast, Left,
        DeviceUncertain
  <2> QED
    BY <2>1, <2>2
<1>2. SessionCount' /\ OwnersAttached' /\ SoleParticipant' /\ OpenDiscipline'
  BY <1>0 DEF SessionInv, SessionCount, OwnersAttached, SoleParticipant,
    OpenDiscipline, FinishStopLast, Left, DeviceReset, DeviceUncertain,
    ReleaseStorage, ReleaseBringup, Quarantined
<1>3. RawAccessExclusive'
  BY <1>0 DEF SessionInv, RawAccessExclusive, FinishStopLast, Left,
    DeviceReset, DeviceUncertain, ReleaseStorage, ReleaseBringup, Quarantined
<1>4. (BackingHeld \/ stopping)'
  BY <1>0 DEF SessionInv, TypeOK, BackingHeld, FinishStopLast, Left,
    DeviceReset, DeviceUncertain, ReleaseStorage, ReleaseBringup, Quarantined
<1>5. StorageAccounted'
  <2>1. claimed = {c}
    BY <1>0 DEF FinishStopLast, Left
  <2>2. CASE ok
    <3>1. \A d \in Clients : OwnQueues(d)' = {}
      BY <2>2, NoClientAssumption DEF FinishStopLast, ReleaseBringup, OwnQueues
    <3>2. \A d \in Clients : bo'[d] # NoBuffers
            => d # c /\ life[d] # "quarantined" /\ bo[d] # NoBuffers
      BY <2>2 DEF SessionInv, TypeOK, FinishStopLast, ReleaseStorage, Quarantined
    <3> QED
      BY <1>0, <2>1, <3>1, <3>2 DEF SessionInv, StorageAccounted
  <2>3. CASE ~ok
    BY <1>0, <2>1, <2>3 DEF SessionInv, TypeOK, StorageAccounted, FinishStopLast,
      OwnQueues
  <2> QED
    BY <2>2, <2>3
<1> QED
  BY <1>1, <1>2, <1>3, <1>4, <1>5 DEF SessionInv

\* Uncertain storage stays held and the session is blocked.
LEMMA FinishStopQuarantinesInv ==
  ASSUME SessionInv, NEW c \in Clients, FinishStopQuarantines(c)
  PROVE  SessionInv'
<1> USE DEF endVars, pciVars, stageVars, sessionVars, expVars, queueVars, clientVars,
           deviceVars
<1>0. Left(c) /\ life[c] = "stopping" /\ UNCHANGED <<stopping, freed>>
  BY Finished DEF FinishStopQuarantines, FinishStop
<1>1. TypeOK'
  BY <1>0 DEF SessionInv, TypeOK, Stages, Owners, Submissions, Lives, IRQs,
    BOStates, NoBuffers, FinishStopQuarantines, Left, Poll
<1>2. SessionCount' /\ OwnersAttached' /\ SoleParticipant' /\ OpenDiscipline'
  BY <1>0 DEF SessionInv, SessionCount, OwnersAttached, SoleParticipant,
    OpenDiscipline, FinishStopQuarantines, Left, Poll
<1>3. RawAccessExclusive'
  BY <1>0 DEF SessionInv, RawAccessExclusive, FinishStopQuarantines, Left,
    Poll
<1>4. (BackingHeld \/ stopping)'
  BY <1>0 DEF SessionInv, TypeOK, BackingHeld, FinishStopQuarantines, Left,
    Poll
<1>5. StorageAccounted'
  BY <1>0 DEF SessionInv, TypeOK, StorageAccounted, OwnQueues,
    FinishStopQuarantines, Left, Poll
<1> QED
  BY <1>1, <1>2, <1>3, <1>4, <1>5 DEF SessionInv

\* Retiring one client of several: what is unmapped is given back, what is
\* not joins the quarantine.
LEMMA FinishStopRetiresInv ==
  ASSUME SessionInv, NEW c \in Clients, NEW closed \in SUBSET Queues, NEW
         unbound \in SUBSET Slots, FinishStopRetires(c, closed, unbound)
  PROVE  SessionInv'
<1> USE DEF endVars, pciVars, stageVars, sessionVars, expVars, queueVars, clientVars,
           deviceVars
<1>0. Left(c) /\ life[c] = "stopping" /\ UNCHANGED <<stopping, freed>>
  BY Finished DEF FinishStopRetires, FinishStop
<1>1. TypeOK'
  <2>1. /\ qOwner' \in [Queues -> Owners] /\ qBufs' \in [Queues -> SUBSET Slots]
        /\ qRetained' \in SUBSET Queues /\ fwQueues' \in SUBSET Queues
    BY DEF SessionInv, TypeOK, FinishStopRetires, OwnQueues, Owners
  <2>2. life' \in [Clients -> Lives] /\ reach' \in SUBSET (Clients \X Slots)
    BY DEF SessionInv, TypeOK, FinishStopRetires, Lives
  <2>3. bo' \in [Clients -> [Slots -> BOStates]]
    <3>1. bo \in [Clients -> [Slots -> BOStates]] /\ NoBuffers \in [Slots -> BOStates]
      BY DEF SessionInv, TypeOK, NoBuffers, BOStates
    <3>2. CASE bo' = bo \/ bo' = [bo EXCEPT ![c] = NoBuffers]
      BY <3>1, <3>2
    <3>3. CASE \E f \in Slots :
                 bo' = [bo EXCEPT ![c] = [s \in Slots |->
                          IF s \in unbound THEN "free"
                          ELSE IF s = f THEN "partial" ELSE bo[c][s]]]
      BY <3>1, <3>3 DEF BOStates
    <3> QED
      BY <3>2, <3>3 DEF FinishStopRetires
  <2> QED
    BY <1>0, <2>1, <2>2, <2>3 DEF SessionInv, TypeOK, FinishStopRetires, Left,
      Submissions
<1>2. SessionCount' /\ OwnersAttached' /\ SoleParticipant' /\ OpenDiscipline'
  BY <1>0 DEF SessionInv, SessionCount, OwnersAttached, SoleParticipant,
    OpenDiscipline, FinishStopRetires, Left
<1>3. RawAccessExclusive'
  BY <1>0 DEF SessionInv, RawAccessExclusive, FinishStopRetires, Left
<1>4. (BackingHeld \/ stopping)'
  <2> DEFINE inUse == {s \in Slots : bo[c][s] # "free"}
  <2>1. ~stopping /\ BackingHeld
    BY DEF SessionInv, FinishStopRetires, OpenDiscipline
  <2>2. \A d \in Clients, s \in Slots :
            bo'[d][s] = "free" => bo[d][s] = "free" \/ (d = c /\ s \in unbound)
    <3>1. CASE bo' = bo
      BY <3>1
    <3>2. CASE bo' = [bo EXCEPT ![c] = NoBuffers] /\ unbound = inUse
      BY <3>2 DEF SessionInv, TypeOK
    <3>3. CASE \E f \in Slots :
                 bo' = [bo EXCEPT ![c] = [s \in Slots |->
                          IF s \in unbound THEN "free"
                          ELSE IF s = f THEN "partial" ELSE bo[c][s]]]
      BY <3>3 DEF SessionInv, TypeOK
    <3> QED
      BY <3>1, <3>2, <3>3 DEF FinishStopRetires
  <2>3. \A q \in fwQueues' :
            /\ q \in fwQueues /\ qOwner'[q] = qOwner[q] /\ qBufs'[q] = qBufs[q]
            /\ qOwner[q] = c => unbound = {}
    BY DEF SessionInv, TypeOK, FinishStopRetires, OwnQueues
  <2>4. bringupReach' = bringupReach /\ bringup' = bringup
        /\ reach' = reach \ {<<c, s>> : s \in unbound}
    BY DEF FinishStopRetires
  <2>5. \A q \in fwQueues : \A s \in qBufs[q] : s \in Slots
    BY DEF SessionInv, TypeOK
  <2> HIDE DEF inUse
  <2> QED
    BY <2>1, <2>2, <2>3, <2>4, <2>5 DEF BackingHeld
<1>5. StorageAccounted'
  <2>1. \A d \in Clients : OwnQueues(d)' \subseteq OwnQueues(d)
    BY NoClientAssumption DEF SessionInv, TypeOK, FinishStopRetires, OwnQueues
  <2>2. life'[c] = "quarantined" \/ (bo'[c] = NoBuffers /\ OwnQueues(c)' = {})
    BY NoClientAssumption DEF SessionInv, TypeOK, FinishStopRetires, OwnQueues
  <2>3. \A d \in Clients : d # c => bo'[d] = bo[d] /\ life'[d] = life[d]
    BY DEF SessionInv, TypeOK, FinishStopRetires
  <2>4. pciOpen' = pciOpen
    BY DEF FinishStopRetires
  <2> QED
    BY <1>0, <2>1, <2>2, <2>3, <2>4 DEF SessionInv, StorageAccounted, Left
<1> QED
  BY <1>1, <1>2, <1>3, <1>4, <1>5 DEF SessionInv

\* A client that is not attached to an open device has nothing to give
\* back, unless the driver is already stopping.
LEMMA FinishStopDetachedInv ==
  ASSUME SessionInv, NEW c \in Clients, FinishStopDetached(c)
  PROVE  SessionInv'
<1> USE DEF endVars, pciVars, stageVars, sessionVars, expVars, queueVars, clientVars,
           deviceVars
<1>0. Left(c) /\ life[c] = "stopping" /\ UNCHANGED <<stopping, freed>>
  BY Finished DEF FinishStopDetached, FinishStop
<1>1. TypeOK'
  <2>1. /\ bo' \in [Clients -> [Slots -> BOStates]]
        /\ life' \in [Clients -> Lives]
    BY DEF SessionInv, TypeOK, FinishStopDetached, ReleaseStorage, NoBuffers,
      BOStates, Lives
  <2> QED
    BY <1>0, <2>1 DEF SessionInv, TypeOK, FinishStopDetached, Left
<1>2. SessionCount' /\ OwnersAttached' /\ SoleParticipant' /\ OpenDiscipline'
  BY <1>0 DEF SessionInv, SessionCount, OwnersAttached, SoleParticipant,
    OpenDiscipline, FinishStopDetached, Left, ReleaseStorage
<1>3. RawAccessExclusive'
  <2>1. CASE exclusive = c
    <3>1. c \in claimed
      BY <2>1, NoClientAssumption DEF SessionInv, OwnersAttached
    <3>2. blocked \/ stopping
      BY <3>1 DEF SessionInv, OpenDiscipline, FinishStopDetached
    <3> QED
      BY <1>0, <3>2 DEF RawAccessExclusive, FinishStopDetached, Left
  <2>2. CASE exclusive # c
    BY <1>0, <2>2 DEF SessionInv, RawAccessExclusive, FinishStopDetached, Left
  <2> QED
    BY <2>1, <2>2
<1>4. (BackingHeld \/ stopping)'
  <2>1. CASE stopping
    BY <1>0, <2>1
  <2>2. CASE ~stopping
    <3>1. bo[c] = NoBuffers
      BY <1>0, <2>2 DEF SessionInv, StorageAccounted, FinishStopDetached
    <3>2. bo' = bo
      BY <3>1 DEF SessionInv, TypeOK, FinishStopDetached, ReleaseStorage
    <3> QED
      BY <2>2, <3>2 DEF SessionInv, BackingHeld, FinishStopDetached
  <2> QED
    BY <2>1, <2>2
<1>5. StorageAccounted'
  BY <1>0 DEF SessionInv, TypeOK, StorageAccounted, OwnQueues,
    FinishStopDetached, Left, ReleaseStorage
<1> QED
  BY <1>1, <1>2, <1>3, <1>4, <1>5 DEF SessionInv

\* A freed driver has closed the device and has no participants.
LEMMA FreeDriverInv ==
  ASSUME SessionInv, FreeDriver
  PROVE  SessionInv'
<1> USE DEF endVars, pciVars, stageVars, sessionVars, expVars, queueVars, clientVars,
           deviceVars
<1>1. TypeOK'
  BY DEF SessionInv, TypeOK, Stages, Owners, Submissions, Lives, IRQs,
    BOStates, NoBuffers, FreeDriver, ReleaseStorage, ReleaseBringup
<1>2. SessionCount' /\ OwnersAttached' /\ SoleParticipant' /\ OpenDiscipline'
  <2>1. claimed = {}
    BY DEF SessionInv, TypeOK, OwnersAttached, FreeDriver
  <2> QED
    BY <2>1 DEF SessionInv, SessionCount, OwnersAttached, SoleParticipant,
      OpenDiscipline, FreeDriver, ReleaseBringup
<1>3. RawAccessExclusive'
  BY DEF SessionInv, RawAccessExclusive, FreeDriver, ReleaseStorage,
    ReleaseBringup
<1>4. (BackingHeld \/ stopping)'
  BY DEF SessionInv, TypeOK, BackingHeld, FreeDriver, ReleaseStorage,
    ReleaseBringup
<1>5. StorageAccounted'
  BY DEF SessionInv, TypeOK, StorageAccounted, OwnQueues, FreeDriver,
    ReleaseStorage, ReleaseBringup
<1> QED
  BY <1>1, <1>2, <1>3, <1>4, <1>5 DEF SessionInv

-----------------------------------------------------------------------------
(***************************************************************************)
(* The theorems.                                                           *)
(***************************************************************************)
\* A step of no action leaves the invariant as it is.
LEMMA StutterInv ==
  ASSUME SessionInv, UNCHANGED vars
  PROVE  SessionInv'
BY DEF vars, endVars, pciVars, stageVars, sessionVars, expVars, queueVars, clientVars,
  deviceVars, SessionInv, TypeOK, SessionCount, OwnersAttached, SoleParticipant,
  RawAccessExclusive, OpenDiscipline, BackingHeld, StorageAccounted, OwnQueues

\* SessionInv is inductive: one case per action.
LEMMA NextInv == SessionInv /\ [Next]_vars => SessionInv'
<1> SUFFICES ASSUME SessionInv, [Next]_vars PROVE SessionInv'
  OBVIOUS
<1>1. ASSUME NEW c \in Clients, ClientCall(c) PROVE SessionInv'
  <2>1. CASE OpenClient(c)
    BY <2>1, OpenClientInv
  <2>2. CASE Attach(c)
    BY <2>2, AttachInv
  <2>3. CASE \E stage \in Stages, ok, dirty \in BOOLEAN : InitDevice(c, stage, ok, dirty)
    BY <2>3, InitDeviceInv
  <2>4. CASE ResetDevice(c)
    BY <2>4, ResetDeviceInv
  <2>5. CASE \E got \in BOOLEAN : MapBAR(c, got)
    BY <2>5, MapBARInv
  <2>6. CASE \E got \in IRQs : SetupInterrupts(c, got)
    BY <2>6, SetupInterruptsInv
  <2>7. CASE \E began \in Submissions : SubmitIB(c, began)
    BY <2>7, SubmitIBInv
  <2>8. CASE DispatchFails(c)
    BY <2>8, DispatchFailsInv
  <2>9. CASE \E s \in Slots, ok \in BOOLEAN : BOAlloc(c, s, ok) \/ BOFree(c, s, ok)
    BY <2>9, BOAllocInv, BOFreeInv
  <2>10. CASE \E q \in Queues, ring, meta \in Slots, ok \in BOOLEAN :
                 AQLQueueCreate(c, q, ring, meta, ok)
    BY <2>10, AQLQueueCreateInv
  <2>11. CASE \E q \in Queues, ok \in BOOLEAN : AQLQueueDestroy(c, q, ok)
    BY <2>11, AQLQueueDestroyInv
  <2>12. CASE \E outcome \in {"on", "unsure", "off"} : ExperimentEnable(c, outcome)
    BY <2>12, ExperimentEnableInv
  <2>13. CASE \E ok \in BOOLEAN : ExperimentDisable(c, ok)
    BY <2>13, ExperimentDisableInv
  <2>14. CASE \E open \in BOOLEAN : ShutdownFails(c, open)
    BY <2>14, ShutdownFailsInv
  <2>15. CASE ShutdownGPU(c)
    BY <2>15, ShutdownGPUInv
  <2> QED
    BY <1>1, <2>1, <2>2, <2>3, <2>4, <2>5, <2>6, <2>7, <2>8, <2>9, <2>10, <2>11,
      <2>12, <2>13, <2>14, <2>15 DEF ClientCall
<1>2. ASSUME NEW c \in Clients, ClientClose(c) PROVE SessionInv'
  <2>1. CASE \E accepts \in BOOLEAN : StopClient(c, accepts)
    BY <2>1, StopClientInv
  <2>2. CASE SourcesDrained(c)
    BY <2>2, SourcesDrainedInv
  <2>3. CASE \E ok \in BOOLEAN : FinishStopLast(c, ok)
    BY <2>3, FinishStopLastInv
  <2>4. CASE FinishStopQuarantines(c)
    BY <2>4, FinishStopQuarantinesInv
  <2>5. CASE \E closed \in SUBSET Queues, unbound \in SUBSET Slots :
                FinishStopRetires(c, closed, unbound)
    BY <2>5, FinishStopRetiresInv
  <2>6. CASE FinishStopDetached(c)
    BY <2>6, FinishStopDetachedInv
  <2> QED
    BY <1>2, <2>1, <2>2, <2>3, <2>4, <2>5, <2>6 DEF ClientClose, FinishesStop
<1>3. CASE FenceArrives
  BY <1>3, FenceArrivesInv
<1>4. CASE \E ok \in BOOLEAN : DriverStop(ok)
  BY <1>4, DriverStopInv
<1>5. CASE FreeDriver
  BY <1>5, FreeDriverInv
<1>6. CASE UNCHANGED vars
  BY <1>6, StutterInv
<1> QED
  BY <1>1, <1>2, <1>3, <1>4, <1>5, <1>6 DEF Next

\* In every behaviour of the driver the whole session invariant holds.
THEOREM SessionSafe == Spec => []SessionInv
<1>1. Init => SessionInv
  BY InitInv
<1>2. SessionInv /\ [Next]_vars => SessionInv'
  BY NextInv
<1> QED
  BY <1>1, <1>2, PTL DEF Spec

\* Every variable keeps its type.
THEOREM TypeCorrect == Spec => []TypeOK
<1>1. SessionInv => TypeOK
  BY DEF SessionInv
<1> QED
  BY <1>1, SessionSafe, PTL

\* The counter that decides who may reset the GPU counts the attached clients,
\* and a single owner really is the single participant.
THEOREM SessionExact == Spec => []OwnershipExact
<1>1. SessionInv => OwnershipExact
  BY DEF SessionInv, OwnershipExact
<1> QED
  BY <1>1, SessionSafe, PTL

\* Raw hardware access is exclusive.
THEOREM RawAccessSafe == Spec => []RawAccessExclusive
<1>1. SessionInv => RawAccessExclusive
  BY DEF SessionInv
<1> QED
  BY <1>1, SessionSafe, PTL

\* While the device may master the bus it reaches no memory that was given
\* back, however clients fail, close and are removed.
THEOREM DMASafe == Spec => []NoDMAToFreed
<1>1. SessionInv => NoDMAToFreed
  BY DEF SessionInv, OpenDiscipline, NoDMAToFreed
<1> QED
  BY <1>1, SessionSafe, PTL

\* Storage of a closed client is released or quarantined, never forgotten.
THEOREM StorageSafe == Spec => []StorageAccounted
<1>1. SessionInv => StorageAccounted
  BY DEF SessionInv
<1> QED
  BY <1>1, SessionSafe, PTL
-----------------------------------------------------------------------------
(***************************************************************************)
(* What only a reset may do.  Every action but three is ordinary: it keeps *)
(* a blocked session blocked, a quarantined client quarantined, and does   *)
(* not return the bring-up stage to None.  The three others are the two    *)
(* verified resets and the removal of the driver.                          *)
(***************************************************************************)
Ordinary ==
    /\ blocked => blocked'
    /\ \A c \in Clients : life[c] = "quarantined" => life'[c] = "quarantined"
    /\ reached' = "None" => reached = "None"

\* The step formulas of RecoveryByReset and of NoForeignReset.
Unblocks ==
    blocked /\ ~blocked' => /\ reach' = {} /\ ~bringupReach' /\ fwQueues' = {}
                            /\ ~busMaster' /\ claimed' = {}
Releases ==
    \A c \in Clients :
        life[c] = "quarantined" /\ life'[c] # "quarantined"
          => (reach' = {} /\ fwQueues' = {}) \/ (freed' /\ ~busMaster')
TakesGPU ==
    reached # "None" /\ reached' = "None" =>
        \/ Cardinality(claimed) <= 1 /\ claimed' = {}
        \/ freed'

\* An ordinary step recovers nothing, so it owes nothing.
LEMMA OrdinaryStep ==
  ASSUME Ordinary
  PROVE  Unblocks /\ Releases /\ TakesGPU
BY DEF Ordinary, Unblocks, Releases, TakesGPU

\* A subset of a singleton has at most one element.
LEMMA AtMostOne ==
  ASSUME NEW c \in Clients, claimed \subseteq {c}
  PROVE  Cardinality(claimed) <= 1
<1>1. claimed = {} \/ claimed = {c}
  OBVIOUS
<1>2. Cardinality({}) = 0 /\ Cardinality({c}) = 1
  BY FS_EmptySet, FS_Singleton
<1> QED
  BY <1>1, <1>2

\* ShutdownGPU resets a session in which nobody but its caller takes part.
LEMMA ShutdownGPURecovers ==
  ASSUME SessionInv, NEW c \in Clients, ShutdownGPU(c)
  PROVE  Unblocks /\ Releases /\ TakesGPU
<1>1. claimed \subseteq {c}
  BY CanResetSole DEF SessionInv, ShutdownGPU, ShutdownAdmits
<1>2. claimed' = {}
  BY <1>1 DEF ShutdownGPU
<1>3. Cardinality(claimed) <= 1
  BY <1>1, AtMostOne
<1> QED
  BY <1>2, <1>3 DEF ShutdownGPU, DeviceReset, Unblocks, Releases, TakesGPU

\* The last participant's FinishStop, when its reset succeeded, does too;
\* when it failed, the step is ordinary.
LEMMA FinishStopLastRecovers ==
  ASSUME SessionInv, NEW c \in Clients, NEW ok \in BOOLEAN, FinishStopLast(c, ok)
  PROVE  Unblocks /\ Releases /\ TakesGPU
<1>1. CASE ok
  <2>1. /\ claimed' \in SUBSET Clients /\ Cardinality(claimed') = 0
    BY DetachInv DEF SessionInv, FinishStopLast, FinishStop, Detach
  <2>2. claimed' = {}
    BY <2>1, NoParticipant
  <2>3. claimed \subseteq {c}
    BY <2>2 DEF FinishStopLast, FinishStop, Detach
  <2>4. Cardinality(claimed) <= 1
    BY <2>3, AtMostOne
  <2>5. reach' = {} /\ ~bringupReach' /\ fwQueues' = {} /\ ~busMaster'
    BY <1>1 DEF FinishStopLast, DeviceReset
  <2> QED
    BY <2>2, <2>4, <2>5 DEF Unblocks, Releases, TakesGPU
<1>2. CASE ~ok
  <2>1. blocked' /\ reached' = reached
    BY <1>2 DEF FinishStopLast, stageVars
  <2>2. life' = [life EXCEPT ![c] = "quarantined"] /\ life \in [Clients -> Lives]
    BY <1>2 DEF FinishStopLast, SessionInv, TypeOK
  <2>3. Ordinary
    BY <2>1, <2>2 DEF Ordinary
  <2> QED
    BY <2>3, OrdinaryStep
<1> QED
  BY <1>1, <1>2

\* free() runs on a stopped driver, whose device is closed.
LEMMA FreeDriverRecovers ==
  ASSUME SessionInv, FreeDriver
  PROVE  Unblocks /\ Releases /\ TakesGPU
<1>1. freed' /\ blocked' = blocked /\ ~busMaster'
  BY DEF FreeDriver, SessionInv, OpenDiscipline, pciVars
<1> QED
  BY <1>1 DEF Unblocks, Releases, TakesGPU

\* A client's calls other than ShutdownGPU are ordinary: they are admitted
\* only while the session is not blocked, or never clear the block.
LEMMA ClientCallRecovers ==
  ASSUME SessionInv, NEW c \in Clients, ClientCall(c)
  PROVE  Unblocks /\ Releases /\ TakesGPU
<1> USE DEF endVars, pciVars, stageVars, clientVars
<1>1. CASE OpenClient(c)
  <2>1. life \in [Clients -> Lives]
    BY DEF SessionInv, TypeOK
  <2>2. Ordinary
    BY <1>1, <2>1 DEF OpenClient, Ordinary
  <2> QED
    BY <2>2, OrdinaryStep
<1>2. CASE Attach(c)
  BY <1>2, OrdinaryStep DEF Attach, EnsureOpen, Admits, Ordinary
<1>3. CASE \E stage \in Stages, ok, dirty \in BOOLEAN : InitDevice(c, stage, ok, dirty)
  BY <1>3, OrdinaryStep DEF InitDevice, Admits, Ordinary
<1>4. CASE ResetDevice(c)
  BY <1>4, OrdinaryStep DEF ResetDevice, Mutates, EnsureOpen, Admits, Ordinary
<1>5. CASE \E got \in BOOLEAN : MapBAR(c, got)
  BY <1>5, OrdinaryStep DEF MapBAR, Mutates, EnsureOpen, Admits, Ordinary
<1>6. CASE \E got \in IRQs : SetupInterrupts(c, got)
  BY <1>6, OrdinaryStep DEF SetupInterrupts, Mutates, EnsureOpen, Admits, Ordinary
<1>7. CASE \E began \in Submissions : SubmitIB(c, began)
  BY <1>7, OrdinaryStep DEF SubmitIB, EnsureOpen, Admits, Ordinary
<1>8. CASE DispatchFails(c)
  BY <1>8, OrdinaryStep DEF DispatchFails, Mutates, EnsureOpen, Admits, Ordinary
<1>9. CASE \E s \in Slots, ok \in BOOLEAN : BOAlloc(c, s, ok) \/ BOFree(c, s, ok)
  BY <1>9, OrdinaryStep DEF BOAlloc, BOFree, Mutates, EnsureOpen, Admits, Ordinary
<1>10. CASE \E q \in Queues, ring, meta \in Slots, ok \in BOOLEAN :
               AQLQueueCreate(c, q, ring, meta, ok)
  BY <1>10, OrdinaryStep DEF AQLQueueCreate, Mutates, EnsureOpen, Admits, Ordinary
<1>11. CASE \E q \in Queues, ok \in BOOLEAN : AQLQueueDestroy(c, q, ok)
  BY <1>11, OrdinaryStep DEF AQLQueueDestroy, Mutates, EnsureOpen, Admits, Ordinary
<1>12. CASE \E outcome \in {"on", "unsure", "off"} : ExperimentEnable(c, outcome)
  BY <1>12, OrdinaryStep DEF ExperimentEnable, Ordinary
<1>13. CASE \E ok \in BOOLEAN : ExperimentDisable(c, ok)
  BY <1>13, OrdinaryStep DEF ExperimentDisable, Ordinary
<1>14. CASE \E open \in BOOLEAN : ShutdownFails(c, open)
  BY <1>14, OrdinaryStep DEF ShutdownFails, Ordinary
<1>15. CASE ShutdownGPU(c)
  BY <1>15, ShutdownGPURecovers
<1> QED
  BY <1>1, <1>2, <1>3, <1>4, <1>5, <1>6, <1>7, <1>8, <1>9, <1>10, <1>11,
    <1>12, <1>13, <1>14, <1>15 DEF ClientCall

\* Of the steps of a closing client only the last participant's reset
\* recovers anything.
LEMMA ClientCloseRecovers ==
  ASSUME SessionInv, NEW c \in Clients, ClientClose(c)
  PROVE  Unblocks /\ Releases /\ TakesGPU
<1> USE DEF endVars, pciVars, stageVars, clientVars
<1>0. life \in [Clients -> Lives]
  BY DEF SessionInv, TypeOK
<1>1. ASSUME NEW l \in Lives, life' = [life EXCEPT ![c] = l],
             life[c] # "quarantined", blocked => blocked', reached' = reached
      PROVE  Unblocks /\ Releases /\ TakesGPU
  <2>1. \A d \in Clients : life[d] = "quarantined" => life'[d] = "quarantined"
    BY <1>0, <1>1
  <2>2. Ordinary
    BY <1>1, <2>1 DEF Ordinary
  <2> QED
    BY <2>2, OrdinaryStep
<1>2. CASE \E accepts \in BOOLEAN : StopClient(c, accepts)
  BY <1>1, <1>2 DEF StopClient, Lives
<1>3. CASE SourcesDrained(c)
  BY <1>3, OrdinaryStep DEF SourcesDrained, Ordinary
<1>4. CASE \E ok \in BOOLEAN : FinishStopLast(c, ok)
  BY <1>4, FinishStopLastRecovers
<1>5. CASE FinishStopQuarantines(c)
  BY <1>1, <1>5 DEF FinishStopQuarantines, FinishStop, Lives
<1>6. CASE \E closed \in SUBSET Queues, unbound \in SUBSET Slots :
              FinishStopRetires(c, closed, unbound)
  <2>1. PICK closed \in SUBSET Queues, unbound \in SUBSET Slots :
           FinishStopRetires(c, closed, unbound)
    BY <1>6
  <2>2. /\ ~blocked /\ life[c] = "stopping" /\ reached' = reached
        /\ \E l \in {"absent", "quarantined"} : life' = [life EXCEPT ![c] = l]
    BY <2>1 DEF FinishStopRetires, FinishStop
  <2> QED
    BY <1>1, <2>2 DEF Lives
<1>7. CASE FinishStopDetached(c)
  BY <1>1, <1>7 DEF FinishStopDetached, FinishStop, Lives
<1> QED
  BY <1>2, <1>3, <1>4, <1>5, <1>6, <1>7 DEF ClientClose, FinishesStop

\* Every step of the driver, from a state of the invariant, recovers a
\* session only by a reset that was entitled to it.
LEMMA StepRecovers ==
  ASSUME SessionInv, [Next]_vars
  PROVE  Unblocks /\ Releases /\ TakesGPU
<1>1. CASE \E c \in Clients : ClientCall(c) \/ ClientClose(c)
  BY <1>1, ClientCallRecovers, ClientCloseRecovers
<1>2. CASE FenceArrives
  BY <1>2, OrdinaryStep DEF FenceArrives, Ordinary, stageVars, clientVars
<1>3. CASE \E ok \in BOOLEAN : DriverStop(ok)
  BY <1>3, OrdinaryStep DEF DriverStop, Ordinary, stageVars, clientVars
<1>4. CASE FreeDriver
  BY <1>4, FreeDriverRecovers
<1>5. CASE UNCHANGED vars
  BY <1>5, OrdinaryStep DEF vars, Ordinary, stageVars, clientVars
<1> QED
  BY <1>1, <1>2, <1>3, <1>4, <1>5 DEF Next

\* A blocked session is unblocked, and quarantined storage given back, only
\* by a verified reset with bus mastering off (or with the driver object);
\* and no reset takes the GPU from another attached client.
THEOREM ResetsEntitled == Spec => ResetsRecover
<1>1. SessionInv /\ [Next]_vars => [Unblocks /\ Releases]_vars
  BY StepRecovers
<1>2. SessionInv /\ [Next]_vars => [TakesGPU]_vars
  BY StepRecovers
<1>3. Spec => RecoveryByReset
  BY <1>1, SessionSafe, PTL DEF Spec, RecoveryByReset, Unblocks, Releases
<1>4. Spec => NoForeignReset
  BY <1>2, SessionSafe, PTL DEF Spec, NoForeignReset, TakesGPU
<1> QED
  BY <1>3, <1>4 DEF ResetsRecover
=============================================================================
