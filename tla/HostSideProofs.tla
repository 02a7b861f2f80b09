-------------------------- MODULE HostSideProofs ---------------------------
(***************************************************************************)
(* Proofs about the host side, for any number of processes, threads,       *)
(* allocations, jobs and images.  First what processes share through the   *)
(* driver and the operating system: the runtime's connection to the driver *)
(* (HSATransport), signals shared through a file (IPCSignals), the         *)
(* profiler's sample slot (SQSlot) and the pages the runtime keeps wired   *)
(* (HostLocks).  Then the storage of the HSA runtime: RuntimeMemory and    *)
(* Executables; last the pool of video memory that backs it                *)
(* (VRAMAllocator).  For each of them an inductive invariant and the       *)
(* theorems about the specification.                                       *)
(***************************************************************************)
EXTENDS HSATransport, IPCSignals, SQSlot, HostLocks, RuntimeMemory, Executables,
        VRAMAllocator, FiniteSetTheorems, TLAPS

-----------------------------------------------------------------------------
(* The transport                                                           *)

ConnectionSteps == {"none", "import", "claim", "stage", "prepare", "reset", "accounting"}
ConnectionStates == {"unclaimed", "initializing", "ready", "faulted", "closing", "closed", "stopped", "quarantined"}
Connections == [state : ConnectionStates, port : BOOLEAN, at : ConnectionSteps, join : BOOLEAN]
Devices == [stage : 0 .. Complete, clients : SUBSET Processes, blocked : BOOLEAN]

BuffersTyped ==
    /\ driverBO \in [Processes -> SUBSET SharedHandles]
    /\ mapped \in [Processes -> SUBSET SharedHandles]
    /\ hwQueue \in [Processes -> SUBSET (SharedHandles \X SharedHandles)]
    /\ queueRec \in [Processes -> SUBSET (SharedHandles \X SharedHandles)]

TransportTypes ==
    /\ device \in Devices
    /\ conn \in [Processes -> Connections]
    /\ BuffersTyped

\* The driver's admission: as long as the device is not complete it has one client at most.
OneClientBelow == \A p \in device.clients : device.stage # Complete => device.clients = {p}

\* Where process p stands with the driver at each step of its connection.
Standing(p) ==
    /\ conn[p].port = TRUE <=> conn[p].state \in {"initializing", "ready", "faulted", "closing"}
    /\ conn[p].state \in {"unclaimed", "quarantined"} => p \notin device.clients
    /\ conn[p].state = "initializing" <=> conn[p].at \notin {"none", "import"}
    /\ conn[p].state = "ready" => p \in device.clients /\ device.stage = Complete
    /\ conn[p].at = "claim" => p \notin device.clients
    /\ conn[p].at \in {"stage", "prepare", "reset", "accounting"} => p \in device.clients
    /\ conn[p].at = "accounting" => device.stage = Complete
    /\ conn[p].at \in {"prepare", "reset"} =>
           device.clients = {p} /\ conn[p].join = FALSE /\ device.stage # Complete

\* The driver holds the buffers of what the firmware may run, and those that are mapped; what a
\* process knows of its queues covers what the firmware runs, and a buffer of a known queue is
\* mapped, as long as the process holds its connection; and what is gone at each step of its end.
Backing(p) ==
    /\ \A q \in hwQueue[p] : q[1] \in driverBO[p] /\ q[2] \in driverBO[p]
    /\ Connected(p) => /\ hwQueue[p] \subseteq queueRec[p]
                     /\ \A q \in queueRec[p] : q[1] \in mapped[p] /\ q[2] \in mapped[p]
    /\ mapped[p] \subseteq driverBO[p]
    /\ conn[p].state \notin {"ready", "faulted", "closing"} => mapped[p] = {} /\ queueRec[p] = {}
    /\ conn[p].state \notin {"ready", "faulted", "closing", "closed", "quarantined"} => hwQueue[p] = {}

\* The driver stops one client at a time, and a reset leaves no queue to anybody.
OneStop ==
    \A p \in Processes : conn[p].state = "stopped" =>
        /\ \A q \in Processes : conn[q].state = "stopped" => q = p
        /\ LastClient(p) => \A q \in Processes : hwQueue[q] = {}

TransportInv ==
    /\ TransportTypes
    /\ OneClientBelow
    /\ OneStop
    /\ \A p \in Processes : Standing(p)
    /\ \A p \in Processes : Backing(p)

\* What an assignment to a connection's state and step does, and leaves alone.
LEMMA SetFacts ==
    ASSUME conn \in [Processes -> Connections], NEW p \in Processes,
           NEW s \in ConnectionStates, NEW a \in ConnectionSteps,
           Set(p, s, a)
    PROVE  /\ conn' \in [Processes -> Connections]
           /\ conn'[p].state = s /\ conn'[p].at = a
           /\ conn'[p].port = conn[p].port /\ conn'[p].join = conn[p].join
           /\ \A q \in Processes \ {p} : conn'[q] = conn[q]
<1>1. conn[p] \in Connections
  OBVIOUS
<1> DEFINE r == [conn[p] EXCEPT !.state = s, !.at = a]
<1>2. /\ r \in Connections
      /\ r.state = s /\ r.at = a /\ r.port = conn[p].port /\ r.join = conn[p].join
  BY <1>1 DEF Connections
<1>3. conn' = [conn EXCEPT ![p] = r]
  BY DEF Set
<1> HIDE DEF r
<1> QED
  BY <1>2, <1>3

\* What replacing a connection does.
LEMMA ReplacedFacts ==
    ASSUME conn \in [Processes -> Connections], NEW p \in Processes,
           NEW r \in Connections, conn' = [conn EXCEPT ![p] = r]
    PROVE  /\ conn' \in [Processes -> Connections]
           /\ conn'[p] = r
           /\ \A q \in Processes \ {p} : conn'[q] = conn[q]
OBVIOUS

\* Nothing is open to begin with.
LEMMA TransportInitInv == TransportInit => TransportInv
BY DEF TransportInit, TransportInv, TransportTypes, BuffersTyped, Connections, ConnectionStates, ConnectionSteps,
       Devices, Unopened, OneClientBelow, OneStop, Standing, Backing, Complete

\* A step that leaves a process's connection and the device alone leaves its standing.
LEMMA StandingKept ==
    ASSUME NEW p, Standing(p), conn'[p] = conn[p], device'.stage = device.stage, device'.clients = device.clients
    PROVE  Standing(p)'
BY DEF Standing

\* And one that leaves its memory and connection alone leaves its backing.
LEMMA BackingKept ==
    ASSUME NEW p \in Processes, Backing(p), conn'[p] = conn[p], driverBO'[p] = driverBO[p], mapped'[p] = mapped[p],
           hwQueue'[p] = hwQueue[p], queueRec'[p] = queueRec[p]
    PROVE  Backing(p)'
BY DEF Backing, Connected

\* Opening, claiming, bringing up and joining the device keep the invariant (device_init.cpp).
LEMMA ConnectKeeps ==
    ASSUME TransportInv, NEW p \in Processes,
           \/ EnsureReady(p, FALSE) \/ EnsureReady(p, TRUE) \/ Claim(p) \/ ReadStage(p)
           \/ PrepareFirmware(p) \/ AdvanceBringUp(p) \/ ReadAccounting(p) \/ ImportProbe(p)
    PROVE  TransportInv'
<1>0. SameMemory
  BY DEF EnsureReady, Claim, ReadStage, PrepareFirmware, AdvanceBringUp, ReadAccounting, ImportProbe
<1>1. conn[p].state \in {"unclaimed", "initializing"} /\ mapped[p] = {} /\ queueRec[p] = {} /\ hwQueue[p] = {}
  <2>1. Standing(p) /\ Backing(p)
    BY DEF TransportInv
  <2>2. conn[p].state \in {"unclaimed", "initializing"}
    BY <2>1 DEF EnsureReady, Claim, ReadStage, PrepareFirmware, AdvanceBringUp, ReadAccounting, ImportProbe, Standing
  <2> QED
    BY <2>1, <2>2 DEF Backing
<1>9. ASSUME conn' \in [Processes -> Connections], conn'[p].state \in {"unclaimed", "initializing", "ready", "faulted"},
             \A q \in Processes \ {p} : conn'[q] = conn[q],
             device' \in Devices, OneClientBelow', \A q \in Processes : Standing(q)',
             device'.clients = device.clients \/ DriverFree
      PROVE  TransportInv'
  <2>1. Backing(p)'
    BY <1>0, <1>1, <1>9 DEF Backing, SameMemory
  <2>2. ASSUME NEW q \in Processes \ {p} PROVE Backing(q)'
    BY <1>0, <1>9, BackingKept DEF TransportInv, SameMemory
  <2>3. OneStop'
    BY <1>0, <1>1, <1>9 DEF TransportInv, OneStop, DriverFree, SameMemory, LastClient
  <2>4. BuffersTyped'
    BY <1>0 DEF TransportInv, TransportTypes, BuffersTyped, SameMemory
  <2> QED
    BY <1>9, <2>1, <2>2, <2>3, <2>4 DEF TransportInv, TransportTypes
<1>2. conn \in [Processes -> Connections] /\ Standing(p) /\ conn[p] \in Connections
      /\ device \in Devices
  BY DEF TransportInv, TransportTypes
<1>3. CASE EnsureReady(p, FALSE) \/ EnsureReady(p, TRUE)
  <2>1. PICK j \in BOOLEAN : EnsureReady(p, j)
    BY <1>3
  <2>2. [state |-> "initializing", port |-> TRUE, at |-> "claim", join |-> j] \in Connections
    BY DEF Connections, ConnectionStates, ConnectionSteps
  <2>3. /\ conn' \in [Processes -> Connections]
        /\ conn'[p] = [state |-> "initializing", port |-> TRUE, at |-> "claim", join |-> j]
        /\ \A q \in Processes \ {p} : conn'[q] = conn[q]
    BY <1>2, <2>1, <2>2, ReplacedFacts DEF EnsureReady
  <2>4. Standing(p)'
    BY <1>2, <2>1, <2>3 DEF Standing, EnsureReady
  <2> QED
    <3>1. /\ device' = device /\ OneClientBelow' /\ \A q \in Processes : Standing(q)'
      BY <1>2, <2>1, <2>3, <2>4, StandingKept DEF EnsureReady, TransportInv, OneClientBelow
    <3> QED
      BY <1>2, <1>9, <2>3, <3>1
<1>4. CASE ImportProbe(p)
  <2>1. [conn[p] EXCEPT !.at = "import"] \in Connections
    BY <1>2 DEF Connections, ConnectionSteps
  <2>2. /\ conn' \in [Processes -> Connections]
        /\ conn'[p] = [conn[p] EXCEPT !.at = "import"]
        /\ \A q \in Processes \ {p} : conn'[q] = conn[q]
    BY <1>2, <1>4, <2>1, ReplacedFacts DEF ImportProbe
  <2>3. /\ conn'[p].at = "import" /\ conn'[p].state = "unclaimed" /\ conn'[p].port = conn[p].port
        /\ conn[p].at = "none" /\ conn[p].state = "unclaimed"
    BY <1>2, <1>4, <2>2 DEF Connections, ImportProbe
  <2>4. Standing(p)'
    BY <1>2, <1>4, <2>3 DEF Standing, ImportProbe
  <2> QED
    <3>1. /\ device' = device /\ OneClientBelow' /\ \A q \in Processes : Standing(q)'
      BY <1>2, <1>4, <2>2, <2>4, StandingKept DEF ImportProbe, TransportInv, OneClientBelow
    <3> QED
      BY <1>2, <1>9, <2>2, <2>3, <3>1
<1>5. CASE Claim(p)
  <2>1. CASE /\ DriverFree /\ ~device.blocked
             /\ device.clients = {} \/ device.stage = Complete
             /\ device' = [device EXCEPT !.clients = @ \cup {p}]
             /\ Set(p, "initializing", "stage")
    <3>1. /\ conn' \in [Processes -> Connections]
          /\ conn'[p].state = "initializing" /\ conn'[p].at = "stage" /\ conn'[p].port = conn[p].port
          /\ \A q \in Processes \ {p} : conn'[q] = conn[q]
      BY <1>2, <2>1, SetFacts DEF ConnectionSteps, ConnectionStates
    <3>2. /\ device' \in Devices
          /\ device'.stage = device.stage /\ device'.clients = device.clients \cup {p}
      BY <1>2, <2>1 DEF Devices
    <3>3. OneClientBelow'
      BY <2>1, <3>2 DEF OneClientBelow
    <3>4. Standing(p)'
      BY <1>2, <1>5, <3>1, <3>2 DEF Standing, Claim
    <3>5. ASSUME NEW q \in Processes \ {p} PROVE Standing(q)'
      <4>1. Standing(q) /\ conn'[q] = conn[q]
        BY <3>1 DEF TransportInv
      <4> QED
        BY <2>1, <3>2, <4>1 DEF Standing
    <3> QED
      BY <1>9, <2>1, <3>1, <3>2, <3>3, <3>4, <3>5
  <2>2. CASE conn' = [conn EXCEPT ![p] = Unopened] /\ UNCHANGED device
    <3>1. Unopened \in Connections
      BY DEF Unopened, Connections, ConnectionSteps, ConnectionStates
    <3>2. /\ conn' \in [Processes -> Connections] /\ conn'[p] = Unopened
          /\ \A q \in Processes \ {p} : conn'[q] = conn[q]
      BY <1>2, <2>2, <3>1, ReplacedFacts
    <3>3. Standing(p)'
      BY <1>2, <1>5, <2>2, <3>2 DEF Standing, Unopened, Claim
    <3>4. OneClientBelow' /\ \A q \in Processes : Standing(q)'
      BY <1>2, <2>2, <3>2, <3>3, StandingKept DEF TransportInv, OneClientBelow
    <3> QED
      BY <1>2, <1>9, <2>2, <3>2, <3>4 DEF Unopened
  <2> QED
    BY <1>5, <2>1, <2>2 DEF Claim
<1>6. CASE AdvanceBringUp(p) /\ UNCHANGED device
  <2>1. conn[p].at = "reset" /\ Faults(p)
    <3>1. device' # [device EXCEPT !.stage = @ + 1]
      BY <1>2, <1>6 DEF Complete, Devices
    <3> QED
      BY <1>6, <3>1 DEF AdvanceBringUp
  <2>2. /\ conn' \in [Processes -> Connections]
        /\ conn'[p].state = "faulted" /\ conn'[p].at = "none" /\ conn'[p].port = conn[p].port
        /\ \A q \in Processes \ {p} : conn'[q] = conn[q]
    BY <1>2, <2>1, SetFacts DEF Faults, ConnectionSteps, ConnectionStates
  <2>3. Standing(p)'
    BY <1>2, <2>1, <2>2 DEF Standing
  <2> QED
    <3>1. OneClientBelow' /\ \A q \in Processes : Standing(q)'
      BY <1>2, <1>6, <2>2, <2>3, StandingKept DEF TransportInv, OneClientBelow
    <3> QED
      BY <1>2, <1>6, <1>9, <2>2, <3>1
<1>7. CASE AdvanceBringUp(p) /\ device' = [device EXCEPT !.stage = @ + 1]
  <2>0. conn[p].at = "reset" /\ device.clients = {p} /\ device.stage # Complete
    BY <1>2, <1>7 DEF AdvanceBringUp, Standing
  <2>1. PICK a \in ConnectionSteps :
            /\ Set(p, "initializing", a)
            /\ a = IF device.stage + 1 = Complete THEN "accounting" ELSE "reset"
    <3>1. ~UNCHANGED device
      BY <1>2, <1>7 DEF Complete, Devices
    <3> QED
      BY <1>7, <3>1 DEF AdvanceBringUp, ConnectionSteps
  <2>2. /\ conn' \in [Processes -> Connections]
        /\ conn'[p].state = "initializing" /\ conn'[p].at = a
        /\ conn'[p].port = conn[p].port /\ conn'[p].join = conn[p].join
        /\ \A q \in Processes \ {p} : conn'[q] = conn[q]
    BY <1>2, <2>1, SetFacts DEF ConnectionStates
  <2>3. /\ device' \in Devices
        /\ device'.stage = device.stage + 1 /\ device'.clients = device.clients
    BY <1>2, <1>7, <2>0 DEF Complete, Devices
  <2>4. OneClientBelow'
    BY <2>0, <2>3 DEF OneClientBelow
  <2>5. Standing(p)'
    BY <1>2, <2>0, <2>1, <2>2, <2>3 DEF Standing
  <2>6. ASSUME NEW q \in Processes \ {p} PROVE Standing(q)'
    <3>1. Standing(q) /\ conn'[q] = conn[q]
      BY <2>2 DEF TransportInv
    <3> QED
      BY <2>0, <2>3, <3>1 DEF Standing
  <2> QED
    BY <1>9, <2>2, <2>3, <2>4, <2>5, <2>6
<1>8. CASE ReadStage(p) \/ PrepareFirmware(p) \/ ReadAccounting(p)
  <2>0. UNCHANGED device
    BY <1>8 DEF ReadStage, PrepareFirmware, ReadAccounting
  <2>1. PICK s \in {"initializing", "ready", "faulted"}, a \in ConnectionSteps :
            /\ Set(p, s, a)
            /\ conn[p].at \in {"stage", "prepare", "accounting"}
            /\ \/ s = "faulted" /\ a = "none"
               \/ s = "initializing" /\ a = "accounting" /\ conn[p].at = "stage" /\ device.stage = Complete
               \/ s = "initializing" /\ a = "prepare" /\ conn[p].at = "stage" /\ device.stage = 0 /\ conn[p].join = FALSE
               \/ s = "initializing" /\ a = "reset" /\ conn[p].at = "prepare"
               \/ s = "ready" /\ a = "none" /\ conn[p].at = "accounting"
    <3>1. "none" \in ConnectionSteps /\ "accounting" \in ConnectionSteps /\ "prepare" \in ConnectionSteps
          /\ "reset" \in ConnectionSteps /\ conn[p].join \in BOOLEAN
      BY <1>2 DEF ConnectionSteps, Connections
    <3>2. CASE ReadStage(p)
      BY <3>1, <3>2 DEF ReadStage, Faults
    <3>3. CASE PrepareFirmware(p)
      BY <3>1, <3>3 DEF PrepareFirmware, Faults
    <3>4. CASE ReadAccounting(p)
      BY <3>1, <3>4 DEF ReadAccounting, Faults
    <3> QED
      BY <1>8, <3>2, <3>3, <3>4
  <2>2. /\ conn' \in [Processes -> Connections]
        /\ conn'[p].state = s /\ conn'[p].at = a
        /\ conn'[p].port = conn[p].port /\ conn'[p].join = conn[p].join
        /\ \A q \in Processes \ {p} : conn'[q] = conn[q]
    BY <1>2, <2>1, SetFacts DEF ConnectionStates
  <2>3. OneClientBelow' /\ (p \in device.clients => (device.stage # Complete => device.clients = {p}))
    BY <2>0 DEF TransportInv, OneClientBelow
  <2>4. Standing(p)'
    BY <1>2, <2>0, <2>1, <2>2, <2>3 DEF Standing, Complete
  <2> QED
    <3>1. \A q \in Processes : Standing(q)'
      BY <2>0, <2>2, <2>4, StandingKept DEF TransportInv
    <3> QED
      BY <1>2, <1>9, <2>0, <2>1, <2>2, <2>3, <3>1
<1> QED
  BY <1>3, <1>4, <1>5, <1>6, <1>7, <1>8 DEF AdvanceBringUp

\* The steps of a connection's end before the driver hears of it keep the invariant: the shared
\* buffers are unmapped, and the port closed (~IOKitConnection).
LEMMA CloseKeeps ==
    ASSUME TransportInv, NEW p \in Processes, BeginClose(p) \/ UnmapShared(p) \/ ClosePort(p)
    PROVE  TransportInv'
<1>1. /\ conn \in [Processes -> Connections] /\ Standing(p) /\ Backing(p) /\ device \in Devices
      /\ UNCHANGED <<device, driverBO, hwQueue>> /\ BuffersTyped
  BY DEF TransportInv, TransportTypes, BeginClose, UnmapShared, ClosePort, SameMemory
<1>2. ASSUME conn' \in [Processes -> Connections], conn'[p].state # "stopped", Standing(p)', Backing(p)', BuffersTyped',
             \A q \in Processes \ {p} : /\ conn'[q] = conn[q]
                                        /\ mapped'[q] = mapped[q] /\ queueRec'[q] = queueRec[q]
      PROVE  TransportInv'
  <2>1. \A q \in Processes : Standing(q)' /\ Backing(q)'
    BY <1>1, <1>2, StandingKept, BackingKept DEF TransportInv
  <2>2. OneStop' /\ OneClientBelow'
    BY <1>1, <1>2 DEF TransportInv, OneStop, LastClient, OneClientBelow
  <2> QED
    BY <1>1, <1>2, <2>1, <2>2 DEF TransportInv, TransportTypes
<1>3. CASE BeginClose(p)
  <2>1. /\ conn' \in [Processes -> Connections]
        /\ conn'[p].state = "closing" /\ conn'[p].at = "none" /\ conn'[p].port = conn[p].port
        /\ \A q \in Processes \ {p} : conn'[q] = conn[q]
    BY <1>1, <1>3, SetFacts DEF BeginClose, ConnectionSteps, ConnectionStates
  <2>2. Standing(p)' /\ Backing(p)' /\ BuffersTyped'
    BY <1>1, <1>3, <2>1 DEF BeginClose, SameMemory, Standing, Backing, Connected, BuffersTyped
  <2> QED
    BY <1>2, <1>3, <2>1, <2>2 DEF BeginClose, SameMemory
<1>4. CASE UnmapShared(p)
  <2>1. /\ conn[p].state = "closing" /\ UNCHANGED <<conn, queueRec>>
        /\ mapped' \in [Processes -> SUBSET SharedHandles] /\ mapped'[p] \subseteq mapped[p]
        /\ \A q \in Processes \ {p} : mapped'[q] = mapped[q]
    BY <1>1, <1>4 DEF UnmapShared, BuffersTyped
  <2>2. Standing(p)' /\ Backing(p)' /\ BuffersTyped'
    BY <1>1, <2>1 DEF Standing, Backing, Connected, BuffersTyped
  <2> QED
    BY <1>1, <1>2, <2>1, <2>2
<1>5. CASE ClosePort(p)
  <2>1. conn[p].state = "closing" /\ mapped[p] = {} /\ UNCHANGED mapped /\ conn[p] \in Connections
    BY <1>1, <1>5 DEF ClosePort
  <2>2. conn[p].at \in {"none", "import"}
    BY <1>1, <2>1 DEF Standing
  <2>3. PICK r \in Connections : /\ conn' = [conn EXCEPT ![p] = r]
                                 /\ r.state = "closed" /\ r.port = FALSE /\ r.at = conn[p].at
    <3>1. [conn[p] EXCEPT !.state = "closed", !.port = FALSE] \in Connections
      BY <2>1 DEF Connections, ConnectionStates
    <3> QED
      BY <1>1, <1>5, <2>1, <3>1 DEF ClosePort, Connections
  <2>4. /\ conn' \in [Processes -> Connections] /\ conn'[p] = r
        /\ \A q \in Processes \ {p} : conn'[q] = conn[q]
    BY <1>1, <2>3, ReplacedFacts
  <2>5. /\ queueRec' \in [Processes -> SUBSET (SharedHandles \X SharedHandles)] /\ queueRec'[p] = {}
        /\ \A q \in Processes \ {p} : queueRec'[q] = queueRec[q]
    BY <1>1, <1>5 DEF ClosePort, BuffersTyped
  <2>6. Standing(p)' /\ Backing(p)' /\ BuffersTyped'
    BY <1>1, <2>1, <2>2, <2>3, <2>4, <2>5 DEF Standing, Backing, Connected, BuffersTyped
  <2> QED
    BY <1>2, <2>1, <2>3, <2>4, <2>5, <2>6
<1> QED
  BY <1>3, <1>4, <1>5

\* FinishStop, first half: the queues go, all of them with a reset, or what may be left of them is
\* quarantined with the buffers.
LEMMA StopKeeps ==
    ASSUME TransportInv, NEW p \in Processes, StopQueues(p)
    PROVE  TransportInv'
<1>1. /\ conn \in [Processes -> Connections] /\ Standing(p) /\ Backing(p) /\ device \in Devices /\ BuffersTyped
      /\ conn[p].state = "closed" /\ DriverFree /\ UNCHANGED <<driverBO, mapped, queueRec>>
  BY DEF TransportInv, TransportTypes, StopQueues
<1>2. ASSUME NEW s \in {"stopped", "quarantined"}, Set(p, s, "none")
      PROVE  /\ conn' \in [Processes -> Connections]
             /\ conn'[p].state = s /\ conn'[p].at = "none" /\ conn'[p].port = FALSE
             /\ \A q \in Processes \ {p} : conn'[q] = conn[q]
  <2>1. conn[p].port = FALSE
    BY <1>1 DEF Standing, Connections
  <2> QED
    BY <1>1, <1>2, <2>1, SetFacts DEF ConnectionSteps, ConnectionStates
<1>3. ASSUME NEW q \in Processes, conn'[q] = conn[q], hwQueue'[q] \subseteq hwQueue[q]
      PROVE  Backing(q)'
  <2>1. Backing(q)
    BY DEF TransportInv
  <2> QED
    BY <1>1, <1>3, <2>1 DEF Backing, Connected
<1>4. CASE /\ Set(p, "stopped", "none") /\ UNCHANGED device
           /\ hwQueue' = IF LastClient(p) THEN [q \in Processes |-> {}] ELSE [hwQueue EXCEPT ![p] = {}]
  <2>1. /\ conn' \in [Processes -> Connections]
        /\ conn'[p].state = "stopped" /\ conn'[p].at = "none" /\ conn'[p].port = FALSE
        /\ \A q \in Processes \ {p} : conn'[q] = conn[q]
    BY <1>2, <1>4
  <2>2. /\ hwQueue' \in [Processes -> SUBSET (SharedHandles \X SharedHandles)]
        /\ hwQueue'[p] = {} /\ \A q \in Processes : hwQueue'[q] \subseteq hwQueue[q]
        /\ LastClient(p) => \A q \in Processes : hwQueue'[q] = {}
    <3>1. CASE LastClient(p)
      <4>1. hwQueue' = [q \in Processes |-> {}]
        BY <1>4, <3>1
      <4> QED
        BY <4>1
    <3>2. CASE ~LastClient(p)
      <4>1. hwQueue' = [hwQueue EXCEPT ![p] = {}]
        BY <1>4, <3>2
      <4> QED
        BY <1>1, <3>2, <4>1 DEF BuffersTyped
    <3> QED
      BY <3>1, <3>2
  <2>3. Standing(p)' /\ Backing(p)'
    BY <1>1, <1>4, <2>1, <2>2 DEF Standing, Backing, Connected
  <2>4. \A q \in Processes : Standing(q)' /\ Backing(q)'
    BY <1>3, <1>4, <2>1, <2>2, <2>3, StandingKept DEF TransportInv
  <2>5. OneStop'
    BY <1>1, <1>4, <2>1, <2>2 DEF OneStop, LastClient, DriverFree
  <2> QED
    BY <1>1, <1>4, <2>1, <2>2, <2>4, <2>5 DEF TransportInv, TransportTypes, BuffersTyped, OneClientBelow
<1>5. CASE /\ Set(p, "quarantined", "none")
           /\ \E left \in SUBSET hwQueue[p] : hwQueue' = [hwQueue EXCEPT ![p] = left]
           /\ device' = [device EXCEPT !.clients = @ \ {p}, !.blocked = TRUE]
  <2>1. /\ conn' \in [Processes -> Connections]
        /\ conn'[p].state = "quarantined" /\ conn'[p].at = "none" /\ conn'[p].port = FALSE
        /\ \A q \in Processes \ {p} : conn'[q] = conn[q]
    BY <1>2, <1>5
  <2>2. /\ hwQueue' \in [Processes -> SUBSET (SharedHandles \X SharedHandles)]
        /\ \A q \in Processes : hwQueue'[q] \subseteq hwQueue[q]
    BY <1>1, <1>5 DEF BuffersTyped
  <2>3. /\ device' \in Devices /\ device'.stage = device.stage /\ device'.clients = device.clients \ {p}
    BY <1>1, <1>5 DEF Devices
  <2>4. Standing(p)' /\ Backing(p)'
    BY <1>1, <2>1, <2>2, <2>3 DEF Standing, Backing, Connected
  <2>5. ASSUME NEW q \in Processes \ {p} PROVE Standing(q)' /\ Backing(q)'
    <3>1. Standing(q) /\ conn'[q] = conn[q]
      BY <2>1 DEF TransportInv
    <3>2. device.clients # {q} \/ device'.clients = device.clients
      BY <2>3
    <3>3. Standing(q)'
      BY <2>3, <3>1, <3>2 DEF Standing
    <3> QED
      BY <1>3, <2>1, <2>2, <3>3
  <2>6. OneStop' /\ OneClientBelow'
    BY <1>1, <2>1, <2>3 DEF OneStop, DriverFree, OneClientBelow, TransportInv
  <2> QED
    BY <1>1, <2>1, <2>2, <2>3, <2>4, <2>5, <2>6 DEF TransportInv, TransportTypes, BuffersTyped
<1> QED
  BY <1>4, <1>5 DEF StopQueues

\* FinishStop, second half, and ShutdownGPU: buffers are released once their queues are gone, and
\* the device goes down with its last client.
LEMMA ReleaseKeeps ==
    ASSUME TransportInv, NEW S \in SUBSET Processes, ReleaseStorage(S),
           \A p \in S : conn[p].state \in {"stopped", "quarantined"} /\ hwQueue'[p] = {},
           hwQueue' \in [Processes -> SUBSET (SharedHandles \X SharedHandles)],
           \A p \in Processes : hwQueue'[p] \subseteq hwQueue[p],
           UNCHANGED <<mapped, queueRec>>,
           device' \in Devices,
           device'.clients = device.clients \ S,
           device'.clients # {} => device'.stage = device.stage,
           \A p \in Processes \ S : conn[p].state # "stopped"
    PROVE  TransportInv'
<1>1. /\ conn \in [Processes -> Connections] /\ Unopened \in Connections /\ BuffersTyped
  BY DEF TransportInv, TransportTypes, Unopened, Connections, ConnectionSteps, ConnectionStates
<1>2. /\ conn' \in [Processes -> Connections] /\ driverBO' \in [Processes -> SUBSET SharedHandles]
      /\ \A p \in S : conn'[p] = Unopened /\ driverBO'[p] = {}
      /\ \A p \in Processes \ S : conn'[p] = conn[p] /\ driverBO'[p] = driverBO[p]
  BY <1>1 DEF ReleaseStorage, BuffersTyped
<1>3. ASSUME NEW p \in S PROVE Standing(p)' /\ Backing(p)'
  <2>1. Backing(p) /\ conn'[p] = Unopened /\ driverBO'[p] = {}
    BY <1>2 DEF TransportInv
  <2>2. mapped'[p] = {} /\ queueRec'[p] = {} /\ hwQueue'[p] = {}
    BY <2>1 DEF Backing
  <2>3. Standing(p)'
    BY <2>1 DEF Standing, Unopened
  <2> QED
    BY <2>1, <2>2, <2>3 DEF Backing
<1>4. ASSUME NEW p \in Processes \ S PROVE Standing(p)' /\ Backing(p)'
  <2>1. Standing(p) /\ Backing(p) /\ conn'[p] = conn[p] /\ driverBO'[p] = driverBO[p] /\ hwQueue'[p] \subseteq hwQueue[p]
    BY <1>2 DEF TransportInv
  <2>2. Backing(p)'
    BY <2>1 DEF Backing, Connected
  <2>3. p \in device.clients <=> p \in device'.clients
    BY <1>4
  <2>4. device.clients = {p} => device'.clients = {p}
    BY <1>4
  <2>5. Standing(p)'
    BY <2>1, <2>3, <2>4 DEF Standing
  <2> QED
    BY <2>2, <2>5
<1>5. OneStop'
  BY <1>2 DEF OneStop, Unopened
<1>6. OneClientBelow'
  BY DEF TransportInv, OneClientBelow
<1> QED
  BY <1>1, <1>2, <1>3, <1>4, <1>5, <1>6 DEF TransportInv, TransportTypes, BuffersTyped

\* The two that release: FinishStop's second half and ShutdownGPU.
LEMMA FinishKeeps ==
    ASSUME TransportInv, (\E p \in Processes : FinishStop(p)) \/ ShutdownGPU
    PROVE  TransportInv'
<1>1. device \in Devices /\ BuffersTyped /\ OneStop /\ DeviceDown \in Devices
  BY DEF TransportInv, TransportTypes, DeviceDown, Devices, Complete
<1>2. ASSUME NEW p \in Processes, FinishStop(p) PROVE TransportInv'
  <2>1. /\ conn[p].state = "stopped" /\ UNCHANGED <<mapped, hwQueue, queueRec>> /\ hwQueue[p] = {}
        /\ \A q \in Processes : conn[q].state = "stopped" => q = p
        /\ LastClient(p) => \A q \in Processes : hwQueue[q] = {}
    BY <1>1, <1>2 DEF FinishStop, OneStop, TransportInv, Backing
  <2>2. CASE LastClient(p)
    <3>1. ReleaseStorage({p} \cup Quarantined) /\ device' = DeviceDown /\ device.clients = {p}
      BY <1>2, <2>2 DEF FinishStop, LastClient
    <3>2. device'.clients = device.clients \ ({p} \cup Quarantined) /\ device'.clients = {}
      BY <3>1 DEF DeviceDown
    <3> QED
      BY <1>1, <2>1, <2>2, <3>1, <3>2, ReleaseKeeps DEF Quarantined, BuffersTyped
  <2>3. CASE ~LastClient(p)
    <3>1. ReleaseStorage({p}) /\ device' = [device EXCEPT !.clients = @ \ {p}]
      BY <1>2, <2>3 DEF FinishStop
    <3>2. device' \in Devices /\ device'.clients = device.clients \ {p} /\ device'.stage = device.stage
      BY <1>1, <3>1 DEF Devices
    <3> QED
      BY <1>1, <2>1, <3>1, <3>2, ReleaseKeeps DEF BuffersTyped
  <2> QED
    BY <2>2, <2>3
<1>3. CASE ShutdownGPU
  <2>1. /\ ReleaseStorage(Quarantined) /\ device' = DeviceDown /\ device.clients = {}
        /\ hwQueue' = [q \in Processes |-> {}] /\ UNCHANGED <<mapped, queueRec>>
        /\ \A q \in Processes : conn[q].state # "stopped"
    BY <1>3 DEF ShutdownGPU, DriverFree
  <2>2. device'.clients = device.clients \ Quarantined /\ device'.clients = {}
    BY <2>1 DEF DeviceDown
  <2> QED
    BY <1>1, <2>1, <2>2, ReleaseKeeps DEF Quarantined, BuffersTyped
<1> QED
  BY <1>2, <1>3

\* A ready connection whose RPC has an unknown outcome is faulted, and the session may be blocked:
\* who the clients are, and how far the device is, stays.
LEMMA FaultKeeps ==
    ASSUME TransportInv, NEW p \in Processes, Ready(p), Answered \/ Unknown(p)
    PROVE  /\ conn' \in [Processes -> Connections] /\ device' \in Devices /\ device'.clients = device.clients
           /\ conn'[p].state \in {"ready", "faulted"}
           /\ \A q \in Processes \ {p} : conn'[q] = conn[q]
           /\ OneClientBelow' /\ \A q \in Processes : Standing(q)'
<1>1. conn \in [Processes -> Connections] /\ device \in Devices
  BY DEF TransportInv, TransportTypes
<1>2. CASE Answered
  <2>1. UNCHANGED <<device, conn>>
    BY <1>2 DEF Answered
  <2> QED
    BY <1>1, <2>1 DEF TransportInv, OneClientBelow, Standing, Ready
<1>3. CASE Unknown(p)
  <2>1. /\ conn' \in [Processes -> Connections]
        /\ conn'[p].state = "faulted" /\ conn'[p].at = "none" /\ conn'[p].port = conn[p].port
        /\ \A q \in Processes \ {p} : conn'[q] = conn[q]
    BY <1>1, <1>3, SetFacts DEF Unknown, Faults, ConnectionSteps, ConnectionStates
  <2>2. device' \in Devices /\ device'.clients = device.clients /\ device'.stage = device.stage
    BY <1>1, <1>3 DEF Unknown, Devices
  <2>3. Standing(p)'
    BY <2>1, <2>2 DEF Standing, TransportInv, Ready
  <2>4. OneClientBelow'
    BY <2>2 DEF TransportInv, OneClientBelow
  <2>5. \A q \in Processes : Standing(q)'
    BY <2>1, <2>2, <2>3, StandingKept DEF TransportInv
  <2> QED
    BY <2>1, <2>2, <2>4, <2>5
<1> QED
  BY <1>2, <1>3

\* What is left to show of a call on a ready connection: the buffers and queues of its process.
LEMMA MemoryMoves ==
    ASSUME TransportInv, NEW p \in Processes, Ready(p), Answered \/ Unknown(p), BuffersTyped',
           hwQueue'[p] \subseteq queueRec'[p],
           \A q \in queueRec'[p] : q[1] \in mapped'[p] /\ q[2] \in mapped'[p],
           mapped'[p] \subseteq driverBO'[p],
           \A q \in Processes \ {p} : /\ driverBO'[q] = driverBO[q] /\ mapped'[q] = mapped[q]
                                      /\ hwQueue'[q] = hwQueue[q] /\ queueRec'[q] = queueRec[q]
    PROVE  TransportInv'
<1>1. /\ conn' \in [Processes -> Connections] /\ device' \in Devices /\ device'.clients = device.clients
      /\ conn'[p].state \in {"ready", "faulted"}
      /\ \A q \in Processes \ {p} : conn'[q] = conn[q]
      /\ OneClientBelow' /\ \A q \in Processes : Standing(q)'
  BY FaultKeeps
<1>2. Backing(p)'
  <2>1. \A q \in hwQueue'[p] : q[1] \in driverBO'[p] /\ q[2] \in driverBO'[p]
    OBVIOUS
  <2> QED
    BY <1>1, <2>1 DEF Backing
<1>3. \A q \in Processes \ {p} : Backing(q)'
  BY <1>1, BackingKept DEF TransportInv
<1>4. OneStop'
  <2> SUFFICES ASSUME NEW r \in Processes, conn'[r].state = "stopped"
               PROVE  /\ \A q \in Processes : conn'[q].state = "stopped" => q = r
                      /\ LastClient(r)' => \A q \in Processes : hwQueue'[q] = {}
    BY DEF OneStop
  <2>1. r # p /\ conn[r].state = "stopped" /\ p \in device.clients
    BY <1>1 DEF TransportInv, Standing, Ready
  <2>2. ~LastClient(r)'
    BY <1>1, <2>1 DEF LastClient
  <2> QED
    BY <1>1, <2>1, <2>2 DEF TransportInv, OneStop
<1> QED
  BY <1>1, <1>2, <1>3, <1>4 DEF TransportInv, TransportTypes

\* Buffers and queues: each call keeps the record of a queue, and the mappings it names, as long
\* as the firmware may run it, whether or not the outcome of the RPC is known.
LEMMA CallsKeep ==
    ASSUME TransportInv, NEW p \in Processes,
           \/ \E b \in SharedHandles : AllocateShared(p, b) \/ FreeShared(p, b)
           \/ \E r, m \in SharedHandles : CreateQueue(p, r, m)
           \/ DestroyQueue(p) \/ CallFails(p)
    PROVE  TransportInv'
<1>1. Ready(p) /\ (Answered \/ Unknown(p))
  BY DEF AllocateShared, FreeShared, CreateQueue, DestroyQueue, CallFails
<1> DEFINE Moved == /\ BuffersTyped'
                    /\ hwQueue'[p] \subseteq queueRec'[p]
                    /\ \A q \in queueRec'[p] : q[1] \in mapped'[p] /\ q[2] \in mapped'[p]
                    /\ mapped'[p] \subseteq driverBO'[p]
                    /\ \A q \in Processes \ {p} : /\ driverBO'[q] = driverBO[q] /\ mapped'[q] = mapped[q]
                                                  /\ hwQueue'[q] = hwQueue[q] /\ queueRec'[q] = queueRec[q]
<1>2. Moved => TransportInv'
  BY <1>1, MemoryMoves
<1>3. /\ BuffersTyped /\ hwQueue[p] \subseteq queueRec[p] /\ mapped[p] \subseteq driverBO[p]
      /\ \A q \in queueRec[p] : q[1] \in mapped[p] /\ q[2] \in mapped[p]
  BY <1>1 DEF TransportInv, TransportTypes, Backing, Connected, Ready
<1>4. ASSUME NEW b \in SharedHandles, AllocateShared(p, b)
      PROVE  Moved
  BY <1>3, <1>4 DEF AllocateShared, BuffersTyped
<1>5. ASSUME NEW b \in SharedHandles, FreeShared(p, b)
      PROVE  Moved
  <2>1. /\ mapped' = [mapped EXCEPT ![p] = @ \ {b}]
        /\ driverBO' = driverBO \/ driverBO' = [driverBO EXCEPT ![p] = @ \ {b}]
        /\ UNCHANGED <<hwQueue, queueRec>>
        /\ \A q \in queueRec[p] : q[1] # b /\ q[2] # b
    BY <1>5 DEF FreeShared, InQueue
  <2> QED
    BY <1>3, <2>1 DEF BuffersTyped
<1>6. ASSUME NEW r \in SharedHandles, NEW m \in SharedHandles, CreateQueue(p, r, m)
      PROVE  Moved
  <2>1. /\ r \in mapped[p] /\ m \in mapped[p] /\ UNCHANGED <<driverBO, mapped>>
        /\ queueRec' = [queueRec EXCEPT ![p] = @ \cup {<<r, m>>}]
        /\ hwQueue' = hwQueue \/ hwQueue' = [hwQueue EXCEPT ![p] = @ \cup {<<r, m>>}]
    BY <1>6 DEF CreateQueue
  <2> QED
    BY <1>3, <2>1 DEF BuffersTyped
<1>7. ASSUME DestroyQueue(p)
      PROVE  Moved
  BY <1>3, <1>7 DEF DestroyQueue, BuffersTyped
<1>8. ASSUME CallFails(p)
      PROVE  Moved
  BY <1>3, <1>8 DEF CallFails, SameMemory, BuffersTyped
<1> QED
  BY <1>2, <1>4, <1>5, <1>6, <1>7, <1>8 DEF AllocateShared, FreeShared, CreateQueue, DestroyQueue, CallFails

\* The invariant of the transport holds of every behaviour: any number of processes open, claim,
\* bring up, join, import, fail and close in any order (transport_iokit.cpp, device_init.cpp).
THEOREM TransportSafe == TransportSpec => []TransportInv
<1>1. TransportInv /\ [TransportNext]_transportVars => TransportInv'
  <2> SUFFICES ASSUME TransportInv, [TransportNext]_transportVars PROVE TransportInv'
    OBVIOUS
  <2>1. CASE UNCHANGED transportVars
    BY <2>1 DEF transportVars, TransportInv, TransportTypes, BuffersTyped, OneClientBelow, OneStop, LastClient,
                Standing, Backing, Connected
  <2>2. CASE TransportNext
    <3>1. PICK p \in Processes :
            \/ EnsureReady(p, FALSE) \/ EnsureReady(p, TRUE) \/ Claim(p) \/ ReadStage(p) \/ PrepareFirmware(p)
            \/ AdvanceBringUp(p) \/ ReadAccounting(p) \/ ImportProbe(p)
            \/ BeginClose(p) \/ UnmapShared(p) \/ ClosePort(p) \/ StopQueues(p) \/ FinishStop(p)
            \/ \E b \in SharedHandles : AllocateShared(p, b) \/ FreeShared(p, b)
            \/ \E r, m \in SharedHandles : CreateQueue(p, r, m)
            \/ DestroyQueue(p) \/ CallFails(p)
            \/ ShutdownGPU
      BY <2>2 DEF TransportNext
    <3> QED
      BY <3>1, ConnectKeeps, CloseKeeps, StopKeeps, FinishKeeps, CallsKeep
  <2> QED
    BY <2>1, <2>2
<1> QED
  BY <1>1, TransportInitInv, PTL DEF TransportSpec

\* A ready connection has a complete device under it, only a client that is alone resets and
\* advances it, and an unclaimed connection holds no port: for any number of processes.
THEOREM InitializerAlone == TransportSpec => []OneInitializer
<1>1. TransportInv => OneInitializer
  BY DEF TransportInv, TransportTypes, Connections, Standing, OneInitializer, Ready
<1> QED
  BY <1>1, TransportSafe, PTL

\* The ring and metadata of every queue the firmware may run stay held by the driver, and mapped
\* until nobody holds the connection: through every RPC whose outcome is unknown and every end of a
\* connection, for any number of processes and buffers.
THEOREM BackingKeptMapped == TransportSpec => []QueueBackingMapped
<1>1. TransportInv => QueueBackingMapped
  BY DEF TransportInv, Backing, QueueBackingMapped
<1> QED
  BY <1>1, TransportSafe, PTL

-----------------------------------------------------------------------------
(* Signals shared between processes                                        *)

Creating == {"opened", "locked", "creating"}
Attaching == {"probing", "orphan", "sharing", "shared", "attached", "leaving", "sole"}

IPCTypes ==
    /\ name \in {"absent", "present", "removed"}
    /\ token \in {"unknown", "written", "known"}
    /\ retired \in BOOLEAN
    /\ locks \in [Peers -> {"none", "SH", "EX"}]
    /\ process \in [Peers -> {"none", "dead"} \cup Creating \cup Attaching]

\* The lock a process holds at each step of a call, and that an exclusive lock is alone.
LocksHeld ==
    /\ \A p \in Peers : locks[p] = "SH" <=> process[p] \in {"shared", "attached"}
    /\ \A p \in Peers : locks[p] = "EX" <=> process[p] \in {"locked", "creating", "orphan", "sole"}
    /\ \A p, q \in Peers : locks[p] = "EX" /\ p # q => locks[q] = "none"

\* The name is created once, so there is one creator, and until it has handed the token out nobody
\* attaches and nothing is retired.
OneCreator ==
    /\ \A p, q \in Peers : process[p] \in Creating /\ process[q] \in Creating => p = q
    /\ name = "absent" => token = "unknown" /\ \A p \in Peers : process[p] = "none"
    /\ \A p \in Peers : process[p] \in Creating => token # "known"
    /\ token # "known" => ~retired /\ \A p \in Peers : process[p] \notin Attaching

IPCInv == IPCTypes /\ LocksHeld /\ OneCreator /\ RetiredStaysRetired

ProcessSteps == {"none", "dead"} \cup Creating \cup Attaching

\* The lock a process may hold once it has moved to step `next`.
LockFor(next) ==
    IF next \in {"shared", "attached"} THEN "SH"
    ELSE IF next \in {"locked", "creating", "orphan", "sole"} THEN "EX" ELSE "none"

\* flock: a process that moves to a step with the lock of that step keeps exclusive locks alone,
\* if it held the exclusive lock before or the kernel could grant what it asks for.
LEMMA LockMoves ==
    ASSUME IPCInv, NEW p \in Peers, NEW next \in ProcessSteps,
           process' = [process EXCEPT ![p] = next], locks' = [locks EXCEPT ![p] = LockFor(next)],
           LockFor(next) = "EX" => (locks[p] = "EX" \/ CanExclude(p)),
           LockFor(next) = "SH" => (locks[p] \in {"SH", "EX"} \/ CanShare(p))
    PROVE  /\ process' \in [Peers -> ProcessSteps] /\ locks' \in [Peers -> {"none", "SH", "EX"}]
           /\ process'[p] = next /\ \A q \in Peers : q # p => process'[q] = process[q]
           /\ LocksHeld'
<1> DEFINE l == LockFor(next)
<1>1. /\ process' \in [Peers -> ProcessSteps] /\ locks' \in [Peers -> {"none", "SH", "EX"}]
      /\ process'[p] = next /\ locks'[p] = l
      /\ \A q \in Peers : q # p => process'[q] = process[q] /\ locks'[q] = locks[q]
  BY DEF IPCInv, IPCTypes, ProcessSteps, LockFor
<1>2. /\ l = "SH" <=> next \in {"shared", "attached"}
      /\ l = "EX" <=> next \in {"locked", "creating", "orphan", "sole"}
  BY DEF LockFor
<1>3. ASSUME NEW q \in Peers, NEW r \in Peers, locks'[q] = "EX", q # r
      PROVE  locks'[r] = "none"
  <2>1. CASE q = p
    BY <1>1, <1>3, <2>1 DEF CanExclude, IPCInv, LocksHeld
  <2>2. CASE q # p /\ r # p
    BY <1>1, <1>3, <2>2 DEF IPCInv, LocksHeld
  <2>3. CASE r = p
    <3>1. locks[q] = "EX" /\ locks[p] = "none"
      BY <1>1, <1>3, <2>3 DEF IPCInv, LocksHeld
    <3>2. ~CanExclude(p) /\ ~CanShare(p)
      BY <1>3, <2>3, <3>1 DEF CanExclude, CanShare
    <3> QED
      BY <1>1, <2>3, <3>1, <3>2
  <2> QED
    BY <2>1, <2>2, <2>3
<1> HIDE DEF l
<1> QED
  BY <1>1, <1>2, <1>3 DEF IPCInv, LocksHeld

\* A process moves and the page and its name stay as they are.
LEMMA OneProcessMoves ==
    ASSUME IPCInv, NEW p \in Peers, NEW next \in ProcessSteps,
           process' = [process EXCEPT ![p] = next], locks' = [locks EXCEPT ![p] = LockFor(next)],
           LockFor(next) = "EX" => (locks[p] = "EX" \/ CanExclude(p)),
           LockFor(next) = "SH" => (locks[p] \in {"SH", "EX"} \/ CanShare(p)),
           UNCHANGED <<name, token, retired>>, name # "absent",
           next \in Creating => process[p] \in Creating,
           next \in Attaching => token = "known",
           next = "attached" => ~retired
    PROVE  IPCInv'
<1>1. /\ process' \in [Peers -> ProcessSteps] /\ locks' \in [Peers -> {"none", "SH", "EX"}]
      /\ process'[p] = next /\ \A q \in Peers : q # p => process'[q] = process[q]
      /\ LocksHeld'
  BY LockMoves
<1>2. IPCTypes'
  BY <1>1 DEF IPCInv, IPCTypes, ProcessSteps
<1>3. OneCreator'
  BY <1>1 DEF IPCInv, OneCreator
<1>4. RetiredStaysRetired'
  BY <1>1 DEF IPCInv, RetiredStaysRetired
<1> QED
  BY <1>1, <1>2, <1>3, <1>4 DEF IPCInv

\* Where a process that is doing something stands.
LEMMA BusyPeer ==
    ASSUME IPCInv, NEW p \in Peers, process[p] # "none"
    PROVE  /\ name # "absent"
           /\ process[p] \in Attaching => token = "known"
           /\ process[p] \in Creating => token # "known" /\ ~retired
BY DEF IPCInv, IPCTypes, OneCreator

\* Creation keeps the invariant (create of ipc_signal.cpp).
LEMMA CreateKeeps ==
    ASSUME IPCInv, NEW p \in Peers, CreateOpen(p) \/ CreateLock(p) \/ CreateFill(p) \/ CreateShare(p)
    PROVE  IPCInv'
<1>1. CASE CreateOpen(p)
  <2>1. /\ process' = [process EXCEPT ![p] = "opened"] /\ locks' = [locks EXCEPT ![p] = LockFor("opened")]
        /\ LockFor("opened") = "none" /\ "opened" \in ProcessSteps
    BY <1>1 DEF CreateOpen, Step, LockFor, ProcessSteps, Creating
  <2>2. /\ process' \in [Peers -> ProcessSteps] /\ locks' \in [Peers -> {"none", "SH", "EX"}]
        /\ process'[p] = "opened" /\ \A q \in Peers : q # p => process'[q] = process[q]
        /\ LocksHeld'
    BY <2>1, LockMoves
  <2>3. \A q \in Peers : process[q] = "none"
    BY <1>1 DEF CreateOpen, IPCInv, OneCreator
  <2>4. token # "known"
    BY <1>1 DEF CreateOpen, IPCInv, OneCreator
  <2> QED
    BY <1>1, <2>2, <2>3, <2>4
       DEF CreateOpen, IPCInv, IPCTypes, ProcessSteps, Creating, Attaching, OneCreator, RetiredStaysRetired
<1>2. CASE CreateLock(p)
  BY <1>2, BusyPeer, OneProcessMoves DEF CreateLock, Step, LockFor, ProcessSteps, Creating, Attaching
<1>3. CASE CreateFill(p)
  <2>0. /\ process[p] \in Creating /\ locks[p] = "EX" /\ UNCHANGED retired /\ process[p] # "none"
        /\ token # "known" /\ ~retired /\ name # "absent"
    BY <1>3, BusyPeer DEF CreateFill, Creating, IPCInv, LocksHeld
  <2>1. PICK next \in {"creating", "none"} :
            /\ process' = [process EXCEPT ![p] = next] /\ locks' = [locks EXCEPT ![p] = LockFor(next)]
            /\ \/ token' = "written" /\ UNCHANGED name
               \/ name' = "removed" /\ UNCHANGED token
    BY <1>3 DEF CreateFill, Step, LockFor
  <2>2. /\ process' \in [Peers -> ProcessSteps] /\ locks' \in [Peers -> {"none", "SH", "EX"}]
        /\ process'[p] = next /\ \A q \in Peers : q # p => process'[q] = process[q]
        /\ LocksHeld'
    BY <2>0, <2>1, LockMoves DEF ProcessSteps, Creating, LockFor
  <2>3. token' # "known" /\ name' # "absent"
    BY <2>0, <2>1
  <2>4. IPCTypes'
    BY <2>0, <2>1, <2>2 DEF IPCInv, IPCTypes, ProcessSteps
  <2>5. OneCreator'
    BY <2>0, <2>1, <2>2, <2>3 DEF IPCInv, OneCreator, Creating, Attaching
  <2> QED
    BY <2>0, <2>2, <2>4, <2>5 DEF IPCInv, RetiredStaysRetired
<1>4. CASE CreateShare(p)
  <2>0. /\ process[p] \in Creating /\ locks[p] = "EX" /\ UNCHANGED <<name, retired>> /\ process[p] # "none"
        /\ token # "known" /\ ~retired /\ name # "absent" /\ token' = "known"
    BY <1>4, BusyPeer DEF CreateShare, Creating, IPCInv, LocksHeld
  <2>1. process' = [process EXCEPT ![p] = "attached"] /\ locks' = [locks EXCEPT ![p] = LockFor("attached")]
    BY <1>4 DEF CreateShare, Step, LockFor
  <2>2. /\ process' \in [Peers -> ProcessSteps] /\ locks' \in [Peers -> {"none", "SH", "EX"}]
        /\ process'[p] = "attached" /\ \A q \in Peers : q # p => process'[q] = process[q]
        /\ LocksHeld'
    BY <2>0, <2>1, LockMoves DEF ProcessSteps, Attaching, LockFor
  <2>3. \A q \in Peers : q # p => process[q] \notin Creating
    BY <2>0 DEF IPCInv, OneCreator
  <2>4. IPCTypes'
    BY <2>0, <2>2 DEF IPCInv, IPCTypes, ProcessSteps
  <2>5. OneCreator'
    BY <2>0, <2>2, <2>3 DEF IPCInv, OneCreator, Creating
  <2> QED
    BY <2>0, <2>2, <2>4, <2>5 DEF IPCInv, RetiredStaysRetired
<1> QED
  BY <1>1, <1>2, <1>3, <1>4

\* Attachment keeps the invariant, however its open, probe, lock and check interleave with other
\* processes (attach of ipc_signal.cpp).
LEMMA AttachKeeps ==
    ASSUME IPCInv, NEW p \in Peers,
           AttachOpen(p) \/ AttachProbe(p) \/ AttachOrphan(p) \/ AttachShare(p) \/ AttachVerify(p)
    PROVE  IPCInv'
<1>0. ProcessSteps = {"none", "dead", "opened", "locked", "creating", "probing", "orphan", "sharing",
                      "shared", "attached", "leaving", "sole"}
  BY DEF ProcessSteps, Creating, Attaching
<1>1. CASE AttachOpen(p)
  BY <1>0, <1>1, OneProcessMoves DEF AttachOpen, Step, LockFor, Creating
<1>2. CASE AttachProbe(p)
  <2>1. process[p] # "none" /\ process[p] \in Attaching
    BY <1>2 DEF AttachProbe, Attaching
  <2>2. CASE CanExclude(p)
    BY <1>0, <1>2, <2>1, <2>2, BusyPeer, OneProcessMoves DEF AttachProbe, Step, LockFor, Creating
  <2>3. CASE ~CanExclude(p)
    BY <1>0, <1>2, <2>1, <2>3, BusyPeer, OneProcessMoves DEF AttachProbe, Step, LockFor, Creating
  <2> QED
    BY <2>2, <2>3
<1>3. CASE AttachOrphan(p)
  <2>1. /\ process[p] # "none" /\ process' = [process EXCEPT ![p] = "none"] /\ LockFor("none") = "none"
        /\ locks' = [locks EXCEPT ![p] = LockFor("none")] /\ "none" \in ProcessSteps
    BY <1>0, <1>3 DEF AttachOrphan, Step, LockFor
  <2>2. /\ process' \in [Peers -> ProcessSteps] /\ locks' \in [Peers -> {"none", "SH", "EX"}]
        /\ process'[p] = "none" /\ \A q \in Peers : q # p => process'[q] = process[q]
        /\ LocksHeld'
    BY <2>1, LockMoves
  <2> QED
    BY <1>3, <2>2 DEF AttachOrphan, IPCInv, IPCTypes, ProcessSteps, Creating, Attaching, OneCreator, RetiredStaysRetired
<1>4. CASE AttachShare(p)
  <2>1. process[p] # "none" /\ process[p] \in Attaching
    BY <1>4 DEF AttachShare, Attaching
  <2>2. CASE CanShare(p)
    BY <1>0, <1>4, <2>1, <2>2, BusyPeer, OneProcessMoves DEF AttachShare, Step, LockFor, Creating
  <2>3. CASE ~CanShare(p)
    BY <1>0, <1>4, <2>1, <2>3, BusyPeer, OneProcessMoves DEF AttachShare, Step, LockFor, Creating, Attaching
  <2> QED
    BY <2>2, <2>3
<1>5. CASE AttachVerify(p)
  <2>1. process[p] # "none" /\ process[p] \in Attaching /\ locks[p] = "SH"
    BY <1>5 DEF AttachVerify, Attaching, IPCInv, LocksHeld
  <2>2. CASE retired
    BY <1>0, <1>5, <2>1, <2>2, BusyPeer, OneProcessMoves DEF AttachVerify, Leave, LockFor, Creating, Attaching
  <2>3. CASE ~retired
    BY <1>0, <1>5, <2>1, <2>3, BusyPeer, OneProcessMoves DEF AttachVerify, Step, LockFor, Creating
  <2> QED
    BY <2>2, <2>3
<1> QED
  BY <1>1, <1>2, <1>3, <1>4, <1>5

\* Detachment and the death of a process keep the invariant: who retires the page holds the
\* exclusive lock, so nobody is attached (~SharedSignal of ipc_signal.cpp).
LEMMA DetachKeeps ==
    ASSUME IPCInv, NEW p \in Peers,
           DetachUnlock(p) \/ DetachProbe(p) \/ DetachRetire(p) \/ Dies(p)
    PROVE  IPCInv'
<1>0. ProcessSteps = {"none", "dead", "opened", "locked", "creating", "probing", "orphan", "sharing",
                      "shared", "attached", "leaving", "sole"}
  BY DEF ProcessSteps, Creating, Attaching
<1>1. CASE DetachUnlock(p)
  <2>1. process[p] # "none" /\ process[p] \in Attaching
    BY <1>1 DEF DetachUnlock, Attaching
  <2> QED
    BY <1>0, <1>1, <2>1, BusyPeer, OneProcessMoves DEF DetachUnlock, Step, LockFor, Creating
<1>2. CASE DetachProbe(p)
  <2>1. process[p] # "none" /\ process[p] \in Attaching
    BY <1>2 DEF DetachProbe, Attaching
  <2>2. CASE CanExclude(p)
    BY <1>0, <1>2, <2>1, <2>2, BusyPeer, OneProcessMoves DEF DetachProbe, Step, LockFor, Creating
  <2>3. CASE ~CanExclude(p)
    BY <1>0, <1>2, <2>1, <2>3, BusyPeer, OneProcessMoves DEF DetachProbe, Leave, LockFor, Creating, Attaching
  <2> QED
    BY <2>2, <2>3
<1>3. CASE DetachRetire(p)
  <2>1. /\ process[p] = "sole" /\ process' = [process EXCEPT ![p] = "none"] /\ LockFor("none") = "none"
        /\ locks' = [locks EXCEPT ![p] = LockFor("none")] /\ "none" \in ProcessSteps
    BY <1>0, <1>3 DEF DetachRetire, Leave, LockFor
  <2>2. /\ process' \in [Peers -> ProcessSteps] /\ locks' \in [Peers -> {"none", "SH", "EX"}]
        /\ process'[p] = "none" /\ \A q \in Peers : q # p => process'[q] = process[q]
        /\ LocksHeld'
    BY <2>1, LockMoves
  <2>3. token = "known" /\ UNCHANGED token
    BY <1>3, <2>1, BusyPeer DEF DetachRetire, Attaching
  <2>4. \A q \in Peers : q # p => process[q] # "attached"
    BY <2>1 DEF IPCInv, LocksHeld
  <2> QED
    BY <1>3, <2>2, <2>3, <2>4
       DEF DetachRetire, IPCInv, IPCTypes, ProcessSteps, Creating, Attaching, OneCreator, RetiredStaysRetired
<1>4. CASE Dies(p)
  BY <1>0, <1>4, BusyPeer, OneProcessMoves DEF Dies, Leave, LockFor, Creating, Attaching
<1> QED
  BY <1>1, <1>2, <1>3, <1>4

\* The invariant of a shared signal holds of every behaviour of any number of processes.
THEOREM SharedSignalSafe == IPCSpec => []IPCInv
<1>1. IPCInit => IPCInv
  BY DEF IPCInit, IPCInv, IPCTypes, LocksHeld, OneCreator, RetiredStaysRetired, Creating, Attaching
<1>2. IPCInv /\ [IPCNext]_ipcVars => IPCInv'
  <2> SUFFICES ASSUME IPCInv, [IPCNext]_ipcVars PROVE IPCInv'
    OBVIOUS
  <2>1. CASE UNCHANGED ipcVars
    BY <2>1 DEF ipcVars, IPCInv, IPCTypes, LocksHeld, OneCreator, RetiredStaysRetired
  <2>2. CASE IPCNext
    BY <2>2, CreateKeeps, AttachKeeps, DetachKeeps DEF IPCNext
  <2> QED
    BY <2>1, <2>2
<1> QED
  BY <1>1, <1>2, PTL DEF IPCSpec

\* Nobody attaches to a page after its last holder has retired it, however a late attacher's open,
\* probe and lock interleave with the departure: for any number of processes.
THEOREM RetiredForGood == IPCSpec => []RetiredStaysRetired
BY SharedSignalSafe, PTL DEF IPCInv

-----------------------------------------------------------------------------
(* The sample slot                                                         *)

Samples == [seq : Nat, busy : Nat, ref : Nat, clock : Nat]
Readings == [at : {"idle", "busy", "ref", "clock", "seq1"}, seq0 : Nat, seq1 : Nat, busy : Nat,
             ref : Nat, clock : Nat, status : {"none", "unsupported", "notReady", "success"}]

SQTypes ==
    /\ sqSlot \in [owner : Workloads \cup {"none"}, buffer : Workloads \cup {"none"}]
    /\ bo \in [Workloads -> {"none", "live"}]
    /\ sample \in [Workloads -> Samples]
    /\ profiler \in [Workloads -> {"idle", "busy", "ref", "clock", "even"}]
    /\ observer \in Readings

\* The driver's slot points at a live buffer of its owner, or nowhere.
SlotLive ==
    /\ sqSlot.buffer = sqSlot.owner
    /\ sqSlot.owner # "none" => bo[sqSlot.owner] = "live"

\* The words of a live buffer, by how far its profiler is: an even sequence number 2m stands over
\* sample m, and an odd one, 2m + 1, over a mixture of samples m and m + 1.
Words(s, at) ==
    \E m \in Nat :
        /\ s.seq = IF at = "idle" THEN 2 * m ELSE 2 * m + 1
        /\ s.busy = IF at \in {"idle", "busy"} THEN m ELSE m + 1
        /\ s.ref = IF at \in {"idle", "busy", "ref"} THEN m ELSE m + 1
        /\ s.clock = IF at \in {"idle", "busy", "ref", "clock"} THEN m ELSE m + 1

BufferWords ==
    \A c \in Workloads : IF bo[c] = "live" THEN Words(sample[c], profiler[c]) ELSE profiler[c] = "idle"

\* An observer in the middle of its loads reads a live buffer; if the sequence number is still the
\* even one it began with, every word it has loaded is of that sample.
ReadingConsistent ==
    observer.at # "idle" =>
        /\ sqSlot.owner # "none" /\ observer.status = "none"
        /\ observer.seq0 <= sample[sqSlot.buffer].seq
        /\ \A m \in Nat : observer.seq0 = 2 * m /\ sample[sqSlot.buffer].seq = 2 * m =>
              /\ observer.at \in {"ref", "clock", "seq1"} => observer.busy = m
              /\ observer.at \in {"clock", "seq1"} => observer.ref = m
              /\ observer.at = "seq1" => observer.clock = m

SQInv == SQTypes /\ SlotLive /\ BufferWords /\ ReadingConsistent /\ SampleNotTorn

\* Before anything is registered.
LEMMA SQInitInv == SQInit => SQInv
BY SQAssumption DEF SQInit, SQInv, SQTypes, SlotLive, BufferWords, ReadingConsistent, SampleNotTorn,
       EmptySlot, NoSample, NotReading, Samples, Readings

\* Allocating, registering and releasing a buffer keep the invariant: the slot goes with its
\* buffer (BOFree, Stop and RegisterSqSlot of MacAMDGPU.cpp).
LEMMA RegisterKeeps ==
    ASSUME SQInv, NEW c \in Workloads, AllocateBO(c) \/ RegisterSqSlot(c) \/ ReleaseBO(c)
    PROVE  SQInv'
<1>0. observer.at = "idle" /\ UNCHANGED observer /\ c # "none"
  BY SQAssumption DEF AllocateBO, RegisterSqSlot, ReleaseBO, QueueFree
<1>1. CASE AllocateBO(c)
  <2>1. NoSample \in Samples /\ (profiler[c] = "idle" => Words(NoSample, profiler[c]))
    BY DEF NoSample, Samples, Words
  <2>2. profiler[c] = "idle"
    BY <1>1 DEF AllocateBO, SQInv, BufferWords
  <2> QED
    BY <1>0, <1>1, <2>1, <2>2
       DEF AllocateBO, SQInv, SQTypes, SlotLive, BufferWords, ReadingConsistent, SampleNotTorn
<1>2. CASE RegisterSqSlot(c)
  BY <1>0, <1>2 DEF RegisterSqSlot, SQInv, SQTypes, SlotLive, BufferWords, ReadingConsistent, SampleNotTorn
<1>3. CASE ReleaseBO(c)
  BY <1>0, <1>3 DEF ReleaseBO, SQInv, SQTypes, SlotLive, BufferWords, ReadingConsistent, SampleNotTorn, EmptySlot
<1> QED
  BY <1>1, <1>2, <1>3

\* What the profiler's next store does to the words: the sequence number never goes back, and it
\* is even only when the payload is of one sample.
LEMMA PublishWords ==
    ASSUME SQInv, NEW c \in Workloads, Publish(c)
    PROVE  /\ sample' \in [Workloads -> Samples]
           /\ profiler' \in [Workloads -> {"idle", "busy", "ref", "clock", "even"}]
           /\ Words(sample'[c], profiler'[c])
           /\ sample[c].seq <= sample'[c].seq
           /\ \A m \in Nat : sample'[c].seq = 2 * m => sample[c].seq # 2 * m
           /\ \A d \in Workloads \ {c} : sample'[d] = sample[d] /\ profiler'[d] = profiler[d]
<1> DEFINE s == sample[c]
           n == (s.seq + 1) \div 2
<1>1. s \in Samples /\ sample \in [Workloads -> Samples] /\ bo[c] = "live"
      /\ profiler \in [Workloads -> {"idle", "busy", "ref", "clock", "even"}]
  BY DEF SQInv, SQTypes, Publish
<1>2. PICK m \in Nat :
        /\ s.seq = IF profiler[c] = "idle" THEN 2 * m ELSE 2 * m + 1
        /\ s.busy = IF profiler[c] \in {"idle", "busy"} THEN m ELSE m + 1
        /\ s.ref = IF profiler[c] \in {"idle", "busy", "ref"} THEN m ELSE m + 1
        /\ s.clock = IF profiler[c] \in {"idle", "busy", "ref", "clock"} THEN m ELSE m + 1
  <2>1. Words(s, profiler[c])
    BY <1>1 DEF SQInv, BufferWords
  <2> HIDE DEF s
  <2> QED
    BY <2>1 DEF Words
<1>3. profiler[c] # "idle" => n = m + 1
  BY <1>2
<1> HIDE DEF n
<1>4. PICK r \in Samples, a \in {"idle", "busy", "ref", "clock", "even"} :
        /\ sample' = [sample EXCEPT ![c] = r] /\ profiler' = [profiler EXCEPT ![c] = a]
        /\ \/ profiler[c] = "idle" /\ a = "busy" /\ r.seq = s.seq + 1 /\ r.busy = s.busy /\ r.ref = s.ref /\ r.clock = s.clock
           \/ profiler[c] = "busy" /\ a = "ref" /\ r.seq = s.seq /\ r.busy = n /\ r.ref = s.ref /\ r.clock = s.clock
           \/ profiler[c] = "ref" /\ a = "clock" /\ r.seq = s.seq /\ r.busy = s.busy /\ r.ref = n /\ r.clock = s.clock
           \/ profiler[c] = "clock" /\ a = "even" /\ r.seq = s.seq /\ r.busy = s.busy /\ r.ref = s.ref /\ r.clock = n
           \/ profiler[c] = "even" /\ a = "idle" /\ r.seq = s.seq + 1 /\ r.busy = s.busy /\ r.ref = s.ref /\ r.clock = s.clock
  <2>1. CASE profiler[c] = "idle"
    <3> DEFINE r == [s EXCEPT !.seq = s.seq + 1]
    <3>1. r \in Samples /\ r.seq = s.seq + 1 /\ r.busy = s.busy /\ r.ref = s.ref /\ r.clock = s.clock
      BY <1>1 DEF Samples
    <3>2. sample' = [sample EXCEPT ![c] = r] /\ profiler' = [profiler EXCEPT ![c] = "busy"]
      BY <1>1, <2>1 DEF Publish
    <3> HIDE DEF r
    <3> QED
      BY <2>1, <3>1, <3>2
  <2>2. CASE profiler[c] = "busy"
    <3> DEFINE r == [s EXCEPT !.busy = n]
    <3>1. r \in Samples /\ r.seq = s.seq /\ r.busy = n /\ r.ref = s.ref /\ r.clock = s.clock
      BY <1>1, <1>3, <2>2 DEF Samples
    <3>2. sample' = [sample EXCEPT ![c] = r] /\ profiler' = [profiler EXCEPT ![c] = "ref"]
      BY <1>1, <2>2 DEF Publish, n
    <3> HIDE DEF r
    <3> QED
      BY <2>2, <3>1, <3>2
  <2>3. CASE profiler[c] = "ref"
    <3> DEFINE r == [s EXCEPT !.ref = n]
    <3>1. r \in Samples /\ r.seq = s.seq /\ r.busy = s.busy /\ r.ref = n /\ r.clock = s.clock
      BY <1>1, <1>3, <2>3 DEF Samples
    <3>2. sample' = [sample EXCEPT ![c] = r] /\ profiler' = [profiler EXCEPT ![c] = "clock"]
      BY <1>1, <2>3 DEF Publish, n
    <3> HIDE DEF r
    <3> QED
      BY <2>3, <3>1, <3>2
  <2>4. CASE profiler[c] = "clock"
    <3> DEFINE r == [s EXCEPT !.clock = n]
    <3>1. r \in Samples /\ r.seq = s.seq /\ r.busy = s.busy /\ r.ref = s.ref /\ r.clock = n
      BY <1>1, <1>3, <2>4 DEF Samples
    <3>2. sample' = [sample EXCEPT ![c] = r] /\ profiler' = [profiler EXCEPT ![c] = "even"]
      BY <1>1, <2>4 DEF Publish, n
    <3> HIDE DEF r
    <3> QED
      BY <2>4, <3>1, <3>2
  <2>5. CASE profiler[c] = "even"
    <3> DEFINE r == [s EXCEPT !.seq = s.seq + 1]
    <3>1. r \in Samples /\ r.seq = s.seq + 1 /\ r.busy = s.busy /\ r.ref = s.ref /\ r.clock = s.clock
      BY <1>1 DEF Samples
    <3>2. sample' = [sample EXCEPT ![c] = r] /\ profiler' = [profiler EXCEPT ![c] = "idle"]
      BY <1>1, <2>5 DEF Publish
    <3> HIDE DEF r
    <3> QED
      BY <2>5, <3>1, <3>2
  <2> QED
    BY <1>1, <2>1, <2>2, <2>3, <2>4, <2>5
<1>5. /\ sample'[c] = r /\ profiler'[c] = a
      /\ \A d \in Workloads \ {c} : sample'[d] = sample[d] /\ profiler'[d] = profiler[d]
      /\ sample' \in [Workloads -> Samples]
      /\ profiler' \in [Workloads -> {"idle", "busy", "ref", "clock", "even"}]
  BY <1>1, <1>4
<1>6. Words(r, a)
  <2> DEFINE k == IF a = "idle" THEN m + 1 ELSE m
  <2>1. k \in Nat
    OBVIOUS
  <2>2. /\ r.seq = IF a = "idle" THEN 2 * k ELSE 2 * k + 1
        /\ r.busy = IF a \in {"idle", "busy"} THEN k ELSE k + 1
        /\ r.ref = IF a \in {"idle", "busy", "ref"} THEN k ELSE k + 1
        /\ r.clock = IF a \in {"idle", "busy", "ref", "clock"} THEN k ELSE k + 1
    BY <1>2, <1>3, <1>4
  <2> HIDE DEF k
  <2> QED
    BY <2>1, <2>2 DEF Words
<1>7. s.seq <= r.seq /\ \A i \in Nat : r.seq = 2 * i => s.seq # 2 * i
  BY <1>2, <1>4
<1> QED
  BY <1>5, <1>6, <1>7

\* The profiler's stores keep the invariant though an observer is between two loads.
LEMMA PublishKeeps ==
    ASSUME SQInv, NEW c \in Workloads, Publish(c)
    PROVE  SQInv'
<1>1. /\ sample' \in [Workloads -> Samples]
      /\ profiler' \in [Workloads -> {"idle", "busy", "ref", "clock", "even"}]
      /\ Words(sample'[c], profiler'[c])
      /\ sample[c].seq <= sample'[c].seq
      /\ \A m \in Nat : sample'[c].seq = 2 * m => sample[c].seq # 2 * m
      /\ \A d \in Workloads \ {c} : sample'[d] = sample[d] /\ profiler'[d] = profiler[d]
  BY PublishWords
<1>2. UNCHANGED <<sqSlot, bo, observer>> /\ bo[c] = "live"
  BY DEF Publish
<1>3. SQTypes' /\ SlotLive' /\ SampleNotTorn'
  BY <1>1, <1>2 DEF SQInv, SQTypes, SlotLive, SampleNotTorn
<1>4. BufferWords'
  <2> SUFFICES ASSUME NEW d \in Workloads
               PROVE  IF bo'[d] = "live" THEN Words(sample'[d], profiler'[d]) ELSE profiler'[d] = "idle"
    BY DEF BufferWords, Words
  <2>1. IF bo[d] = "live" THEN Words(sample[d], profiler[d]) ELSE profiler[d] = "idle"
    BY DEF SQInv, BufferWords
  <2>2. CASE d = c
    BY <1>1, <1>2, <2>2
  <2>3. CASE d # c
    BY <1>1, <1>2, <2>1, <2>3
  <2> QED
    BY <2>2, <2>3
<1>5. ReadingConsistent'
  <2> SUFFICES ASSUME observer.at # "idle" PROVE ReadingConsistent'
    BY <1>2 DEF ReadingConsistent
  <2>1. sqSlot.owner \in Workloads /\ sqSlot.buffer = sqSlot.owner
    BY DEF SQInv, SQTypes, SlotLive, ReadingConsistent
  <2>2. CASE sqSlot.buffer = c
    <3>1. /\ observer.seq0 \in Nat /\ sample[c].seq \in Nat /\ sample'[c].seq \in Nat
          /\ observer.seq0 <= sample[c].seq
      BY <1>1, <2>2 DEF SQInv, SQTypes, Samples, Readings, ReadingConsistent
    <3>2. observer.seq0 <= sample'[c].seq
      BY <1>1, <3>1
    <3>3. \A m \in Nat : ~(observer.seq0 = 2 * m /\ sample'[c].seq = 2 * m)
      BY <1>1, <3>1
    <3> QED
      BY <1>2, <2>2, <3>2, <3>3 DEF SQInv, ReadingConsistent
  <2>3. CASE sqSlot.buffer # c
    <3>1. sample'[sqSlot.buffer] = sample[sqSlot.buffer]
      BY <1>1, <2>1, <2>3
    <3>2. ReadingConsistent
      BY DEF SQInv
    <3> QED
      BY <1>2, <3>1, <3>2 DEF ReadingConsistent
  <2> QED
    BY <2>2, <2>3
<1> QED
  BY <1>3, <1>4, <1>5 DEF SQInv

\* The even sequence number 2m of a live buffer stands over the words of sample m.
LEMMA EvenIsWhole ==
    ASSUME SQInv, NEW c \in Workloads, bo[c] = "live", NEW m \in Nat, sample[c].seq = 2 * m
    PROVE  sample[c].busy = m /\ sample[c].ref = m /\ sample[c].clock = m
<1>1. Words(sample[c], profiler[c])
  BY DEF SQInv, BufferWords
<1>2. PICK k \in Nat :
        /\ sample[c].seq = IF profiler[c] = "idle" THEN 2 * k ELSE 2 * k + 1
        /\ sample[c].busy = IF profiler[c] \in {"idle", "busy"} THEN k ELSE k + 1
        /\ sample[c].ref = IF profiler[c] \in {"idle", "busy", "ref"} THEN k ELSE k + 1
        /\ sample[c].clock = IF profiler[c] \in {"idle", "busy", "ref", "clock"} THEN k ELSE k + 1
  BY <1>1 DEF Words
<1>3. profiler[c] = "idle" /\ k = m
  BY <1>2
<1> QED
  BY <1>2, <1>3

\* An answer other than success leaves the observer idle, with nothing to say.
LEMMA AnswerKeeps ==
    ASSUME SQInv, NEW status \in {"unsupported", "notReady"}, observer' = Answer(status),
           sqSlot' \in {sqSlot, EmptySlot}, UNCHANGED <<bo, sample, profiler>>
    PROVE  SQInv'
<1>1. observer' \in Readings /\ observer'.at = "idle" /\ observer'.status = status
  BY DEF Answer, NotReading, Readings
<1> QED
  BY <1>1, SQAssumption
     DEF SQInv, SQTypes, SlotLive, BufferWords, ReadingConsistent, SampleNotTorn, EmptySlot

\* The first load of an observer's call.
LEMMA ReadBeginKeeps ==
    ASSUME SQInv, ReadBegin
    PROVE  SQInv'
<1>1. CASE ~(sqSlot.buffer # "none" /\ bo[sqSlot.owner] = "live")
  BY <1>1, AnswerKeeps DEF ReadBegin
<1>2. CASE sqSlot.buffer # "none" /\ bo[sqSlot.owner] = "live"
  <2> DEFINE seq == sample[sqSlot.buffer].seq
             r == [NotReading EXCEPT !.at = "busy", !.seq0 = seq]
  <2>1. sqSlot.buffer \in Workloads /\ seq \in Nat
    BY <1>2 DEF SQInv, SQTypes, Samples
  <2>2. r \in Readings /\ r.at = "busy" /\ r.seq0 = seq /\ r.status = "none"
    BY <2>1 DEF NotReading, Readings
  <2>3. observer' = r /\ UNCHANGED <<sqSlot, bo, sample, profiler>>
    BY <1>2 DEF ReadBegin
  <2>4. seq <= seq
    BY <2>1
  <2> HIDE DEF r
  <2> QED
    BY <1>2, <2>1, <2>2, <2>3, <2>4
       DEF SQInv, SQTypes, SlotLive, BufferWords, ReadingConsistent, SampleNotTorn
<1> QED
  BY <1>1, <1>2

\* The three loads of the payload: while the sequence number is the even one read first, each
\* load takes a word of that sample.
LEMMA ReadPayloadKeeps ==
    ASSUME SQInv, ReadPayload
    PROVE  SQInv'
<1> DEFINE b == sqSlot.buffer
           s == sample[b]
<1>1. /\ b \in Workloads /\ b = sqSlot.owner /\ bo[b] = "live" /\ s \in Samples /\ observer \in Readings
      /\ observer.at \in {"busy", "ref", "clock"}
      /\ observer.status = "none" /\ UNCHANGED <<sqSlot, bo, sample, profiler>>
  BY DEF SQInv, SQTypes, SlotLive, ReadingConsistent, ReadPayload
<1>2. \A m \in Nat : s.seq = 2 * m => s.busy = m /\ s.ref = m /\ s.clock = m
  BY <1>1, EvenIsWhole
<1>3. /\ observer.seq0 <= s.seq
      /\ \A m \in Nat : observer.seq0 = 2 * m /\ s.seq = 2 * m =>
            /\ observer.at \in {"ref", "clock", "seq1"} => observer.busy = m
            /\ observer.at \in {"clock", "seq1"} => observer.ref = m
  BY <1>1 DEF SQInv, ReadingConsistent
<1>4. /\ observer' \in Readings
      /\ observer'.seq0 = observer.seq0 /\ observer'.status = "none"
      /\ \/ observer.at = "busy" /\ observer'.at = "ref" /\ observer'.busy = s.busy
         \/ observer.at = "ref" /\ observer'.at = "clock" /\ observer'.ref = s.ref /\ observer'.busy = observer.busy
         \/ /\ observer.at = "clock" /\ observer'.at = "seq1" /\ observer'.clock = s.clock
            /\ observer'.busy = observer.busy /\ observer'.ref = observer.ref
  <2>1. CASE observer.at = "busy"
    <3>1. observer' = [observer EXCEPT !.at = "ref", !.busy = s.busy]
      BY <2>1 DEF ReadPayload
    <3> HIDE DEF s
    <3> QED
      BY <1>1, <2>1, <3>1 DEF Readings, Samples
  <2>2. CASE observer.at = "ref"
    <3>1. observer' = [observer EXCEPT !.at = "clock", !.ref = s.ref]
      BY <2>2 DEF ReadPayload
    <3> HIDE DEF s
    <3> QED
      BY <1>1, <2>2, <3>1 DEF Readings, Samples
  <2>3. CASE observer.at = "clock"
    <3>1. observer' = [observer EXCEPT !.at = "seq1", !.clock = s.clock]
      BY <2>3 DEF ReadPayload
    <3> HIDE DEF s
    <3> QED
      BY <1>1, <2>3, <3>1 DEF Readings, Samples
  <2> QED
    BY <1>1, <2>1, <2>2, <2>3
<1>5. ReadingConsistent'
  <2>1. \A m \in Nat : observer'.seq0 = 2 * m /\ s.seq = 2 * m =>
              /\ observer'.at \in {"ref", "clock", "seq1"} => observer'.busy = m
              /\ observer'.at \in {"clock", "seq1"} => observer'.ref = m
              /\ observer'.at = "seq1" => observer'.clock = m
    BY <1>2, <1>3, <1>4
  <2>2. sqSlot.owner # "none"
    BY <1>1, SQAssumption
  <2> QED
    BY <1>1, <1>3, <1>4, <2>1, <2>2 DEF ReadingConsistent
<1>6. SQTypes' /\ SlotLive' /\ BufferWords' /\ SampleNotTorn'
  BY <1>1, <1>4 DEF SQInv, SQTypes, SlotLive, BufferWords, SampleNotTorn
<1> QED
  BY <1>5, <1>6 DEF SQInv

\* The second look at the sequence number: a success has words of one sample.
LEMMA ReadEndKeeps ==
    ASSUME SQInv, ReadEnd
    PROVE  SQInv'
<1> DEFINE seq == sample[sqSlot.buffer].seq
<1>1. CASE observer.seq0 = 0 \/ observer.seq0 % 2 = 1 \/ observer.seq0 # seq
  BY <1>1, AnswerKeeps DEF ReadEnd
<1>2. CASE ~(observer.seq0 = 0 \/ observer.seq0 % 2 = 1 \/ observer.seq0 # seq)
  <2>1. observer.at = "seq1" /\ observer.seq0 = seq /\ UNCHANGED <<sqSlot, bo, sample, profiler>>
        /\ observer' = [observer EXCEPT !.at = "idle", !.seq1 = seq, !.status = "success"]
        /\ observer \in Readings /\ seq \in Nat
    BY <1>2 DEF ReadEnd, SQInv, SQTypes, Readings
  <2>2. /\ observer' \in Readings /\ observer'.at = "idle" /\ observer'.seq1 = seq
        /\ observer'.busy = observer.busy /\ observer'.ref = observer.ref /\ observer'.clock = observer.clock
    <3> HIDE DEF seq
    <3> QED
      BY <2>1 DEF Readings
  <2>3. PICK m \in Nat : seq = 2 * m /\ m > 0 /\ m = seq \div 2
    <3> HIDE DEF seq
    <3>1. seq % 2 # 1 /\ seq # 0
      BY <1>2, <2>1
    <3>2. seq \div 2 \in Nat /\ seq = 2 * (seq \div 2) /\ seq \div 2 > 0
      BY <2>1, <3>1
    <3> QED
      BY <3>2
  <2>4. observer.busy = m /\ observer.ref = m /\ observer.clock = m
    BY <2>1, <2>3 DEF SQInv, ReadingConsistent
  <2>5. SampleNotTorn'
    BY <2>1, <2>2, <2>3, <2>4 DEF SQInv, SampleNotTorn
  <2> QED
    BY <2>1, <2>2, <2>5 DEF SQInv, SQTypes, SlotLive, BufferWords, ReadingConsistent
<1> QED
  BY <1>1, <1>2

\* The invariant of the sample slot holds of every behaviour of profilers and observers.
THEOREM SampleSlotSafe == SQSpec => []SQInv
<1>1. SQInv /\ [SQNext]_sqVars => SQInv'
  <2> SUFFICES ASSUME SQInv, [SQNext]_sqVars PROVE SQInv'
    OBVIOUS
  <2>1. CASE UNCHANGED sqVars
    BY <2>1 DEF sqVars, SQInv, SQTypes, SlotLive, BufferWords, ReadingConsistent, SampleNotTorn
  <2>2. CASE SQNext
    BY <2>2, RegisterKeeps, PublishKeeps, ReadBeginKeeps, ReadPayloadKeeps, ReadEndKeeps DEF SQNext
  <2> QED
    BY <2>1, <2>2
<1> QED
  BY <1>1, SQInitInv, PTL DEF SQSpec

\* ReadSqSlot never answers with a torn sample, and the slot never outlives its buffer: for any
\* number of workloads and samples, and any interleaving of stores and loads.
THEOREM SamplesWhole == SQSpec => []SampleNotTorn
BY SampleSlotSafe, PTL DEF SQInv

-----------------------------------------------------------------------------
(* Host locks                                                              *)

\* The ranges that cover page p.
Covering(p) == {x \in RangesHeld : p \in PagesOf(<<x[1], lockedRanges[x[1]][x[2]]>>)}

LocksTypes ==
    /\ lockedPages \in [HostPages -> Nat]
    /\ lockedRanges \in [HostPages -> Seq(HostPages)]
    /\ \A b \in HostPages : Len(lockedRanges[b]) <= MaxRanges

\* lockedPages counts the ranges over each page, and the operating system's lock follows the count.
Counted ==
    /\ \A p \in HostPages : lockedPages[p] = Cardinality(Covering(p))
    /\ \A p \in HostPages : p \in wired <=> Covering(p) # {}

LocksInv == LocksTypes /\ Counted

\* What the property says, with the name used here.
LEMMA CountedIsExact == Counted => WiredExactly
BY DEF Counted, WiredExactly, Covering

\* Every set of held ranges is finite, so that its count means something.
LEMMA HeldFinite ==
    /\ IsFiniteSet(RangesHeld)
    /\ \A p : IsFiniteSet(Covering(p)) /\ Cardinality(Covering(p)) \in Nat
               /\ (Cardinality(Covering(p)) = 0 <=> Covering(p) = {})
<1>1. IsFiniteSet(1 .. MaxRanges)
  BY LocksAssumption, FS_Interval
<1>2. IsFiniteSet(HostPages \X (1 .. MaxRanges))
  BY <1>1, LocksAssumption, FS_Product
<1>3. IsFiniteSet(RangesHeld)
  BY <1>2, FS_Subset DEF RangesHeld
<1>4. ASSUME NEW p PROVE IsFiniteSet(Covering(p))
  BY <1>3, FS_Subset DEF Covering
<1> QED
  BY <1>3, <1>4, FS_CardinalityType, FS_EmptySet

\* A list can grow as long as fewer than MaxRanges ranges are held in all.
LEMMA ListHasRoom ==
    ASSUME LocksTypes, Cardinality(RangesHeld) < MaxRanges, NEW b \in HostPages
    PROVE  Len(lockedRanges[b]) + 1 \in 1 .. MaxRanges
<1> DEFINE n == Len(lockedRanges[b])
           own == {b} \X (1 .. n)
<1>1. n \in Nat /\ n <= MaxRanges
  BY DEF LocksTypes
<1>2. own \subseteq RangesHeld
  BY <1>1, LocksAssumption DEF RangesHeld
<1>3. IsFiniteSet(1 .. n) /\ Cardinality(1 .. n) = n
  <2> HIDE DEF n
  <2> QED
    BY <1>1, FS_Interval
<1>4. IsFiniteSet({b}) /\ Cardinality({b}) = 1
  BY FS_Singleton
<1>5. Cardinality(own) = 1 * n
  <2> HIDE DEF n
  <2> QED
    BY <1>3, <1>4, FS_Product
<1>6. IsFiniteSet(RangesHeld) /\ Cardinality(RangesHeld) \in Nat
  BY HeldFinite, FS_CardinalityType
<1>7. Cardinality(own) <= Cardinality(RangesHeld)
  <2> HIDE DEF own
  <2> QED
    BY <1>2, <1>6, FS_Subset
<1> QED
  BY <1>1, <1>5, <1>6, <1>7, LocksAssumption

\* lockHost: the new range is added to what covers its pages, and to nothing else.
LEMMA LockHostKeeps ==
    ASSUME LocksInv, NEW r \in PageRanges, LockHost(r)
    PROVE  LocksInv'
<1> DEFINE b == r[1]
           k == Len(lockedRanges[b]) + 1
           new == <<b, k>>
<1>1. b \in HostPages /\ r[2] \in HostPages /\ r = <<b, r[2]>>
  BY DEF PageRanges
<1>2. k \in 1 .. MaxRanges /\ lockedRanges[b] \in Seq(HostPages) /\ Len(lockedRanges[b]) \in Nat
  BY <1>1, ListHasRoom DEF LocksInv, LocksTypes, LockHost
<1>3. lockedRanges'[b] = Append(lockedRanges[b], r[2]) /\ \A c \in HostPages \ {b} : lockedRanges'[c] = lockedRanges[c]
  BY <1>1 DEF LocksInv, LocksTypes, LockHost
<1>4. /\ lockedRanges'[b] \in Seq(HostPages) /\ Len(lockedRanges'[b]) = k /\ lockedRanges'[b][k] = r[2]
      /\ \A i \in 1 .. Len(lockedRanges[b]) : lockedRanges'[b][i] = lockedRanges[b][i]
  BY <1>1, <1>2, <1>3
<1>5. LocksTypes'
  <2>1. lockedRanges' \in [HostPages -> Seq(HostPages)]
    BY <1>1, <1>4 DEF LockHost, LocksInv, LocksTypes
  <2>2. lockedPages' \in [HostPages -> Nat]
    BY DEF LockHost, LocksInv, LocksTypes
  <2>3. \A c \in HostPages : Len(lockedRanges'[c]) <= MaxRanges
    <3>1. Len(lockedRanges'[b]) <= MaxRanges
      BY <1>2, <1>4, LocksAssumption
    <3>2. \A c \in HostPages \ {b} : Len(lockedRanges'[c]) <= MaxRanges
      BY <1>3 DEF LocksInv, LocksTypes
    <3> HIDE DEF b, k
    <3> QED
      BY <3>1, <3>2
  <2> QED
    BY <2>1, <2>2, <2>3 DEF LocksTypes
<1>6. ASSUME NEW p \in HostPages
      PROVE  Covering(p)' = IF p \in PagesOf(r) THEN Covering(p) \cup {new} ELSE Covering(p)
  <2>1. ASSUME NEW x \in HostPages \X (1 .. MaxRanges), x # new
        PROVE  x \in Covering(p)' <=> x \in Covering(p)
    <3>1. x[1] \in HostPages /\ x[2] \in 1 .. MaxRanges /\ x = <<x[1], x[2]>>
      OBVIOUS
    <3>2. CASE x[1] = b
      <4>1. x[2] # k /\ x[2] \in Nat \ {0}
        BY <2>1, <3>1, <3>2, LocksAssumption
      <4>2. x[2] <= Len(lockedRanges'[b]) <=> x[2] <= Len(lockedRanges[b])
        BY <1>2, <1>4, <4>1
      <4>3. x[2] <= Len(lockedRanges[b]) => lockedRanges'[b][x[2]] = lockedRanges[b][x[2]]
        BY <1>2, <1>4, <4>1
      <4> HIDE DEF b, k, new
      <4> QED
        BY <3>1, <3>2, <4>2, <4>3 DEF Covering, RangesHeld, PagesOf
    <3>3. CASE x[1] # b
      BY <1>3, <3>1, <3>3 DEF Covering, RangesHeld, PagesOf
    <3> QED
      BY <3>2, <3>3
  <2>2. new \in HostPages \X (1 .. MaxRanges) /\ new[1] = b /\ new[2] = k /\ new \notin Covering(p)
    BY <1>1, <1>2 DEF Covering, RangesHeld
  <2>3. new \in Covering(p)' <=> p \in PagesOf(r)
    BY <1>1, <1>2, <1>4, <2>2 DEF Covering, RangesHeld, PagesOf
  <2>4. Covering(p) \subseteq HostPages \X (1 .. MaxRanges) /\ Covering(p)' \subseteq HostPages \X (1 .. MaxRanges)
    BY DEF Covering, RangesHeld
  <2> HIDE DEF b, k, new
  <2> QED
    BY <2>1, <2>2, <2>3, <2>4
<1>7. ASSUME NEW p \in HostPages PROVE new \notin Covering(p)
  BY <1>1, <1>2 DEF Covering, RangesHeld
<1>8. ASSUME NEW p \in HostPages
      PROVE  lockedPages'[p] = Cardinality(Covering(p)') /\ (p \in wired' <=> Covering(p)' # {})
  <2>1. /\ lockedPages[p] = Cardinality(Covering(p)) /\ (p \in wired <=> Covering(p) # {})
        /\ IsFiniteSet(Covering(p))
    BY HeldFinite DEF LocksInv, Counted
  <2>2. lockedPages'[p] = lockedPages[p] + (IF p \in PagesOf(r) THEN 1 ELSE 0)
    BY DEF LockHost
  <2>3. p \in wired' <=> p \in wired \/ p \in PagesOf(r)
    BY DEF LockHost
  <2>4. CASE p \in PagesOf(r)
    <3>1. Cardinality(Covering(p) \cup {new}) = Cardinality(Covering(p)) + 1
      BY <1>7, <2>1, FS_AddElement
    <3> HIDE DEF new
    <3> QED
      BY <1>6, <2>1, <2>2, <2>3, <2>4, <3>1
  <2>5. CASE p \notin PagesOf(r)
    <3> HIDE DEF new
    <3>1. lockedPages[p] \in Nat
      BY DEF LocksInv, LocksTypes
    <3> QED
      BY <1>6, <2>1, <2>2, <2>3, <2>5, <3>1
  <2> QED
    BY <2>4, <2>5
<1> QED
  BY <1>5, <1>8 DEF LocksInv, Counted

\* hsa_amd_memory_unlock: the latest range of an address is taken from what covers its pages.
LEMMA UnlockKeeps ==
    ASSUME LocksInv, NEW b \in HostPages, Unlock(b)
    PROVE  LocksInv'
<1> DEFINE k == Len(lockedRanges[b])
           old == <<b, k>>
           r == <<b, lockedRanges[b][k]>>
<1>1. lockedRanges[b] \in Seq(HostPages) /\ k \in 1 .. MaxRanges /\ lockedRanges[b][k] \in HostPages
  BY LocksAssumption DEF LocksInv, LocksTypes, Unlock
<1>2. lockedRanges'[b] = SubSeq(lockedRanges[b], 1, k - 1) /\ \A c \in HostPages \ {b} : lockedRanges'[c] = lockedRanges[c]
  BY DEF LocksInv, LocksTypes, Unlock
<1>3. /\ lockedRanges'[b] \in Seq(HostPages) /\ Len(lockedRanges'[b]) = k - 1
      /\ \A i \in 1 .. k - 1 : lockedRanges'[b][i] = lockedRanges[b][i]
  BY <1>1, <1>2
<1>4. ASSUME NEW p \in HostPages
      PROVE  /\ Covering(p)' = Covering(p) \ {old}
             /\ old \in Covering(p) <=> p \in PagesOf(r)
  <2>1. ASSUME NEW x \in HostPages \X (1 .. MaxRanges), x # old
        PROVE  x \in Covering(p)' <=> x \in Covering(p)
    <3>1. x[1] \in HostPages /\ x[2] \in 1 .. MaxRanges /\ x = <<x[1], x[2]>>
      OBVIOUS
    <3>2. CASE x[1] = b
      <4>1. x[2] # k /\ x[2] \in Nat \ {0}
        BY <2>1, <3>1, <3>2, LocksAssumption
      <4>2. x[2] <= Len(lockedRanges'[b]) <=> x[2] <= Len(lockedRanges[b])
        BY <1>1, <1>3, <4>1
      <4>3. x[2] <= Len(lockedRanges'[b]) => lockedRanges'[b][x[2]] = lockedRanges[b][x[2]]
        BY <1>1, <1>3, <4>1
      <4> HIDE DEF k, old
      <4> QED
        BY <3>1, <3>2, <4>2, <4>3 DEF Covering, RangesHeld, PagesOf
    <3>3. CASE x[1] # b
      BY <1>2, <3>1, <3>3 DEF Covering, RangesHeld, PagesOf
    <3> QED
      BY <3>2, <3>3
  <2>2. old \in HostPages \X (1 .. MaxRanges) /\ old[1] = b /\ old[2] = k
    BY <1>1
  <2>3. old \notin Covering(p)'
    BY <1>1, <1>3, <2>2 DEF Covering, RangesHeld
  <2>4. old \in Covering(p) <=> p \in PagesOf(r)
    BY <1>1, <2>2 DEF Covering, RangesHeld
  <2>5. Covering(p) \subseteq HostPages \X (1 .. MaxRanges) /\ Covering(p)' \subseteq HostPages \X (1 .. MaxRanges)
    BY DEF Covering, RangesHeld
  <2> HIDE DEF k, old, r
  <2> QED
    BY <2>1, <2>3, <2>4, <2>5
<1>5. ASSUME NEW p \in HostPages
      PROVE  /\ lockedPages'[p] = Cardinality(Covering(p)') /\ lockedPages'[p] \in Nat
             /\ p \in wired' <=> Covering(p)' # {}
  <2>1. /\ lockedPages[p] = Cardinality(Covering(p)) /\ (p \in wired <=> Covering(p) # {})
        /\ IsFiniteSet(Covering(p)) /\ lockedPages[p] \in Nat
        /\ (lockedPages[p] = 0 <=> Covering(p) = {})
    BY HeldFinite DEF LocksInv, Counted
  <2>2. lockedPages'[p] = lockedPages[p] - (IF p \in PagesOf(r) THEN 1 ELSE 0)
    BY DEF Unlock
  <2>3. p \in wired' <=> p \in wired /\ ~(p \in PagesOf(r) /\ lockedPages[p] = 1)
    BY DEF Unlock, PagesOf
  <2>4. CASE p \in PagesOf(r)
    <3>1. /\ Cardinality(Covering(p) \ {old}) = lockedPages[p] - 1
          /\ IsFiniteSet(Covering(p) \ {old})
      BY <1>4, <2>1, <2>4, FS_RemoveElement
    <3>2. Cardinality(Covering(p) \ {old}) = 0 <=> Covering(p) \ {old} = {}
      BY <3>1, FS_EmptySet
    <3>3. Covering(p) # {} /\ Covering(p)' = Covering(p) \ {old}
      BY <1>4, <2>4
    <3> HIDE DEF old, r, k
    <3> QED
      BY <2>1, <2>2, <2>3, <2>4, <3>1, <3>2, <3>3
  <2>5. CASE p \notin PagesOf(r)
    <3>1. Covering(p)' = Covering(p)
      BY <1>4, <2>5
    <3> HIDE DEF old, r, k
    <3> QED
      BY <2>1, <2>2, <2>3, <2>5, <3>1
  <2> QED
    BY <2>4, <2>5
<1>6. LocksTypes'
  <2>1. lockedRanges' \in [HostPages -> Seq(HostPages)]
    BY <1>2, <1>3 DEF Unlock, LocksInv, LocksTypes
  <2>2. lockedPages' \in [HostPages -> Nat]
    <3>1. lockedPages' = [p \in HostPages |-> lockedPages'[p]]
      BY DEF Unlock
    <3> QED
      BY <1>5, <3>1
  <2>3. \A c \in HostPages : Len(lockedRanges'[c]) <= MaxRanges
    BY <1>1, <1>2, <1>3, LocksAssumption DEF LocksInv, LocksTypes
  <2> QED
    BY <2>1, <2>2, <2>3 DEF LocksTypes
<1> QED
  BY <1>5, <1>6 DEF LocksInv, Counted

\* The invariant of the locked ranges holds of every behaviour (host_services.cpp).
THEOREM HostLocksSafe == LocksSpec => []LocksInv
<1>1. LocksInit => LocksInv
  <2> SUFFICES ASSUME LocksInit PROVE LocksInv
    OBVIOUS
  <2>1. \A p \in HostPages : Covering(p) = {}
    BY LocksAssumption DEF LocksInit, Covering, RangesHeld
  <2>2. LocksTypes
    BY LocksAssumption DEF LocksInit, LocksTypes
  <2> QED
    BY <2>1, <2>2, FS_EmptySet DEF LocksInit, LocksInv, Counted
<1>2. LocksInv /\ [LocksNext]_lockVars => LocksInv'
  <2> SUFFICES ASSUME LocksInv, [LocksNext]_lockVars PROVE LocksInv'
    OBVIOUS
  <2>1. CASE UNCHANGED lockVars
    BY <2>1 DEF lockVars, LocksInv, LocksTypes, Counted, Covering, RangesHeld, PagesOf
  <2>2. ASSUME NEW r \in PageRanges, NEW stuck \in HostPages, LockHostFails(r, stuck) PROVE LocksInv'
    <3>1. UNCHANGED <<lockedPages, lockedRanges>>
      BY <2>2 DEF LockHostFails
    <3>2. \A p \in HostPages : lockedPages[p] = 0 => p \notin wired
      BY HeldFinite DEF LocksInv, Counted
    <3>3. wired' = wired
      BY <2>2, <3>2 DEF LockHostFails, PagesOf
    <3> QED
      BY <3>1, <3>3 DEF LocksInv, LocksTypes, Counted, Covering, RangesHeld, PagesOf
  <2>3. CASE ClearHostLocks
    <3>1. \A p \in HostPages : Covering(p)' = {}
      BY <2>3, LocksAssumption DEF ClearHostLocks, Covering, RangesHeld
    <3>2. LocksTypes'
      BY <2>3, LocksAssumption DEF ClearHostLocks, LocksTypes
    <3>3. \A p \in HostPages : lockedPages[p] \in Nat /\ (lockedPages[p] = 0 => p \notin wired)
      BY HeldFinite DEF LocksInv, Counted
    <3>4. \A p \in HostPages : p \notin wired' /\ lockedPages'[p] = 0
      BY <2>3, <3>3 DEF ClearHostLocks
    <3> QED
      BY <3>1, <3>2, <3>4, FS_EmptySet DEF LocksInv, Counted
  <2> QED
    BY <2>1, <2>2, <2>3, LockHostKeeps, UnlockKeeps DEF LocksNext
<1> QED
  BY <1>1, <1>2, PTL DEF LocksSpec

\* A page is wired exactly while some locked range covers it, and the count is the number of such
\* ranges: for any pages, ranges, overlaps, failures and order of unlocks.
THEOREM PagesWiredExactly == LocksSpec => []WiredExactly
<1>1. LocksInv => WiredExactly
  BY CountedIsExact DEF LocksInv
<1> QED
  BY <1>1, HostLocksSafe, PTL

-----------------------------------------------------------------------------
(***************************************************************************)
(* The storage of the runtime.  Both arguments are about references.  An   *)
(* Allocation is in the map or held by a call or a job for as long as it   *)
(* is made, and only SettleStorage takes storage away.  An image is either *)
(* being loaded by the holder of the lifecycle mutex, or loaded, or held   *)
(* by a traversal that began with it, or being released; what is loaded    *)
(* has its storage, its own address and its own code in the GPU's caches,  *)
(* and what is held its storage and its code.                              *)
(***************************************************************************)
Allocations ==
    [st : {"unborn", "made"}, kind : Kinds \cup {"none", "ipc", "vmem"}, on : GPUs \cup {"host"},
     base : Nat, size : Nat, session : Nat, imports : Int, access : BOOLEAN]
CopyJobs ==
    [at : {"none", "wait", "copy", "failed", "done", "ended"}, uses : SUBSET Objects,
     listed : BOOLEAN, stop : BOOLEAN]
MemoryCalls ==
    [at : {"rest", "shut", "storage", "publish", "copy", "async", "unmap"}, uses : SUBSET Objects,
     kind : Kinds \cup {"none", "ipc"}, on : GPUs \cup {"host"}, session : Nat, joins : SUBSET Jobs]

MemoryTypes ==
    /\ session \in Nat /\ up \in BOOLEAN
    /\ allocations \in SUBSET Objects
    /\ object \in [Objects -> Allocations]
    /\ job \in [Jobs -> CopyJobs]
    /\ caller \in [Callers -> MemoryCalls]

\* Only a call that looked its allocations up, took the map over or has just
\* made an object holds references; a job that has ended has none.
HoldsNothing ==
    /\ \A t \in Callers : caller[t].at \in {"rest", "storage", "async", "unmap"} => caller[t].uses = {}
    /\ \A j \in Jobs : job[j].at \in {"none", "ended"} => job[j].uses = {}

\* What is in the map is made, and what is made has at least one page.
MapMade ==
    /\ \A o \in allocations : object[o].st = "made"
    /\ \A o \in Objects : object[o].st = "made" => object[o].size >= 1

\* A call about to publish has one object, of the session it asked in.
RequestsOwnSession ==
    \A t \in Callers : caller[t].at = "publish" =>
        \E o \in Objects : caller[t].uses = {o} /\ object[o].session = caller[t].session

MemoryInv ==
    /\ MemoryTypes /\ HoldsNothing /\ MapMade /\ RequestsOwnSession
    /\ CopyPinsStorage /\ SessionsSeparate /\ AddressNamesOne

\* The runtime starts with nothing allocated.
LEMMA MemoryInitInv == MemoryInit => MemoryInv
<1> SUFFICES ASSUME MemoryInit PROVE MemoryInv
  OBVIOUS
<1>1. NoObject \in Allocations /\ NoJob \in CopyJobs /\ Resting \in MemoryCalls
  BY DEF NoObject, NoJob, Resting, Allocations, CopyJobs, MemoryCalls
<1>2. MemoryTypes
  BY <1>1 DEF MemoryInit, MemoryTypes
<1>3. HoldsNothing /\ RequestsOwnSession
  BY DEF MemoryInit, HoldsNothing, RequestsOwnSession, NoJob, Resting
<1>4. \A o \in Objects : object[o].st = "unborn" /\ ~Pinned(caller, job, o)
  BY DEF MemoryInit, NoObject, NoJob, Resting, Pinned
<1>5. allocations = {}
  BY DEF MemoryInit
<1>6. MapMade /\ CopyPinsStorage /\ SessionsSeparate /\ AddressNamesOne
  BY <1>4, <1>5 DEF MapMade, CopyPinsStorage, SessionsSeparate, AddressNamesOne
<1> QED
  BY <1>2, <1>3, <1>6 DEF MemoryInv

\* The extents of a map are disjoint whenever it is part of one whose are.
LEMMA SmallerMap ==
  ASSUME AddressNamesOne, NEW tab \in SUBSET allocations, allocations' = tab,
         \A o \in tab : object'[o].base = object[o].base /\ object'[o].size = object[o].size
  PROVE  AddressNamesOne'
BY DEF AddressNamesOne, Extent

\* A step that leaves the map and the objects alone, in which calls and jobs
\* keep their references, drop none, and take new ones from the map only.
LEMMA QuietStep ==
  ASSUME MemoryInv, caller' \in [Callers -> MemoryCalls], job' \in [Jobs -> CopyJobs],
         UNCHANGED <<session, up, allocations, object>>,
         \A t \in Callers :
            \/ caller'[t] = caller[t]
            \/ /\ caller'[t].at # "publish"
               /\ \/ caller'[t].uses = caller[t].uses
                  \/ caller[t].uses = {} /\ caller'[t].uses \subseteq allocations
               /\ caller'[t].at \in {"rest", "storage", "async", "unmap"} => caller'[t].uses = {},
         \A j \in Jobs :
            /\ \/ job'[j].uses = job[j].uses
               \/ job[j].uses = {} /\ job'[j].uses \subseteq allocations
            /\ job'[j].at \in {"none", "ended"} => job'[j].uses = {}
  PROVE  MemoryInv'
<1>1. MemoryTypes'
  BY DEF MemoryInv, MemoryTypes
<1>2. HoldsNothing'
  BY DEF MemoryInv, HoldsNothing
<1>3. MapMade' /\ SessionsSeparate'
  BY DEF MemoryInv, MapMade, SessionsSeparate
<1>4. AddressNamesOne'
  BY SmallerMap DEF MemoryInv
<1>5. RequestsOwnSession'
  BY DEF MemoryInv, RequestsOwnSession
<1>6. CopyPinsStorage'
  <2> SUFFICES ASSUME NEW o \in Objects
               PROVE  /\ Pinned(caller', job', o) => object[o].st = "made"
                      /\ object[o].st = "made" => o \in allocations \/ Pinned(caller', job', o)
    BY DEF CopyPinsStorage, Pinned
  <2>1. /\ Pinned(caller, job, o) => object[o].st = "made"
        /\ object[o].st = "made" => o \in allocations \/ Pinned(caller, job, o)
        /\ o \in allocations => object[o].st = "made"
    BY DEF MemoryInv, CopyPinsStorage, MapMade
  <2>2. Pinned(caller, job, o) => Pinned(caller', job', o)
    BY DEF Pinned
  <2>3. Pinned(caller', job', o) => Pinned(caller, job, o) \/ o \in allocations
    BY DEF Pinned
  <2> QED
    BY <2>1, <2>2, <2>3
<1> QED
  BY <1>1, <1>2, <1>3, <1>4, <1>5, <1>6 DEF MemoryInv

\* ~Allocation: after the references in cl, jb and the map tab are all there
\* are, exactly the objects without any are gone, and the others unchanged.
LEMMA SettledStorage ==
  ASSUME NEW tab \in SUBSET Objects, NEW cl, NEW jb, NEW ob \in [Objects -> Allocations],
         SettleStorage(tab, cl, jb, ob)
  PROVE  /\ object' \in [Objects -> Allocations]
         /\ \A o \in Objects : o \in tab \/ Pinned(cl, jb, o) => object'[o] = ob[o]
         /\ \A o \in Objects : object'[o].st = "made" =>
               object'[o] = ob[o] /\ (o \in tab \/ Pinned(cl, jb, o))
<1>1. NoObject \in Allocations /\ NoObject.st = "unborn"
  BY DEF NoObject, Allocations
<1>2. object' = [o \in Objects |->
          IF ob[o].st = "made" /\ o \notin tab /\ ~Pinned(cl, jb, o) THEN NoObject ELSE ob[o]]
  BY DEF SettleStorage
<1>3. object' \in [Objects -> Allocations]
  BY <1>1, <1>2
<1>4. \A o \in Objects : o \in tab \/ Pinned(cl, jb, o) => object'[o] = ob[o]
  BY <1>2
<1>5. ASSUME NEW o \in Objects, object'[o].st = "made"
      PROVE  object'[o] = ob[o] /\ (o \in tab \/ Pinned(cl, jb, o))
  BY <1>1, <1>2, <1>5
<1> QED
  BY <1>3, <1>4, <1>5

\* The fields of an Allocation that say what it is and where.
SameStorage(a, b) == a.st = b.st /\ a.base = b.base /\ a.size = b.size /\ a.session = b.session

\* A step that drops references, then returns the storage left without any.
LEMMA SettleStep ==
  ASSUME MemoryInv, NEW tab \in SUBSET Objects, NEW cl \in [Callers -> MemoryCalls],
         NEW jb \in [Jobs -> CopyJobs], NEW ob \in [Objects -> Allocations],
         SettleStorage(tab, cl, jb, ob), UNCHANGED <<session, up>>,
         \A o \in Objects : SameStorage(ob[o], object[o]),
         \A o \in Objects : Pinned(cl, jb, o) => Pinned(caller, job, o),
         \A t \in Callers : \/ cl[t] = caller[t]
                            \/ cl[t].at # "publish" /\ cl[t].uses = {},
         \A j \in Jobs : \/ jb[j] = job[j]
                         \/ jb[j].uses = {},
         \A o \in tab : object[o].st = "made" /\ object[o].session = session,
         ~up => tab = {},
         \A o, x \in tab : o # x => Extent(o) \cap Extent(x) = {}
  PROVE  MemoryInv'
<1>1. allocations' = tab /\ caller' = cl /\ job' = jb
  BY DEF SettleStorage
<1>2. /\ object' \in [Objects -> Allocations]
      /\ \A o \in Objects : o \in tab \/ Pinned(cl, jb, o) => object'[o] = ob[o]
      /\ \A o \in Objects : object'[o].st = "made" =>
            object'[o] = ob[o] /\ (o \in tab \/ Pinned(cl, jb, o))
  BY SettledStorage
<1>3. MemoryTypes'
  BY <1>1, <1>2 DEF MemoryInv, MemoryTypes
<1>4. HoldsNothing'
  BY <1>1 DEF MemoryInv, HoldsNothing
<1>5. MapMade'
  <2>1. \A o \in tab : object'[o].st = "made"
    BY <1>2 DEF SameStorage
  <2>2. \A o \in Objects : object'[o].st = "made" => object'[o].size >= 1
    BY <1>2 DEF SameStorage, MemoryInv, MapMade
  <2> QED
    BY <1>1, <2>1, <2>2 DEF MapMade
<1>6. RequestsOwnSession'
  <2> SUFFICES ASSUME NEW t \in Callers, cl[t].at = "publish"
               PROVE  \E o \in Objects : cl[t].uses = {o} /\ object'[o].session = cl[t].session
    BY <1>1 DEF RequestsOwnSession
  <2>1. cl[t] = caller[t]
    OBVIOUS
  <2>2. PICK o \in Objects : caller[t].uses = {o} /\ object[o].session = caller[t].session
    BY <2>1 DEF MemoryInv, RequestsOwnSession
  <2>3. Pinned(cl, jb, o)
    BY <2>1, <2>2 DEF Pinned
  <2>4. object'[o].session = object[o].session
    BY <1>2, <2>3 DEF SameStorage
  <2> QED
    BY <2>1, <2>2, <2>4
<1>7. CopyPinsStorage'
  <2> SUFFICES ASSUME NEW o \in Objects
               PROVE  /\ Pinned(cl, jb, o) => object'[o].st = "made"
                      /\ object'[o].st = "made" => o \in tab \/ Pinned(cl, jb, o)
    BY <1>1 DEF CopyPinsStorage, Pinned
  <2>1. Pinned(caller, job, o) => object[o].st = "made"
    BY DEF MemoryInv, CopyPinsStorage
  <2> QED
    BY <1>2, <2>1 DEF SameStorage
<1>8. SessionsSeparate'
  BY <1>1, <1>2 DEF SameStorage, SessionsSeparate
<1>9. AddressNamesOne'
  <2>1. \A o \in tab : object'[o].base = object[o].base /\ object'[o].size = object[o].size
    BY <1>2 DEF SameStorage
  <2> QED
    BY <1>1, <2>1 DEF AddressNamesOne, Extent
<1> QED
  BY <1>3, <1>4, <1>5, <1>6, <1>7, <1>8, <1>9 DEF MemoryInv

\* Pointwise updates keep the types of the callers and of the jobs.
LEMMA CallerTyped ==
  ASSUME MemoryTypes, NEW t \in Callers, NEW r \in MemoryCalls
  PROVE  /\ Now(t, r) \in [Callers -> MemoryCalls]
         /\ Now(t, r)[t] = r
         /\ \A u \in Callers : u # t => Now(t, r)[u] = caller[u]
BY DEF MemoryTypes, Now

\* hsa_init: the map of the session before is empty.
LEMMA MemoryInitializeInv ==
  ASSUME MemoryInv, NEW t \in Callers, MemoryInitialize(t)
  PROVE  MemoryInv'
<1>1. allocations = {} /\ UNCHANGED <<allocations, object, job, caller>> /\ session' \in Nat /\ up' = TRUE
  BY DEF MemoryInv, SessionsSeparate, MemoryInitialize, MemoryTypes
<1>2. MemoryTypes' /\ HoldsNothing' /\ MapMade' /\ RequestsOwnSession'
  BY <1>1 DEF MemoryInv, MemoryTypes, HoldsNothing, MapMade, RequestsOwnSession
<1>3. CopyPinsStorage'
  BY <1>1 DEF MemoryInv, CopyPinsStorage, Pinned
<1>4. SessionsSeparate' /\ AddressNamesOne'
  BY <1>1 DEF SessionsSeparate, AddressNamesOne
<1> QED
  BY <1>2, <1>3, <1>4 DEF MemoryInv

\* hsa_shut_down: the references of the map become the caller's.
LEMMA MemoryShutDownInv ==
  ASSUME MemoryInv, NEW t \in Callers, MemoryShutDown(t)
  PROVE  MemoryInv'
<1> DEFINE listed == {j \in Jobs : job[j].listed}
           r == [Resting EXCEPT !.at = "shut", !.uses = allocations, !.joins = listed]
<1>0. MemoryTypes
  BY DEF MemoryInv
<1>1. /\ r \in MemoryCalls /\ r.at = "shut" /\ r.uses = allocations
  BY <1>0 DEF Resting, MemoryCalls, MemoryTypes
<1>2. /\ caller' = Now(t, r) /\ allocations' = {} /\ up' = FALSE /\ UNCHANGED <<session, object>>
      /\ job' = [j \in Jobs |-> IF j \in listed THEN [job[j] EXCEPT !.stop = TRUE, !.listed = FALSE] ELSE job[j]]
      /\ caller[t].at = "rest"
  BY DEF MemoryShutDown
<1>3. /\ caller' \in [Callers -> MemoryCalls] /\ caller'[t] = r
      /\ \A u \in Callers : u # t => caller'[u] = caller[u]
  <2> HIDE DEF r
  <2> QED
    BY <1>0, <1>1, <1>2, CallerTyped
<1>4. /\ job' \in [Jobs -> CopyJobs]
      /\ \A j \in Jobs : job'[j].uses = job[j].uses /\ job'[j].at = job[j].at
  <2>1. \A k \in CopyJobs : /\ [k EXCEPT !.stop = TRUE, !.listed = FALSE] \in CopyJobs
                            /\ [k EXCEPT !.stop = TRUE, !.listed = FALSE].uses = k.uses
                            /\ [k EXCEPT !.stop = TRUE, !.listed = FALSE].at = k.at
    BY DEF CopyJobs
  <2>2. \A j \in Jobs : job[j] \in CopyJobs
    BY <1>0 DEF MemoryTypes
  <2> HIDE DEF listed
  <2> QED
    BY <1>2, <2>1, <2>2
<1> HIDE DEF r, listed
<1>5. MemoryTypes' /\ SessionsSeparate' /\ AddressNamesOne'
  BY <1>0, <1>2, <1>3, <1>4 DEF MemoryTypes, SessionsSeparate, AddressNamesOne
<1>6. HoldsNothing' /\ RequestsOwnSession' /\ MapMade'
  <2>1. HoldsNothing'
    BY <1>1, <1>3, <1>4 DEF MemoryInv, HoldsNothing
  <2>2. RequestsOwnSession'
    BY <1>1, <1>2, <1>3 DEF MemoryInv, RequestsOwnSession
  <2>3. MapMade'
    BY <1>2 DEF MemoryInv, MapMade
  <2> QED
    BY <2>1, <2>2, <2>3
<1>7. CopyPinsStorage'
  <2> SUFFICES ASSUME NEW o \in Objects
               PROVE  /\ Pinned(caller', job', o) => object[o].st = "made"
                      /\ object[o].st = "made" => Pinned(caller', job', o)
    BY <1>2 DEF CopyPinsStorage, Pinned
  <2>1. /\ Pinned(caller, job, o) => object[o].st = "made"
        /\ object[o].st = "made" => o \in allocations \/ Pinned(caller, job, o)
        /\ o \in allocations => object[o].st = "made"
    BY DEF MemoryInv, CopyPinsStorage, MapMade
  <2>2. caller[t].uses = {}
    BY <1>2 DEF MemoryInv, HoldsNothing
  <2>3. Pinned(caller', job', o) <=> o \in allocations \/ Pinned(caller, job, o)
    BY <1>1, <1>3, <1>4, <2>2 DEF Pinned
  <2> QED
    BY <2>1, <2>3
<1> QED
  BY <1>5, <1>6, <1>7 DEF MemoryInv

\* A call that returns, and only drops what it held.
LEMMA ReturnInv ==
  ASSUME MemoryInv, NEW t \in Callers, NEW tab \in SUBSET Objects,
         SettleStorage(tab, Now(t, Resting), job, object), UNCHANGED <<session, up>>,
         \A o \in tab : object[o].st = "made" /\ object[o].session = session,
         ~up => tab = {},
         \A o, x \in tab : o # x => Extent(o) \cap Extent(x) = {}
  PROVE  MemoryInv'
<1>1. Resting \in MemoryCalls /\ Resting.at = "rest" /\ Resting.uses = {}
  BY DEF Resting, MemoryCalls
<1>2. MemoryTypes
  BY DEF MemoryInv
<1>3. /\ Now(t, Resting) \in [Callers -> MemoryCalls] /\ Now(t, Resting)[t] = Resting
      /\ \A u \in Callers : u # t => Now(t, Resting)[u] = caller[u]
  BY <1>1, <1>2, CallerTyped
<1>4. \A o \in Objects : Pinned(Now(t, Resting), job, o) => Pinned(caller, job, o)
  BY <1>1, <1>3 DEF Pinned
<1>5. \A o \in Objects : SameStorage(object[o], object[o])
  BY DEF SameStorage
<1>6. object \in [Objects -> Allocations] /\ job \in [Jobs -> CopyJobs]
  BY <1>2 DEF MemoryTypes
<1>7. \A u \in Callers : \/ Now(t, Resting)[u] = caller[u]
                         \/ Now(t, Resting)[u].at # "publish" /\ Now(t, Resting)[u].uses = {}
  BY <1>1, <1>3
<1> QED
  BY <1>3, <1>4, <1>5, <1>6, <1>7, SettleStep

\* What the running session's map guarantees.
LEMMA MapFacts ==
  ASSUME MemoryInv
  PROVE  /\ allocations \in SUBSET Objects
         /\ \A o \in allocations : object[o].st = "made" /\ object[o].session = session
         /\ ~up => allocations = {}
         /\ \A o, x \in allocations : o # x => Extent(o) \cap Extent(x) = {}
BY DEF MemoryInv, MemoryTypes, MapMade, SessionsSeparate, AddressNamesOne

\* hsa_shut_down and hsa_memory_copy return.
LEMMA ShutDownReturnsInv ==
  ASSUME MemoryInv, NEW t \in Callers, MemoryShutDownReturns(t) \/ CopyReturns(t)
  PROVE  MemoryInv'
BY MapFacts, ReturnInv DEF MemoryShutDownReturns, CopyReturns

\* findAllocation finds every overlap: an object it lets through shares no
\* page with the map.  The allocation that reaches the new base is the one
\* with the greatest base at or below it, because the map is disjoint.
LEMMA NoOverlap ==
  ASSUME MemoryInv, NEW o \in Objects, object[o].st = "made", ~Overlaps(o), NEW x \in allocations
  PROVE  Extent(o) \cap Extent(x) = {}
<1>1. /\ object[o].base \in Nat /\ object[o].size \in Nat
      /\ \A y \in allocations : object[y].base \in Nat /\ object[y].size \in Nat /\ object[y].size >= 1
  <2>1. \A y \in Objects : object[y] \in Allocations
    BY DEF MemoryInv, MemoryTypes
  <2>2. \A y \in allocations : y \in Objects /\ object[y].st = "made"
    BY MapFacts
  <2> QED
    BY <2>1, <2>2 DEF Allocations, MemoryInv, MapMade
<1>2. CASE object[x].base >= object[o].base
  <2>1. ~(object[x].base - object[o].base < object[o].size)
    BY <1>2 DEF Overlaps
  <2> QED
    BY <1>1, <2>1 DEF Extent
<1>3. CASE object[x].base < object[o].base
  <2> SUFFICES ASSUME object[o].base - object[x].base < object[x].size PROVE FALSE
    BY <1>1 DEF Extent
  <2>1. ASSUME NEW y \in allocations, object[y].base <= object[o].base
        PROVE  object[y].base <= object[x].base
    <3> SUFFICES ASSUME object[y].base > object[x].base PROVE FALSE
      BY <1>1
    <3>1. object[y].base \in Extent(y) /\ object[y].base \in Extent(x) /\ y # x
      BY <1>1, <2>1 DEF Extent
    <3> QED
      BY <3>1, MapFacts
  <2> QED
    BY <1>1, <1>3, <2>1 DEF Overlaps
<1> QED
  BY <1>1, <1>2, <1>3

\* Publication: what is new is of this session and overlaps nothing.
LEMMA PublishAllocationInv ==
  ASSUME MemoryInv, NEW t \in Callers, PublishAllocation(t)
  PROVE  MemoryInv'
<1> DEFINE new == {o \in caller[t].uses : up /\ caller[t].session = session /\ ~Overlaps(o)}
<1>1. /\ SettleStorage(allocations \cup new, Now(t, Resting), job, object)
      /\ UNCHANGED <<session, up>> /\ caller[t].at = "publish"
  BY DEF PublishAllocation
<1>2. PICK p \in Objects : caller[t].uses = {p} /\ object[p].session = caller[t].session
  BY <1>1 DEF MemoryInv, RequestsOwnSession
<1>3. object[p].st = "made"
  <2>1. Pinned(caller, job, p)
    BY <1>2 DEF Pinned
  <2> QED
    BY <2>1 DEF MemoryInv, CopyPinsStorage
<1>4. /\ new \subseteq {p}
      /\ new # {} => up /\ object[p].session = session /\ ~Overlaps(p)
  BY <1>2
<1>5. allocations \cup new \in SUBSET Objects
  BY <1>4, MapFacts
<1>6. \A o \in allocations \cup new : object[o].st = "made" /\ object[o].session = session
  BY <1>3, <1>4, MapFacts
<1>7. ~up => allocations \cup new = {}
  BY <1>4, MapFacts
<1>8. \A o, x \in allocations \cup new : o # x => Extent(o) \cap Extent(x) = {}
  <2>1. new # {} => \A x \in allocations : Extent(p) \cap Extent(x) = {}
    BY <1>3, <1>4, NoOverlap
  <2> HIDE DEF new
  <2> QED
    BY <1>4, <2>1, MapFacts
<1> HIDE DEF new
<1> QED
  BY <1>1, <1>5, <1>6, <1>7, <1>8, ReturnInv

\* hsa_memory_free and the last hsa_amd_ipc_memory_detach take an object out of
\* the map; its storage stays as long as a copy holds it.
LEMMA MemoryFreeInv ==
  ASSUME MemoryInv, NEW t \in Callers, NEW o \in Objects, MemoryFree(t, o) \/ IPCMemoryDetach(t, o)
  PROVE  MemoryInv'
<1>0. /\ object \in [Objects -> Allocations] /\ job \in [Jobs -> CopyJobs]
      /\ caller \in [Callers -> MemoryCalls]
  BY DEF MemoryInv, MemoryTypes
<1>1. ASSUME NEW tab \in SUBSET allocations, NEW ob \in [Objects -> Allocations],
             \A x \in Objects : SameStorage(ob[x], object[x]),
             SettleStorage(tab, caller, job, ob), UNCHANGED <<session, up>>
      PROVE  MemoryInv'
  <2>1. tab \in SUBSET Objects /\ (~up => tab = {})
    BY MapFacts
  <2>2. \A x \in tab : object[x].st = "made" /\ object[x].session = session
    BY MapFacts
  <2>3. \A y, x \in tab : y # x => Extent(y) \cap Extent(x) = {}
    BY MapFacts
  <2> QED
    BY <1>0, <1>1, <2>1, <2>2, <2>3, SettleStep
<1>2. CASE MemoryFree(t, o)
  <2>1. \A x \in Objects : SameStorage(object[x], object[x])
    BY DEF SameStorage
  <2> QED
    BY <1>0, <1>1, <1>2, <2>1 DEF MemoryFree
<1>3. CASE IPCMemoryDetach(t, o)
  <2> DEFINE a == object[o]
             b == [a EXCEPT !.imports = a.imports - 1]
             fewer == [object EXCEPT ![o] = b]
             tab == IF fewer[o].imports = 0 THEN allocations \ {o} ELSE allocations
  <2>1. SettleStorage(tab, caller, job, fewer) /\ UNCHANGED <<session, up>>
    BY <1>3 DEF IPCMemoryDetach
  <2>2. a \in Allocations
    BY <1>0
  <2> HIDE DEF a
  <2>3. b \in Allocations /\ SameStorage(b, a)
    BY <2>2 DEF Allocations, SameStorage
  <2> HIDE DEF b
  <2>4. fewer \in [Objects -> Allocations] /\ \A x \in Objects : SameStorage(fewer[x], object[x])
    BY <1>0, <2>3 DEF SameStorage, a
  <2> HIDE DEF fewer
  <2>5. tab \in SUBSET allocations
    OBVIOUS
  <2> HIDE DEF tab
  <2> QED
    BY <1>1, <2>1, <2>4, <2>5
<1> QED
  BY <1>2, <1>3

\* A worker's captures go when its thread ends.
LEMMA JobEndsInv ==
  ASSUME MemoryInv, NEW j \in Jobs, JobEnds(j)
  PROVE  MemoryInv'
<1> DEFINE k == job[j]
           e == [k EXCEPT !.at = "ended", !.uses = {}]
           jb == [job EXCEPT ![j] = e]
<1>0. /\ object \in [Objects -> Allocations] /\ job \in [Jobs -> CopyJobs]
      /\ caller \in [Callers -> MemoryCalls]
  BY DEF MemoryInv, MemoryTypes
<1>1. SettleStorage(allocations, caller, jb, object) /\ UNCHANGED <<session, up>>
  BY DEF JobEnds
<1>2. k \in CopyJobs
  BY <1>0
<1> HIDE DEF k
<1>3. e \in CopyJobs /\ e.uses = {}
  BY <1>2 DEF CopyJobs
<1> HIDE DEF e
<1>4. /\ jb \in [Jobs -> CopyJobs] /\ jb[j] = e
      /\ \A i \in Jobs : i # j => jb[i] = job[i]
  BY <1>0, <1>3
<1> HIDE DEF jb
<1>5. \A i \in Jobs : jb[i] = job[i] \/ jb[i].uses = {}
  BY <1>3, <1>4
<1>6. \A o \in Objects : Pinned(caller, jb, o) => Pinned(caller, job, o)
  BY <1>5 DEF Pinned
<1>7. \A o \in Objects : SameStorage(object[o], object[o])
  BY DEF SameStorage
<1> QED
  BY <1>0, <1>1, <1>4, <1>5, <1>6, <1>7, MapFacts, SettleStep

\* Steps of a call that neither publish nor change an object.
LEMMA CallQuiet ==
  ASSUME MemoryInv, NEW t \in Callers, NEW r \in MemoryCalls, caller' = Now(t, r),
         UNCHANGED <<session, up, allocations, object>>, r.at # "publish",
         \/ r.uses = caller[t].uses
         \/ caller[t].uses = {} /\ r.uses \subseteq allocations,
         r.at \in {"rest", "storage", "async", "unmap"} => r.uses = {},
         job' \in [Jobs -> CopyJobs],
         \A j \in Jobs :
            /\ \/ job'[j].uses = job[j].uses
               \/ job[j].uses = {} /\ job'[j].uses \subseteq allocations
            /\ job'[j].at \in {"none", "ended"} => job'[j].uses = {}
  PROVE  MemoryInv'
<1>1. /\ caller' \in [Callers -> MemoryCalls] /\ caller'[t] = r
      /\ \A u \in Callers : u # t => caller'[u] = caller[u]
  BY CallerTyped DEF MemoryInv
<1> QED
  BY <1>1, QuietStep

\* The jobs as they are satisfy what CallQuiet asks of them.
LEMMA JobsKept ==
  ASSUME MemoryInv, job' = job
  PROVE  /\ job' \in [Jobs -> CopyJobs]
         /\ \A j \in Jobs : /\ job'[j].uses = job[j].uses
                            /\ job'[j].at \in {"none", "ended"} => job'[j].uses = {}
BY DEF MemoryInv, MemoryTypes, HoldsNothing

\* poolSnapshot, the lookup of a token and of the ends of a copy, and the end
\* of a join.
LEMMA CallBeginsInv ==
  ASSUME MemoryInv, NEW t \in Callers,
         \/ \E kind \in Kinds, on \in GPUs \cup {"host"} : AllocateBegin(t, kind, on)
         \/ \E o \in Objects : CopyBegin(t, {o})
         \/ Joined(t)
  PROVE  MemoryInv'
<1>0. MemoryTypes /\ caller[t] \in MemoryCalls /\ session \in Nat
  BY DEF MemoryInv, MemoryTypes
<1>1. caller[t].at \in {"rest", "storage", "async", "unmap"} => caller[t].uses = {}
  BY DEF MemoryInv, HoldsNothing
<1>2. ASSUME NEW kind \in Kinds, NEW on \in GPUs \cup {"host"}, AllocateBegin(t, kind, on)
      PROVE  MemoryInv'
  <2> DEFINE r == [Resting EXCEPT !.at = "storage", !.kind = kind, !.on = on, !.session = session]
  <2>1. r \in MemoryCalls /\ r.at = "storage" /\ r.uses = {}
    BY <1>0 DEF Resting, MemoryCalls
  <2>2. caller' = Now(t, r) /\ UNCHANGED <<session, up, allocations, object, job>> /\ caller[t].at = "rest"
    BY <1>2 DEF AllocateBegin
  <2> HIDE DEF r
  <2> QED
    BY <1>1, <2>1, <2>2, CallQuiet, JobsKept
<1>3. ASSUME NEW o \in Objects, CopyBegin(t, {o})
      PROVE  MemoryInv'
  <2> DEFINE r == [Resting EXCEPT !.at = "copy", !.uses = {o}]
  <2>1. r \in MemoryCalls /\ r.at = "copy" /\ r.uses = {o}
    BY <1>0 DEF Resting, MemoryCalls
  <2>2. /\ caller' = Now(t, r) /\ UNCHANGED <<session, up, allocations, object, job>>
        /\ caller[t].at = "rest" /\ {o} \subseteq allocations
    BY <1>3 DEF CopyBegin
  <2> HIDE DEF r
  <2> QED
    BY <1>1, <2>1, <2>2, CallQuiet, JobsKept
<1>4. CASE Joined(t)
  <2> DEFINE c == caller[t]
             r == [c EXCEPT !.joins = {}]
  <2>1. caller' = Now(t, r) /\ UNCHANGED <<session, up, allocations, object, job>> /\ c.at \in {"async", "unmap"}
    BY <1>4 DEF Joined
  <2>2. c \in MemoryCalls /\ c.uses = {}
    BY <1>0, <1>1, <2>1
  <2>3. r \in MemoryCalls /\ r.at = c.at /\ r.uses = c.uses
    <3> HIDE DEF c
    <3> QED
      BY <2>2 DEF MemoryCalls
  <2> HIDE DEF r
  <2> QED
    BY <2>1, <2>2, <2>3, CallQuiet, JobsKept
<1> QED
  BY <1>2, <1>3, <1>4

\* In a state of the invariant every made object has a reference, so a step
\* that drops none returns no storage.
LEMMA NothingToSettle ==
  ASSUME MemoryInv, NEW cl \in [Callers -> MemoryCalls], NEW ob \in [Objects -> Allocations],
         \A o \in Objects : SameStorage(ob[o], object[o]),
         \A o \in Objects : Pinned(caller, job, o) => Pinned(cl, job, o),
         allocations' = allocations, caller' = cl, job' = job, object' = ob
  PROVE  SettleStorage(allocations, cl, job, ob)
<1>1. \A o \in Objects : ~(ob[o].st = "made" /\ o \notin allocations /\ ~Pinned(cl, job, o))
  BY DEF SameStorage, MemoryInv, CopyPinsStorage
<1>2. [o \in Objects |-> IF ob[o].st = "made" /\ o \notin allocations /\ ~Pinned(cl, job, o)
                         THEN NoObject ELSE ob[o]] = [o \in Objects |-> ob[o]]
  BY <1>1
<1>3. ob = [o \in Objects |-> ob[o]]
  OBVIOUS
<1> QED
  BY <1>2, <1>3 DEF SettleStorage

\* A call that held nothing returns: the references stay what they were.
LEMMA RestsInv ==
  ASSUME MemoryInv, NEW t \in Callers, caller[t].uses = {}
  PROVE  /\ Now(t, Resting) \in [Callers -> MemoryCalls]
         /\ \A o \in Objects : Pinned(caller, job, o) <=> Pinned(Now(t, Resting), job, o)
         /\ \A u \in Callers : \/ Now(t, Resting)[u] = caller[u]
                               \/ Now(t, Resting)[u].at # "publish" /\ Now(t, Resting)[u].uses = {}
<1>1. Resting \in MemoryCalls /\ Resting.at = "rest" /\ Resting.uses = {}
  BY DEF Resting, MemoryCalls
<1>2. /\ Now(t, Resting) \in [Callers -> MemoryCalls] /\ Now(t, Resting)[t] = Resting
      /\ \A u \in Callers : u # t => Now(t, Resting)[u] = caller[u]
  BY <1>1, CallerTyped DEF MemoryInv
<1> QED
  BY <1>1, <1>2 DEF Pinned

\* hsa_amd_ipc_memory_attach: a new attachment is counted, or has to be imported.
LEMMA ImportBeginInv ==
  ASSUME MemoryInv, NEW t \in Callers, NEW on \in GPUs, ImportBegin(t, on)
  PROVE  MemoryInv'
<1> DEFINE known == {o \in allocations : object[o].kind = "ipc" /\ object[o].on = on}
<1>0. /\ object \in [Objects -> Allocations] /\ job \in [Jobs -> CopyJobs]
      /\ caller \in [Callers -> MemoryCalls] /\ session \in Nat
  BY DEF MemoryInv, MemoryTypes
<1>1. UNCHANGED <<session, up, allocations, job>> /\ caller[t].at = "rest"
  BY DEF ImportBegin
<1>2. CASE known = {}
  <2> DEFINE r == [Resting EXCEPT !.at = "storage", !.kind = "ipc", !.on = on, !.session = session]
  <2>1. r \in MemoryCalls /\ r.at = "storage" /\ r.uses = {}
    BY <1>0 DEF Resting, MemoryCalls
  <2>2. caller' = Now(t, r) /\ UNCHANGED object
    BY <1>2 DEF ImportBegin
  <2>3. caller[t].uses = {}
    BY <1>1 DEF MemoryInv, HoldsNothing
  <2> HIDE DEF r
  <2> QED
    BY <1>1, <2>1, <2>2, <2>3, CallQuiet, JobsKept
<1>3. CASE known # {}
  <2>1. PICK o \in known : object' = [object EXCEPT ![o].imports = @ + 1] /\ UNCHANGED caller
    BY <1>3 DEF ImportBegin
  <2> DEFINE a == object[o]
             b == [a EXCEPT !.imports = a.imports + 1]
  <2>2. o \in Objects /\ object' = [object EXCEPT ![o] = b]
    BY <2>1, MapFacts
  <2>3. a \in Allocations
    BY <1>0, <2>2
  <2> HIDE DEF a
  <2>4. b \in Allocations /\ SameStorage(b, a)
    BY <2>3 DEF Allocations, SameStorage
  <2> HIDE DEF b
  <2>5. object' \in [Objects -> Allocations] /\ \A x \in Objects : SameStorage(object'[x], object[x])
    BY <1>0, <2>2, <2>4 DEF SameStorage, a
  <2>6. PICK ob \in [Objects -> Allocations] : ob = object' /\ \A x \in Objects : SameStorage(ob[x], object[x])
    BY <2>5
  <2>7. SettleStorage(allocations, caller, job, ob)
    BY <1>0, <1>1, <2>1, <2>6, NothingToSettle
  <2> QED
    BY <1>0, <1>1, <2>6, <2>7, MapFacts, SettleStep
<1> QED
  BY <1>2, <1>3

\* hsa_amd_vmem_set_access changes the protection only.
LEMMA VmemSetAccessInv ==
  ASSUME MemoryInv, NEW t \in Callers, NEW o \in Objects, NEW access \in BOOLEAN,
         VmemSetAccess(t, o, access)
  PROVE  MemoryInv'
<1> DEFINE a == object[o]
           b == [a EXCEPT !.access = access]
<1>0. object \in [Objects -> Allocations] /\ job \in [Jobs -> CopyJobs]
  BY DEF MemoryInv, MemoryTypes
<1>1. /\ UNCHANGED <<session, up, allocations, job>> /\ caller' = Now(t, Resting) /\ caller[t].at = "unmap"
      /\ object' = object \/ object' = [object EXCEPT ![o] = b]
  BY DEF VmemSetAccess
<1>2. caller[t].uses = {}
  BY <1>1 DEF MemoryInv, HoldsNothing
<1>3. a \in Allocations
  BY <1>0
<1> HIDE DEF a
<1>4. b \in Allocations /\ SameStorage(b, a)
  BY <1>3 DEF Allocations, SameStorage
<1> HIDE DEF b
<1>5. object' \in [Objects -> Allocations] /\ \A x \in Objects : SameStorage(object'[x], object[x])
  BY <1>0, <1>1, <1>4 DEF SameStorage, a
<1>6. PICK ob \in [Objects -> Allocations] : ob = object' /\ \A x \in Objects : SameStorage(ob[x], object[x])
  BY <1>5
<1>7. PICK cl \in [Callers -> MemoryCalls] :
         /\ cl = caller'
         /\ \A x \in Objects : Pinned(caller, job, x) <=> Pinned(cl, job, x)
         /\ \A u \in Callers : cl[u] = caller[u] \/ (cl[u].at # "publish" /\ cl[u].uses = {})
  BY <1>1, <1>2, RestsInv
<1>8. SettleStorage(allocations, cl, job, ob)
  BY <1>1, <1>6, <1>7, NothingToSettle
<1> QED
  BY <1>0, <1>1, <1>6, <1>7, <1>8, MapFacts, SettleStep

\* hsa_amd_vmem_unmap: the mapping goes at once, and nothing refers to it.
LEMMA VmemUnmapInv ==
  ASSUME MemoryInv, NEW t \in Callers, NEW o \in Objects, VmemUnmap(t, o)
  PROVE  MemoryInv'
<1>0. object \in [Objects -> Allocations]
  BY DEF MemoryInv, MemoryTypes
<1>1. /\ UNCHANGED <<session, up, job>> /\ caller' = Now(t, Resting) /\ caller[t].at = "unmap"
  BY DEF VmemUnmap
<1>2. caller[t].uses = {}
  BY <1>1 DEF MemoryInv, HoldsNothing
<1>3. \A x \in Objects : Pinned(caller, job, x) <=> Pinned(Now(t, Resting), job, x)
  BY <1>2, RestsInv
<1>4. \A x \in Objects : object[x].st = "made" => x \in allocations \/ Pinned(caller, job, x)
  BY DEF MemoryInv, CopyPinsStorage
<1>5. \E tab \in {allocations, allocations \ {o}} : SettleStorage(tab, Now(t, Resting), job, object)
  <2>1. CASE UNCHANGED <<object, allocations>>
    <3>1. \A x \in Objects : SameStorage(object[x], object[x])
      BY DEF SameStorage
    <3>2. Now(t, Resting) \in [Callers -> MemoryCalls]
      BY <1>2, RestsInv
    <3> QED
      BY <1>0, <1>1, <1>3, <2>1, <3>1, <3>2, NothingToSettle
  <2>2. CASE /\ o \in allocations /\ ~Pinned(caller, job, o) /\ allocations' = allocations \ {o}
             /\ object' = [object EXCEPT ![o] = NoObject]
    <3>1. object[o].st = "made"
      BY <2>2, MapFacts
    <3>2. object' = [x \in Objects |-> IF x = o THEN NoObject ELSE object[x]]
      BY <1>0, <2>2
    <3>3. \A x \in Objects :
             (x = o) <=> (object[x].st = "made" /\ x \notin allocations \ {o} /\ ~Pinned(Now(t, Resting), job, x))
      BY <1>3, <1>4, <2>2, <3>1
    <3>4. object' = [x \in Objects |->
             IF object[x].st = "made" /\ x \notin allocations \ {o} /\ ~Pinned(Now(t, Resting), job, x)
             THEN NoObject ELSE object[x]]
      BY <3>2, <3>3
    <3>5. SettleStorage(allocations \ {o}, Now(t, Resting), job, object)
      BY <1>1, <2>2, <3>4 DEF SettleStorage
    <3> QED
      BY <3>5
  <2> QED
    BY <2>1, <2>2 DEF VmemUnmap
<1>6. PICK tab \in SUBSET allocations : SettleStorage(tab, Now(t, Resting), job, object)
  BY <1>5
<1>7. tab \in SUBSET Objects /\ (~up => tab = {})
  BY MapFacts
<1>8. \A x \in tab : object[x].st = "made" /\ object[x].session = session
  BY MapFacts
<1>9. \A y, x \in tab : y # x => Extent(y) \cap Extent(x) = {}
  BY MapFacts
<1> QED
  BY <1>1, <1>6, <1>7, <1>8, <1>9, ReturnInv

\* A new object: nothing referred to its name, and now its maker does, or the
\* map does.
LEMMA NewObjectUnused ==
  ASSUME MemoryInv, NEW o \in Objects, Unused(o)
  PROVE  o \notin allocations /\ ~Pinned(caller, job, o)
BY MapFacts DEF Unused, MemoryInv, CopyPinsStorage

\* The storage arrives: a fresh object of the session the call began in, held
\* by the call alone; or it does not.
LEMMA ObtainStorageInv ==
  ASSUME MemoryInv, NEW t \in Callers, ObtainStorage(t)
  PROVE  MemoryInv'
<1>0. /\ object \in [Objects -> Allocations] /\ job \in [Jobs -> CopyJobs]
      /\ caller \in [Callers -> MemoryCalls] /\ session \in Nat /\ MemoryTypes
  BY DEF MemoryInv, MemoryTypes
<1>1. UNCHANGED <<session, up, allocations, job>> /\ caller[t].at = "storage"
  BY DEF ObtainStorage
<1>2. caller[t].uses = {}
  BY <1>1 DEF MemoryInv, HoldsNothing
<1>3. CASE caller' = Now(t, Resting) /\ UNCHANGED object
  <2>1. Resting \in MemoryCalls /\ Resting.at = "rest" /\ Resting.uses = {}
    BY DEF Resting, MemoryCalls
  <2> QED
    BY <1>1, <1>2, <1>3, <2>1, CallQuiet, JobsKept
<1>4. ASSUME NEW o \in Objects, NEW base \in Pages, NEW size \in {1, 2}, Unused(o),
             object' = [object EXCEPT ![o] = [st |-> "made", kind |-> caller[t].kind,
                          on |-> caller[t].on, base |-> base, size |-> size,
                          session |-> caller[t].session, imports |-> 1, access |-> TRUE]],
             caller' = Now(t, [caller[t] EXCEPT !.at = "publish", !.uses = {o}])
      PROVE  MemoryInv'
  <2> DEFINE c == caller[t]
             a == [st |-> "made", kind |-> c.kind, on |-> c.on, base |-> base, size |-> size,
                   session |-> c.session, imports |-> 1, access |-> TRUE]
             r == [c EXCEPT !.at = "publish", !.uses = {o}]
  <2>1. c \in MemoryCalls
    BY <1>0
  <2>2. object' = [object EXCEPT ![o] = a] /\ caller' = Now(t, r)
    BY <1>4
  <2> HIDE DEF c
  <2>3. r \in MemoryCalls /\ r.at = "publish" /\ r.uses = {o} /\ r.session = c.session
    BY <2>1 DEF MemoryCalls
  <2>4. /\ a \in Allocations /\ a.st = "made" /\ a.size = size /\ a.session = c.session
    <3>1. base \in Nat /\ size \in Nat
      BY MemoryAssumption
    <3>2. c.kind \in Kinds \cup {"none", "ipc", "vmem"} /\ c.on \in GPUs \cup {"host"} /\ c.session \in Nat
      BY <2>1 DEF MemoryCalls
    <3> QED
      BY <3>1, <3>2 DEF Allocations
  <2>5. r.session = a.session /\ a.size >= 1
    BY <2>3, <2>4
  <2> HIDE DEF a, r
  <2>6. /\ object' \in [Objects -> Allocations] /\ object'[o] = a
        /\ \A x \in Objects : x # o => object'[x] = object[x]
    BY <1>0, <2>2, <2>4
  <2>7. /\ caller' \in [Callers -> MemoryCalls] /\ caller'[t] = r
        /\ \A u \in Callers : u # t => caller'[u] = caller[u]
    BY <1>0, <2>2, <2>3, CallerTyped
  <2>8. o \notin allocations /\ ~Pinned(caller, job, o)
    BY <1>4, NewObjectUnused
  <2>9. MemoryTypes'
    BY <1>0, <1>1, <2>6, <2>7 DEF MemoryTypes
  <2>10. HoldsNothing'
    BY <1>1, <2>3, <2>7 DEF MemoryInv, HoldsNothing
  <2>11. MapMade'
    <3>1. \A x \in allocations : x \in Objects /\ object[x].st = "made"
      BY MapFacts
    <3>2. \A x \in Objects : object[x].st = "made" => object[x].size >= 1
      BY DEF MemoryInv, MapMade
    <3> QED
      BY <1>1, <2>4, <2>5, <2>6, <2>8, <3>1, <3>2 DEF MapMade
  <2>12. RequestsOwnSession'
    <3> SUFFICES ASSUME NEW u \in Callers, caller'[u].at = "publish"
                 PROVE  \E x \in Objects : caller'[u].uses = {x} /\ object'[x].session = caller'[u].session
      BY DEF RequestsOwnSession
    <3>1. CASE u = t
      BY <2>3, <2>5, <2>6, <2>7, <3>1
    <3>2. CASE u # t
      <4>1. caller'[u] = caller[u]
        BY <2>7, <3>2
      <4>2. PICK x \in Objects : caller[u].uses = {x} /\ object[x].session = caller[u].session
        BY <4>1 DEF MemoryInv, RequestsOwnSession
      <4>3. x # o
        BY <2>8, <4>2 DEF Pinned
      <4> QED
        BY <2>6, <4>1, <4>2, <4>3
    <3> QED
      BY <3>1, <3>2
  <2>13. CopyPinsStorage'
    <3> SUFFICES ASSUME NEW x \in Objects
                 PROVE  /\ Pinned(caller', job, x) => object'[x].st = "made"
                        /\ object'[x].st = "made" => x \in allocations \/ Pinned(caller', job, x)
      BY <1>1 DEF CopyPinsStorage, Pinned
    <3>1. CASE x = o
      BY <2>3, <2>4, <2>6, <2>7, <3>1 DEF Pinned
    <3>2. CASE x # o
      <4>1. Pinned(caller', job, x) <=> Pinned(caller, job, x)
        BY <1>2, <2>3, <2>7, <3>2 DEF Pinned
      <4> QED
        BY <2>6, <3>2, <4>1 DEF MemoryInv, CopyPinsStorage
    <3> QED
      BY <3>1, <3>2
  <2>14. SessionsSeparate'
    BY <1>1, <2>6, <2>8, MapFacts DEF SessionsSeparate
  <2>15. AddressNamesOne'
    <3>1. \A x \in allocations : object'[x] = object[x]
      BY <2>6, <2>8, MapFacts
    <3> QED
      BY <1>1, <3>1, SmallerMap DEF MemoryInv
  <2> QED
    BY <2>9, <2>10, <2>11, <2>12, <2>13, <2>14, <2>15 DEF MemoryInv
<1>5. \/ caller' = Now(t, Resting) /\ UNCHANGED object
      \/ \E o \in Objects, base \in Pages, size \in {1, 2} :
            /\ Unused(o)
            /\ object' = [object EXCEPT ![o] = [st |-> "made", kind |-> caller[t].kind,
                            on |-> caller[t].on, base |-> base, size |-> size,
                            session |-> caller[t].session, imports |-> 1, access |-> TRUE]]
            /\ caller' = Now(t, [caller[t] EXCEPT !.at = "publish", !.uses = {o}])
  BY DEF ObtainStorage
<1> QED
  BY <1>3, <1>4, <1>5

\* hsa_amd_vmem_map enters a fresh mapping whose page no allocation has.
LEMMA VmemMapInv ==
  ASSUME MemoryInv, NEW t \in Callers, NEW o \in Objects, NEW base \in Pages, VmemMap(t, o, base)
  PROVE  MemoryInv'
<1> DEFINE a == [st |-> "made", kind |-> "vmem", on |-> "host", base |-> base, size |-> 1,
                 session |-> session, imports |-> 0, access |-> FALSE]
<1>0. /\ object \in [Objects -> Allocations] /\ session \in Nat /\ MemoryTypes
  BY DEF MemoryInv, MemoryTypes
<1>1. /\ UNCHANGED <<session, up, job, caller>> /\ up /\ Unused(o)
      /\ object' = [object EXCEPT ![o] = a] /\ allocations' = allocations \cup {o}
      /\ \A x \in allocations : base \notin Extent(x)
  BY DEF VmemMap
<1>2. a \in Allocations /\ a.st = "made" /\ a.size = 1 /\ a.base = base /\ a.session = session
  <2>1. base \in Nat
    BY MemoryAssumption
  <2> QED
    BY <1>0, <2>1 DEF Allocations
<1> HIDE DEF a
<1>3. /\ object' \in [Objects -> Allocations] /\ object'[o] = a
      /\ \A x \in Objects : x # o => object'[x] = object[x]
  BY <1>0, <1>1, <1>2
<1>4. o \notin allocations /\ ~Pinned(caller, job, o)
  BY <1>1, NewObjectUnused
<1>5. \A x \in allocations : object'[x] = object[x]
  BY <1>3, <1>4, MapFacts
<1>6. MemoryTypes' /\ HoldsNothing'
  BY <1>0, <1>1, <1>3 DEF MemoryInv, MemoryTypes, HoldsNothing
<1>7. MapMade'
  BY <1>1, <1>2, <1>3, <1>5 DEF MemoryInv, MapMade
<1>8. RequestsOwnSession'
  <2>1. \A u \in Callers : o \notin caller[u].uses
    BY <1>4 DEF Pinned
  <2> QED
    BY <1>1, <1>3, <2>1 DEF MemoryInv, RequestsOwnSession
<1>9. CopyPinsStorage'
  <2> SUFFICES ASSUME NEW x \in Objects
               PROVE  /\ Pinned(caller, job, x) => object'[x].st = "made"
                      /\ object'[x].st = "made" => x \in allocations \cup {o} \/ Pinned(caller, job, x)
    BY <1>1 DEF CopyPinsStorage, Pinned
  <2> QED
    BY <1>2, <1>3 DEF MemoryInv, CopyPinsStorage
<1>10. SessionsSeparate'
  BY <1>1, <1>2, <1>3, <1>5, MapFacts DEF SessionsSeparate
<1>11. AddressNamesOne'
  <2>1. base .. base + 1 - 1 = {base}
    BY MemoryAssumption
  <2>2. Extent(o)' = {base}
    BY <1>2, <1>3, <2>1 DEF Extent
  <2>3. \A x \in allocations : Extent(x)' = Extent(x)
    BY <1>5 DEF Extent
  <2> QED
    BY <1>1, <2>2, <2>3, MapFacts DEF AddressNamesOne
<1> QED
  BY <1>6, <1>7, <1>8, <1>9, <1>10, <1>11 DEF MemoryInv

\* reapCopyJobs only takes jobs off the list.
LEMMA ReapCopyJobsInv ==
  ASSUME MemoryInv, NEW t \in Callers, NEW next \in {"async", "unmap"}, ReapCopyJobs(t, next)
  PROVE  MemoryInv'
<1> DEFINE gone == {j \in Jobs : job[j].listed /\ job[j].at \in {"done", "ended"}}
           r == [Resting EXCEPT !.at = next, !.joins = gone]
<1>0. job \in [Jobs -> CopyJobs]
  BY DEF MemoryInv, MemoryTypes
<1>1. /\ caller' = Now(t, r) /\ UNCHANGED <<session, up, allocations, object>> /\ caller[t].at = "rest"
      /\ job' = [j \in Jobs |-> IF j \in gone THEN [job[j] EXCEPT !.listed = FALSE] ELSE job[j]]
  BY DEF ReapCopyJobs
<1>2. caller[t].uses = {}
  BY <1>1 DEF MemoryInv, HoldsNothing
<1>3. r \in MemoryCalls /\ r.at = next /\ r.uses = {}
  BY DEF Resting, MemoryCalls
<1>4. /\ job' \in [Jobs -> CopyJobs]
      /\ \A j \in Jobs : job'[j].uses = job[j].uses /\ job'[j].at = job[j].at
  <2>1. \A k \in CopyJobs : /\ [k EXCEPT !.listed = FALSE] \in CopyJobs
                            /\ [k EXCEPT !.listed = FALSE].uses = k.uses
                            /\ [k EXCEPT !.listed = FALSE].at = k.at
    BY DEF CopyJobs
  <2> HIDE DEF gone
  <2> QED
    BY <1>0, <1>1, <2>1
<1>5. \A j \in Jobs : job[j].at \in {"none", "ended"} => job[j].uses = {}
  BY DEF MemoryInv, HoldsNothing
<1> HIDE DEF r, gone
<1> QED
  BY <1>1, <1>2, <1>3, <1>4, <1>5, CallQuiet

\* hsa_amd_memory_async_copy: a job takes references from the map.
LEMMA AsyncCopyInv ==
  ASSUME MemoryInv, NEW t \in Callers, NEW ends \in {{o} : o \in Objects}, AsyncCopy(t, ends)
  PROVE  MemoryInv'
<1>0. job \in [Jobs -> CopyJobs]
  BY DEF MemoryInv, MemoryTypes
<1>1. caller' = Now(t, Resting) /\ UNCHANGED <<session, up, allocations, object>> /\ caller[t].at = "async"
  BY DEF AsyncCopy
<1>2. caller[t].uses = {}
  BY <1>1 DEF MemoryInv, HoldsNothing
<1>3. Resting \in MemoryCalls /\ Resting.at = "rest" /\ Resting.uses = {}
  BY DEF Resting, MemoryCalls
<1>4. CASE job' = job
  BY <1>1, <1>2, <1>3, <1>4, CallQuiet, JobsKept
<1>5. ASSUME NEW j \in Jobs, job[j].at = "none", ends \subseteq allocations,
             job' = [job EXCEPT ![j] = [at |-> "wait", uses |-> ends, listed |-> TRUE, stop |-> FALSE]]
      PROVE  MemoryInv'
  <2> DEFINE k == [at |-> "wait", uses |-> ends, listed |-> TRUE, stop |-> FALSE]
  <2>1. k \in CopyJobs /\ k.at = "wait" /\ k.uses = ends
    BY DEF CopyJobs
  <2>2. job' = [job EXCEPT ![j] = k]
    BY <1>5
  <2> HIDE DEF k
  <2>3. job' \in [Jobs -> CopyJobs] /\ job'[j] = k /\ \A i \in Jobs : i # j => job'[i] = job[i]
    BY <1>0, <2>1, <2>2
  <2>4. \A i \in Jobs : job[i].at \in {"none", "ended"} => job[i].uses = {}
    BY DEF MemoryInv, HoldsNothing
  <2>5. \A i \in Jobs :
            /\ \/ job'[i].uses = job[i].uses
               \/ job[i].uses = {} /\ job'[i].uses \subseteq allocations
            /\ job'[i].at \in {"none", "ended"} => job'[i].uses = {}
    BY <1>5, <2>1, <2>3, <2>4
  <2> QED
    BY <1>1, <1>2, <1>3, <2>3, <2>5, CallQuiet
<1> QED
  BY <1>4, <1>5 DEF AsyncCopy

\* The worker's steps before its end, and the end of its job object.
LEMMA JobStepsInv ==
  ASSUME MemoryInv, NEW j \in Jobs, JobWaitEnds(j) \/ JobCompletes(j) \/ JobForgotten(j)
  PROVE  MemoryInv'
<1>0. job \in [Jobs -> CopyJobs] /\ caller \in [Callers -> MemoryCalls]
  BY DEF MemoryInv, MemoryTypes
<1>1. UNCHANGED <<session, up, allocations, object, caller>>
  BY DEF JobWaitEnds, JobCompletes, JobForgotten
<1>2. \A i \in Jobs : job[i].at \in {"none", "ended"} => job[i].uses = {}
  BY DEF MemoryInv, HoldsNothing
<1>3. ASSUME NEW k \in CopyJobs, job' = [job EXCEPT ![j] = k], k.uses = job[j].uses,
             k.at \in {"none", "ended"} => k.uses = {}
      PROVE  MemoryInv'
  <2>1. job' \in [Jobs -> CopyJobs] /\ job'[j] = k /\ \A i \in Jobs : i # j => job'[i] = job[i]
    BY <1>0, <1>3
  <2>2. \A i \in Jobs : job'[i].uses = job[i].uses /\ (job'[i].at \in {"none", "ended"} => job'[i].uses = {})
    BY <1>2, <1>3, <2>1
  <2> QED
    BY <1>0, <1>1, <2>1, <2>2, QuietStep
<1>4. ASSUME NEW next \in {"copy", "failed", "done"}, job' = [job EXCEPT ![j].at = next]
      PROVE  MemoryInv'
  <2> DEFINE b == job[j]
             k == [b EXCEPT !.at = next]
  <2>1. b \in CopyJobs /\ job' = [job EXCEPT ![j] = k]
    BY <1>0, <1>4
  <2> HIDE DEF b
  <2>2. k \in CopyJobs /\ k.uses = b.uses /\ k.at = next
    BY <2>1 DEF CopyJobs
  <2> HIDE DEF k
  <2> QED
    BY <1>3, <2>1, <2>2 DEF b
<1>5. CASE JobWaitEnds(j)
  BY <1>4, <1>5 DEF JobWaitEnds
<1>6. CASE JobCompletes(j)
  BY <1>4, <1>6 DEF JobCompletes
<1>7. CASE JobForgotten(j)
  <2>1. NoJob \in CopyJobs /\ NoJob.uses = {}
    BY DEF NoJob, CopyJobs
  <2>2. job[j].uses = {} /\ job' = [job EXCEPT ![j] = NoJob]
    BY <1>2, <1>7 DEF JobForgotten
  <2> QED
    BY <1>3, <2>1, <2>2
<1> QED
  BY <1>5, <1>6, <1>7

\* Reservations, and stuttering, leave all of this alone.
LEMMA ReservationInv ==
  ASSUME MemoryInv, UNCHANGED <<session, up, allocations, object, job, caller>>
  PROVE  MemoryInv'
<1>1. caller' \in [Callers -> MemoryCalls]
  BY DEF MemoryInv, MemoryTypes
<1> QED
  BY <1>1, QuietStep, JobsKept

\* Every step of the runtime keeps the invariant.
LEMMA MemoryNextInv == MemoryInv /\ [MemoryNext]_memoryVars => MemoryInv'
<1> SUFFICES ASSUME MemoryInv, [MemoryNext]_memoryVars PROVE MemoryInv'
  OBVIOUS
<1>1. ASSUME NEW t \in Callers, Calls(t) PROVE MemoryInv'
  <2>1. CASE MemoryInitialize(t) \/ MemoryShutDown(t)
    BY <2>1, MemoryInitializeInv, MemoryShutDownInv
  <2>2. CASE \E kind \in Kinds, on \in GPUs \union {"host"} : AllocateBegin(t, kind, on)
    BY <2>2, CallBeginsInv
  <2>3. CASE \E on \in GPUs : ImportBegin(t, on)
    BY <2>3, ImportBeginInv
  <2>4. CASE \E o \in Objects : MemoryFree(t, o) \/ IPCMemoryDetach(t, o)
    BY <2>4, MemoryFreeInv
  <2>5. CASE \E o \in Objects : CopyBegin(t, {o})
    BY <2>5, CallBeginsInv
  <2>6. CASE \E pages \in Reservable : AddressReserve(t, pages) \/ AddressFree(t, pages)
    <3>1. UNCHANGED <<session, up, allocations, object, job, caller>>
      BY <2>6 DEF AddressReserve, AddressFree
    <3> QED
      BY <3>1, ReservationInv
  <2>7. CASE \E p \in Pages, o \in Objects : VmemMap(t, o, p)
    BY <2>7, VmemMapInv
  <2>8. CASE \E next \in {"async", "unmap"} : ReapCopyJobs(t, next)
    BY <2>8, ReapCopyJobsInv
  <2> QED
    BY <1>1, <2>1, <2>2, <2>3, <2>4, <2>5, <2>6, <2>7, <2>8 DEF Calls
<1>2. ASSUME NEW t \in Callers, CallSteps(t) PROVE MemoryInv'
  <2>1. CASE MemoryShutDownReturns(t) \/ CopyReturns(t)
    BY <2>1, ShutDownReturnsInv
  <2>2. CASE ObtainStorage(t)
    BY <2>2, ObtainStorageInv
  <2>3. CASE PublishAllocation(t)
    BY <2>3, PublishAllocationInv
  <2>4. CASE Joined(t)
    BY <2>4, CallBeginsInv
  <2>5. CASE \E o \in Objects : VmemUnmap(t, o)
    BY <2>5, VmemUnmapInv
  <2>6. CASE \E ends \in {{o} : o \in Objects} : AsyncCopy(t, ends)
    BY <2>6, AsyncCopyInv
  <2> QED
    BY <1>2, <2>1, <2>2, <2>3, <2>4, <2>5, <2>6 DEF CallSteps
<1>3. CASE \E t \in Callers, o \in Objects, access \in BOOLEAN : VmemSetAccess(t, o, access)
  BY <1>3, VmemSetAccessInv
<1>4. CASE \E j \in Jobs : JobWaitEnds(j) \/ JobCompletes(j) \/ JobEnds(j) \/ JobForgotten(j)
  BY <1>4, JobStepsInv, JobEndsInv
<1>5. CASE UNCHANGED memoryVars
  <2>1. UNCHANGED <<session, up, allocations, object, job, caller>>
    BY <1>5 DEF memoryVars
  <2> QED
    BY <2>1, ReservationInv
<1> QED
  BY <1>1, <1>2, <1>3, <1>4, <1>5 DEF MemoryNext

\* In every behaviour of the runtime's memory the whole invariant holds.
THEOREM MemorySafe == MemorySpec => []MemoryInv
<1> QED
  BY MemoryInitInv, MemoryNextInv, PTL DEF MemorySpec

\* No copy touches storage that was given back, however frees, detachments,
\* unmappings and hsa_shut_down interleave with it, and storage without a
\* reference is given back.
THEOREM CopiesPinStorage == MemorySpec => []CopyPinsStorage
<1>1. MemoryInv => CopyPinsStorage
  BY DEF MemoryInv
<1> QED
  BY <1>1, MemorySafe, PTL

\* Whatever findAllocation searches belongs to the running session, and an
\* address names one allocation of it.
THEOREM LookupsUnambiguous == MemorySpec => []AllocationsKnown
<1>1. MemoryInv => AllocationsKnown
  BY DEF MemoryInv, AllocationsKnown
<1> QED
  BY <1>1, MemorySafe, PTL

-----------------------------------------------------------------------------
(***************************************************************************)
(* Executables                                                             *)
(***************************************************************************)
Codes == [exec : Execs \cup {"none"}, agent : Agents \cup {"none"}, address : Addresses \cup {0},
          name : KernelNames \cup {"none"}]
Loading == {"allocate", "upload", "invalidate", "publish"}
Holding == Loading \cup {"dispatch"}
Threading == [at : Holding \cup {"idle", "release"}, img : Images \cup {NoImage}, drops : SUBSET Images]

ExecutablesTypes ==
    /\ lifecycle \in Threads \cup {"none"}
    /\ exec \in [Execs -> {"unused", "open", "frozen", "gone"}]
    /\ image \in [Images -> Codes]
    /\ loaded \in SUBSET Images /\ storage \in SUBSET Images
    /\ memory \in [Agents \X Addresses -> Images \cup {NoImage}]
    /\ icache \in [Agents \X Addresses -> Images \cup {NoImage}]
    /\ thread \in [Threads -> Threading]

\* Whoever loads or dispatches holds the lifecycle mutex.
UnderLifecycle == \A t \in Threads : thread[t].at \in Holding => lifecycle = t

\* An image with storage has been described and placed, at a place of its own.
Placed ==
    /\ \A i \in storage : image[i].exec \in Execs /\ Place(i) \in Agents \X Addresses
    /\ \A i, j \in storage : Place(i) = Place(j) => i = j

\* A loaded image has its storage and a live executable, shares its address
\* with none, and is the code its place holds and the GPU may have cached.
LoadedSound ==
    /\ loaded \subseteq storage
    /\ \A i \in loaded : /\ exec[image[i].exec] \in {"open", "frozen"}
                         /\ memory[Place(i)] = i /\ icache[Place(i)] \in {NoImage, i}
    /\ \A i, j \in loaded : image[i].address = image[j].address => i = j

\* An image being loaded is nobody else's yet, and gets further step by step.
LoadsSound ==
    \A t \in Threads : thread[t].at \in Loading =>
        LET i == thread[t].img
        IN  /\ i \in Images \ loaded /\ image[i].exec \in Execs /\ image[i].agent \in Agents
            /\ exec[image[i].exec] = "open"
            /\ i \in storage <=> thread[t].at # "allocate"
            /\ thread[t].at \in {"invalidate", "publish"} => memory[Place(i)] = i
            /\ thread[t].at = "publish" => icache[Place(i)] = NoImage
            /\ \A u \in Threads : thread[u].at = "release" => i \notin thread[u].drops

\* Images being released are no longer loaded, and their names are used up.
ReleasesSound ==
    \A t \in Threads : thread[t].at = "release" =>
        \A i \in thread[t].drops : i \notin loaded /\ image[i].exec \in Execs

\* A dispatch runs a loaded image.
CallsSound == \A t \in Threads : thread[t].at = "dispatch" => thread[t].img \in loaded

ExecutablesInv ==
    /\ ExecutablesTypes /\ UnderLifecycle /\ Placed /\ LoadedSound /\ LoadsSound
    /\ ReleasesSound /\ CallsSound

\* Nothing is loaded before the first session.
LEMMA ExecutablesInitInv == ExecutablesInit => ExecutablesInv
<1> SUFFICES ASSUME ExecutablesInit PROVE ExecutablesInv
  OBVIOUS
<1>1. AtRest \in Threading /\ AtRest.at = "idle" /\ NoCode \in Codes
  BY DEF AtRest, Threading, NoCode, Codes, NoImage
<1>2. \A t \in Threads : thread[t] = AtRest
  BY DEF ExecutablesInit
<1>3. ExecutablesTypes
  BY <1>1 DEF ExecutablesInit, ExecutablesTypes
<1>4. \A t \in Threads : thread[t].at = "idle"
  BY <1>1, <1>2
<1>5. UnderLifecycle /\ LoadsSound /\ ReleasesSound /\ CallsSound
  BY <1>4 DEF UnderLifecycle, LoadsSound, ReleasesSound, CallsSound, Holding, Loading
<1>6. Placed /\ LoadedSound
  BY DEF ExecutablesInit, Placed, LoadedSound
<1> QED
  BY <1>3, <1>5, <1>6 DEF ExecutablesInv

\* Mutual exclusion: a thread inside a call that needs the lifecycle mutex is
\* the only one, and none is while the mutex is free.
LEMMA OneHolder ==
  ASSUME ExecutablesInv
  PROVE  /\ \A t, u \in Threads : lifecycle \in {"none", t} /\ u # t => thread[u].at \notin Holding
         /\ \A t, u \in Threads : thread[t].at \in Holding /\ thread[u].at \in Holding => t = u
BY ExecutablesAssumption DEF ExecutablesInv, UnderLifecycle

\* Who enters finds nobody inside, himself included.
LEMMA Entered ==
  ASSUME ExecutablesInv, NEW t \in Threads, Enters(t)
  PROVE  \A u \in Threads : thread[u].at \notin Holding
BY OneHolder DEF Enters, Holding, Loading

\* A call's end, and the update of one thread's state.
LEMMA ThreadUpdated ==
  ASSUME ExecutablesInv, NEW t \in Threads, NEW r \in Threading, thread' = [thread EXCEPT ![t] = r]
  PROVE  /\ thread' \in [Threads -> Threading] /\ thread'[t] = r
         /\ \A u \in Threads : u # t => thread'[u] = thread[u]
BY DEF ExecutablesInv, ExecutablesTypes

\* A call ends: its thread is idle, or releases what it dropped.
LEMMA CallLeft ==
  ASSUME ExecutablesInv, NEW t \in Threads, NEW d \in SUBSET Images, NEW of, Leaves(t, d, of)
  PROVE  \E r \in Threading :
            /\ thread' = [thread EXCEPT ![t] = r] /\ lifecycle' \in {"none", t}
            /\ r.at \in {"idle", "release"} /\ r.drops = d
            /\ r.at = "idle" => d = {}
<1> DEFINE at == IF d = {} THEN "idle" ELSE "release"
           r == [AtRest EXCEPT !.at = at, !.drops = d]
<1>1. thread' = [thread EXCEPT ![t] = r] /\ lifecycle' \in {"none", t}
  BY DEF Leaves, Unlocked
<1>2. at \in {"idle", "release"} /\ (at = "idle" => d = {})
  OBVIOUS
<1> HIDE DEF at
<1>3. r \in Threading /\ r.at = at /\ r.drops = d
  BY <1>2 DEF AtRest, Threading, NoImage
<1> HIDE DEF r
<1> QED
  BY <1>1, <1>2, <1>3

\* A step that changes one thread and the mutex, and no table.
LEMMA ThreadStep ==
  ASSUME ExecutablesInv, NEW t \in Threads, NEW r \in Threading, thread' = [thread EXCEPT ![t] = r],
         UNCHANGED <<exec, image, loaded, storage, memory, icache>>,
         lifecycle' \in Threads \cup {"none"},
         r.at \in Holding => lifecycle' = t,
         \A u \in Threads : u # t /\ thread[u].at \in Holding => lifecycle' = u,
         r.at \notin Loading,
         r.at = "release" => \A i \in r.drops : i \notin loaded /\ image[i].exec \in Execs,
         r.at = "release" => \A u \in Threads : u # t /\ thread[u].at \in Loading => thread[u].img \notin r.drops,
         r.at = "dispatch" => r.img \in loaded
  PROVE  ExecutablesInv'
<1>1. /\ thread' \in [Threads -> Threading] /\ thread'[t] = r
      /\ \A u \in Threads : u # t => thread'[u] = thread[u]
  BY ThreadUpdated
<1>2. ExecutablesTypes'
  BY <1>1 DEF ExecutablesInv, ExecutablesTypes
<1>3. UnderLifecycle'
  BY <1>1 DEF UnderLifecycle
<1>4. Placed' /\ LoadedSound'
  BY DEF ExecutablesInv, Placed, LoadedSound, Place
<1>5. LoadsSound'
  <2> SUFFICES ASSUME NEW u \in Threads, thread'[u].at \in Loading
               PROVE  LET i == thread'[u].img
                      IN  /\ i \in Images \ loaded /\ image[i].exec \in Execs /\ image[i].agent \in Agents
                          /\ exec[image[i].exec] = "open"
                          /\ i \in storage <=> thread'[u].at # "allocate"
                          /\ thread'[u].at \in {"invalidate", "publish"} => memory[Place(i)] = i
                          /\ thread'[u].at = "publish" => icache[Place(i)] = NoImage
                          /\ \A v \in Threads : thread'[v].at = "release" => i \notin thread'[v].drops
    BY DEF LoadsSound, Place
  <2>1. u # t /\ thread'[u] = thread[u]
    BY <1>1
  <2> QED
    BY <1>1, <2>1 DEF ExecutablesInv, LoadsSound
<1>6. ReleasesSound' /\ CallsSound'
  BY <1>1 DEF ExecutablesInv, ReleasesSound, CallsSound
<1> QED
  BY <1>2, <1>3, <1>4, <1>5, <1>6 DEF ExecutablesInv

\* A step that ends a call which held the mutex, dropping the images in d.
LEMMA LeaveStep ==
  ASSUME ExecutablesInv, NEW t \in Threads, NEW d \in SUBSET Images, NEW of, Leaves(t, d, of),
         thread[t].at \in Holding \/ lifecycle = t,
         UNCHANGED <<exec, image, loaded, storage, memory, icache>>,
         \A i \in d : i \notin loaded /\ image[i].exec \in Execs
  PROVE  ExecutablesInv'
<1>1. PICK r \in Threading :
         /\ thread' = [thread EXCEPT ![t] = r] /\ lifecycle' \in {"none", t}
         /\ r.at \in {"idle", "release"} /\ r.drops = d
         /\ r.at = "idle" => d = {}
  BY CallLeft
<1>2. \A u \in Threads : u # t => thread[u].at \notin Holding
  BY OneHolder
<1>3. r.at \notin Holding /\ r.at \notin Loading /\ Loading \subseteq Holding
  BY <1>1 DEF Holding, Loading
<1>4. r.at # "dispatch"
  BY <1>1
<1> QED
  BY <1>1, <1>2, <1>3, <1>4, ThreadStep

\* hsa_init touches none of this.
LEMMA RuntimeInitInv ==
  ASSUME ExecutablesInv, UNCHANGED <<lifecycle, exec, image, loaded, storage, memory, icache, thread>>
  PROVE  ExecutablesInv'
BY DEF ExecutablesInv, ExecutablesTypes, UnderLifecycle, Placed, LoadedSound, LoadsSound, ReleasesSound,
       CallsSound, Place

\* hsa_shut_down empties the tables while nobody holds the mutex, and releases
\* what was in them.
LEMMA RuntimeShutDownInv ==
  ASSUME ExecutablesInv, NEW t \in Threads, RuntimeShutDown(t)
  PROVE  ExecutablesInv'
<1> DEFINE d == loaded \ Retained(loaded)
           r == [AtRest EXCEPT !.at = "release", !.drops = d]
<1>1. /\ Enters(t) /\ loaded' = {} /\ UNCHANGED <<image, storage, memory, icache>>
      /\ exec' = [e \in Execs |-> IF exec[e] = "unused" THEN "unused" ELSE "gone"]
      /\ lifecycle' \in {"none", t} /\ thread' = [thread EXCEPT ![t] = r]
  BY DEF RuntimeShutDown, Unlocked
<1>2. loaded \in SUBSET Images /\ d \subseteq loaded
  BY DEF ExecutablesInv, ExecutablesTypes
<1> HIDE DEF d
<1>3. r \in Threading /\ r.at = "release" /\ r.drops = d
  BY <1>2 DEF AtRest, Threading, NoImage
<1> HIDE DEF r
<1>4. /\ thread' \in [Threads -> Threading] /\ thread'[t] = r
      /\ \A u \in Threads : u # t => thread'[u] = thread[u]
  BY <1>1, <1>3, ThreadUpdated
<1>5. \A u \in Threads : thread'[u].at \notin Holding
  BY <1>1, <1>3, <1>4, Entered DEF Holding, Loading
<1>6. ExecutablesTypes'
  BY <1>1, <1>3, <1>4 DEF ExecutablesInv, ExecutablesTypes
<1>7. UnderLifecycle' /\ LoadsSound' /\ CallsSound'
  BY <1>5 DEF UnderLifecycle, LoadsSound, CallsSound, Holding
<1>8. Placed' /\ LoadedSound'
  BY <1>1 DEF ExecutablesInv, Placed, LoadedSound, Place
<1>9. ReleasesSound'
  <2>1. \A i \in loaded : image[i].exec \in Execs
    BY DEF ExecutablesInv, LoadedSound, Placed
  <2> QED
    BY <1>1, <1>2, <1>3, <1>4, <2>1 DEF ExecutablesInv, ReleasesSound
<1> QED
  BY <1>6, <1>7, <1>8, <1>9 DEF ExecutablesInv

\* hsa_executable_create_alt and _freeze change no loaded image's standing.
LEMMA CreateFreezeInv ==
  ASSUME ExecutablesInv, NEW t \in Threads, CreateExecutable(t) \/ Freeze(t)
  PROVE  ExecutablesInv'
<1>1. /\ Enters(t) /\ UNCHANGED <<lifecycle, image, loaded, storage, memory, icache, thread>>
      /\ exec' \in [Execs -> {"unused", "open", "frozen", "gone"}]
      /\ \A e \in Execs : exec[e] \in {"open", "frozen"} => exec'[e] \in {"open", "frozen"}
  BY DEF CreateExecutable, Freeze, ExecutablesInv, ExecutablesTypes
<1>2. \A u \in Threads : thread[u].at \notin Holding
  BY <1>1, Entered
<1>3. ExecutablesTypes' /\ Placed'
  BY <1>1 DEF ExecutablesInv, ExecutablesTypes, Placed, Place
<1>4. UnderLifecycle' /\ LoadsSound' /\ CallsSound'
  BY <1>1, <1>2 DEF UnderLifecycle, LoadsSound, CallsSound, Holding
<1>5. LoadedSound'
  <2>1. \A i \in loaded : image[i].exec \in Execs
    BY DEF ExecutablesInv, LoadedSound, Placed
  <2> QED
    BY <1>1, <2>1 DEF ExecutablesInv, LoadedSound, Place
<1>6. ReleasesSound'
  BY <1>1 DEF ExecutablesInv, ReleasesSound
<1> QED
  BY <1>3, <1>4, <1>5, <1>6 DEF ExecutablesInv

\* hsa_executable_destroy: the images leave the tables first.
LEMMA DestroyInv ==
  ASSUME ExecutablesInv, NEW t \in Threads, Destroy(t)
  PROVE  ExecutablesInv'
<1>1. PICK e \in Execs :
        /\ exec' = [exec EXCEPT ![e] = "gone"]
        /\ loaded' = loaded \ ImagesOf(e)
        /\ Leaves(t, ImagesOf(e) \ Retained(ImagesOf(e)), traversals.of)
  BY DEF Destroy
<1>2. Enters(t) /\ UNCHANGED <<image, storage, memory, icache>>
  BY DEF Destroy
<1>3. ImagesOf(e) \in SUBSET Images /\ \A i \in ImagesOf(e) : i \in loaded /\ image[i].exec = e
  BY DEF ImagesOf, ExecutablesInv, ExecutablesTypes
<1> DEFINE d == ImagesOf(e) \ Retained(ImagesOf(e))
<1>4. d \in SUBSET Images /\ d \subseteq ImagesOf(e)
  BY <1>3
<1>5. PICK r \in Threading :
         /\ thread' = [thread EXCEPT ![t] = r] /\ lifecycle' \in {"none", t}
         /\ r.at \in {"idle", "release"} /\ r.drops = d
  BY <1>1, <1>4, CallLeft
<1> HIDE DEF d
<1>6. /\ thread' \in [Threads -> Threading] /\ thread'[t] = r
      /\ \A u \in Threads : u # t => thread'[u] = thread[u]
  BY <1>5, ThreadUpdated
<1>7. \A u \in Threads : thread'[u].at \notin Holding
  BY <1>2, <1>5, <1>6, Entered DEF Holding, Loading
<1>8. ExecutablesTypes'
  BY <1>1, <1>2, <1>5, <1>6 DEF ExecutablesInv, ExecutablesTypes
<1>9. UnderLifecycle' /\ LoadsSound' /\ CallsSound'
  BY <1>7 DEF UnderLifecycle, LoadsSound, CallsSound, Holding
<1>10. Placed'
  BY <1>2 DEF ExecutablesInv, Placed, Place
<1>11. LoadedSound'
  <2>1. \A i \in loaded' : i \in loaded /\ image[i].exec # e /\ image[i].exec \in Execs
    BY <1>1 DEF ImagesOf, ExecutablesInv, LoadedSound, Placed
  <2>2. \A i \in loaded' : exec'[image[i].exec] \in {"open", "frozen"}
    BY <1>1, <2>1 DEF ExecutablesInv, LoadedSound, ExecutablesTypes
  <2> QED
    BY <1>2, <2>1, <2>2 DEF ExecutablesInv, LoadedSound, Place
<1>12. ReleasesSound'
  BY <1>1, <1>2, <1>3, <1>4, <1>5, <1>6 DEF ExecutablesInv, ReleasesSound
<1> QED
  BY <1>8, <1>9, <1>10, <1>11, <1>12 DEF ExecutablesInv

\* ~LoadedImage frees buffers no table and no load refers to.
LEMMA ReleaseImagesInv ==
  ASSUME ExecutablesInv, NEW t \in Threads, ReleaseImages(t)
  PROVE  ExecutablesInv'
<1>1. /\ thread[t].at = "release" /\ storage' = storage \ thread[t].drops
      /\ thread' = [thread EXCEPT ![t] = AtRest]
      /\ IF lifecycle = t THEN lifecycle' \in {"none", t} ELSE lifecycle' = lifecycle
      /\ UNCHANGED <<exec, image, loaded, memory, icache>>
  BY DEF ReleaseImages, Unlocked
<1>2. AtRest \in Threading /\ AtRest.at = "idle"
  BY DEF AtRest, Threading, NoImage
<1>3. /\ thread' \in [Threads -> Threading] /\ thread'[t] = AtRest
      /\ \A u \in Threads : u # t => thread'[u] = thread[u]
  BY <1>1, <1>2, ThreadUpdated
<1>4. ExecutablesTypes'
  BY <1>1, <1>3 DEF ExecutablesInv, ExecutablesTypes
<1>5. UnderLifecycle'
  BY <1>1, <1>2, <1>3 DEF ExecutablesInv, UnderLifecycle, Holding, Loading
<1>6. Placed'
  BY <1>1 DEF ExecutablesInv, Placed, Place
<1>7. LoadedSound'
  BY <1>1 DEF ExecutablesInv, LoadedSound, ReleasesSound, Place
<1>8. LoadsSound'
  <2> SUFFICES ASSUME NEW u \in Threads, thread'[u].at \in Loading
               PROVE  LET i == thread'[u].img
                      IN  /\ i \in Images \ loaded /\ image[i].exec \in Execs /\ image[i].agent \in Agents
                          /\ exec[image[i].exec] = "open"
                          /\ i \in storage' <=> thread'[u].at # "allocate"
                          /\ thread'[u].at \in {"invalidate", "publish"} => memory[Place(i)] = i
                          /\ thread'[u].at = "publish" => icache[Place(i)] = NoImage
                          /\ \A v \in Threads : thread'[v].at = "release" => i \notin thread'[v].drops
    BY <1>1 DEF LoadsSound, Place
  <2>1. u # t /\ thread'[u] = thread[u]
    BY <1>2, <1>3 DEF Loading
  <2>2. thread[u].img \notin thread[t].drops
    BY <1>1, <2>1 DEF ExecutablesInv, LoadsSound
  <2> QED
    BY <1>1, <1>2, <1>3, <2>1, <2>2 DEF ExecutablesInv, LoadsSound
<1>9. ReleasesSound' /\ CallsSound'
  BY <1>1, <1>2, <1>3 DEF ExecutablesInv, ReleasesSound, CallsSound
<1> QED
  BY <1>4, <1>5, <1>6, <1>7, <1>8, <1>9 DEF ExecutablesInv

\* Where an image is after the step.
PlaceNext(i) == <<image'[i].agent, image'[i].address>>

\* A load that goes on: thread t is the holder of the mutex before and after,
\* so that LoadsSound is about its image alone.
LEMMA LoadStep ==
  ASSUME ExecutablesInv, NEW t \in Threads, NEW r \in Threading, thread' = [thread EXCEPT ![t] = r],
         thread[t].at # "release", r.at \in Loading, lifecycle' = t,
         \A u \in Threads : u # t => thread[u].at \notin Holding,
         UNCHANGED <<exec, loaded>>,
         image' \in [Images -> Codes], storage' \in SUBSET Images,
         memory' \in [Agents \X Addresses -> Images \cup {NoImage}],
         icache' \in [Agents \X Addresses -> Images \cup {NoImage}],
         Placed', LoadedSound',
         r.img \in Images \ loaded, image'[r.img].exec \in Execs, image'[r.img].agent \in Agents,
         exec[image'[r.img].exec] = "open",
         r.img \in storage' <=> r.at # "allocate",
         r.at \in {"invalidate", "publish"} => memory'[PlaceNext(r.img)] = r.img,
         r.at = "publish" => icache'[PlaceNext(r.img)] = NoImage,
         \A u \in Threads : thread[u].at = "release" => r.img \notin thread[u].drops,
         \A i \in Images : image[i].exec \in Execs => image'[i].exec \in Execs
  PROVE  ExecutablesInv'
<1>1. /\ thread' \in [Threads -> Threading] /\ thread'[t] = r
      /\ \A u \in Threads : u # t => thread'[u] = thread[u]
  BY ThreadUpdated
<1>2. ExecutablesTypes'
  BY <1>1 DEF ExecutablesInv, ExecutablesTypes
<1>3. UnderLifecycle'
  BY <1>1 DEF UnderLifecycle
<1>4. r.at # "release" /\ r.at # "dispatch" /\ Loading \subseteq Holding
  BY DEF Loading, Holding
<1>5. LoadsSound'
  <2> SUFFICES ASSUME NEW u \in Threads, thread'[u].at \in Loading
               PROVE  LET i == thread'[u].img
                      IN  /\ i \in Images \ loaded /\ image'[i].exec \in Execs /\ image'[i].agent \in Agents
                          /\ exec[image'[i].exec] = "open"
                          /\ i \in storage' <=> thread'[u].at # "allocate"
                          /\ thread'[u].at \in {"invalidate", "publish"} => memory'[PlaceNext(i)] = i
                          /\ thread'[u].at = "publish" => icache'[PlaceNext(i)] = NoImage
                          /\ \A v \in Threads : thread'[v].at = "release" => i \notin thread'[v].drops
    BY DEF LoadsSound, Place, PlaceNext
  <2>1. u = t /\ thread'[u] = r
    BY <1>1, <1>4
  <2> QED
    BY <1>1, <1>4, <2>1
<1>6. ReleasesSound'
  <2> SUFFICES ASSUME NEW u \in Threads, thread'[u].at = "release", NEW i \in thread'[u].drops
               PROVE  i \notin loaded /\ image'[i].exec \in Execs
    BY DEF ReleasesSound
  <2>1. u # t /\ thread'[u] = thread[u]
    BY <1>1, <1>4
  <2>2. i \in Images
    BY <1>1 DEF Threading
  <2> QED
    BY <2>1, <2>2 DEF ExecutablesInv, ReleasesSound
<1>7. CallsSound'
  <2>1. \A u \in Threads : thread'[u].at # "dispatch"
    BY <1>1, <1>4 DEF Holding
  <2> QED
    BY <2>1 DEF CallsSound
<1> QED
  BY <1>2, <1>3, <1>5, <1>6, <1>7 DEF ExecutablesInv

\* A load begins with an image nobody has used.
LEMMA LoadBeginInv ==
  ASSUME ExecutablesInv, NEW t \in Threads, LoadBegin(t)
  PROVE  ExecutablesInv'
<1>1. PICK e \in Execs, g \in Agents, n \in KernelNames, i \in Images :
        /\ exec[e] = "open" /\ image[i] = NoCode
        /\ \A j \in ImagesOf(e) : ~(image[j].agent = g /\ image[j].name = n)
        /\ image' = [image EXCEPT ![i] = [exec |-> e, agent |-> g, address |-> 0, name |-> n]]
        /\ thread' = [thread EXCEPT ![t] = [AtRest EXCEPT !.at = "allocate", !.img = i]]
  BY Zenon DEF LoadBegin
<1> DEFINE code == [exec |-> e, agent |-> g, address |-> 0, name |-> n]
           r == [AtRest EXCEPT !.at = "allocate", !.img = i]
<1>2. /\ Enters(t) /\ lifecycle' = t /\ UNCHANGED <<exec, loaded, storage, memory, icache>>
      /\ thread[t].at = "idle"
  BY DEF LoadBegin, Enters
<1>3. code \in Codes /\ code.exec = e /\ code.agent = g
  BY DEF Codes
<1>4. r \in Threading /\ r.at = "allocate" /\ r.img = i
  BY DEF AtRest, Threading, NoImage, Holding, Loading
<1>5. image' = [image EXCEPT ![i] = code] /\ thread' = [thread EXCEPT ![t] = r]
  BY <1>1
<1> HIDE DEF code, r
<1>6. /\ image' \in [Images -> Codes] /\ image'[i] = code
      /\ \A j \in Images : j # i => image'[j] = image[j]
  BY <1>3, <1>5 DEF ExecutablesInv, ExecutablesTypes
<1>7. image[i].exec \notin Execs
  BY <1>1, ExecutablesAssumption DEF NoCode
<1>8. i \notin storage /\ i \notin loaded
  BY <1>7 DEF ExecutablesInv, Placed, LoadedSound
<1>9. storage \in SUBSET Images /\ loaded \subseteq storage
  BY DEF ExecutablesInv, ExecutablesTypes, LoadedSound
<1>10. \A j \in storage : image'[j] = image[j]
  BY <1>6, <1>8, <1>9
<1>11. Placed'
  BY <1>2, <1>10 DEF ExecutablesInv, Placed, Place
<1>12. LoadedSound'
  BY <1>2, <1>9, <1>10 DEF ExecutablesInv, LoadedSound, Place
<1>13. \A u \in Threads : thread[u].at = "release" => i \notin thread[u].drops
  BY <1>7 DEF ExecutablesInv, ReleasesSound
<1>14. \A u \in Threads : thread[u].at \notin Holding
  BY <1>2, Entered
<1>15. /\ memory' \in [Agents \X Addresses -> Images \cup {NoImage}]
       /\ icache' \in [Agents \X Addresses -> Images \cup {NoImage}]
  BY <1>2 DEF ExecutablesInv, ExecutablesTypes
<1>16. \A j \in Images : image[j].exec \in Execs => image'[j].exec \in Execs
  BY <1>6, <1>7
<1>17. r.at \in Loading /\ ~(r.at \in {"invalidate", "publish"}) /\ r.at # "publish"
  BY <1>4 DEF Loading
<1> QED
  BY <1>1, <1>2, <1>3, <1>4, <1>5, <1>6, <1>8, <1>9, <1>11, <1>12, <1>13, <1>14, <1>15, <1>16, <1>17, LoadStep

\* What is known of an image while it is being loaded.
LEMMA LoadFacts ==
  ASSUME ExecutablesInv, NEW t \in Threads, thread[t].at \in Loading
  PROVE  /\ lifecycle = t /\ \A u \in Threads : u # t => thread[u].at \notin Holding
         /\ thread[t].img \in Images \ loaded /\ image[thread[t].img].exec \in Execs
         /\ image[thread[t].img].agent \in Agents /\ exec[image[thread[t].img].exec] = "open"
         /\ thread[t].img \in storage <=> thread[t].at # "allocate"
         /\ thread[t].at \in {"invalidate", "publish"} => memory[Place(thread[t].img)] = thread[t].img
         /\ thread[t].at = "publish" => icache[Place(thread[t].img)] = NoImage
         /\ \A u \in Threads : thread[u].at = "release" => thread[t].img \notin thread[u].drops
         /\ thread[t].at \in Holding
<1>1. thread[t].at \in Holding
  BY DEF Holding
<1>2. lifecycle = t /\ \A u \in Threads : u # t => thread[u].at \notin Holding
  BY <1>1, OneHolder DEF ExecutablesInv, UnderLifecycle
<1> QED
  BY <1>1, <1>2 DEF ExecutablesInv, LoadsSound

\* Going on to the next step of a load leaves the image the same.
LEMMA NextStage ==
  ASSUME ExecutablesInv, NEW t \in Threads, NEW at \in Holding, thread' = [thread EXCEPT ![t].at = at]
  PROVE  \E r \in Threading : thread' = [thread EXCEPT ![t] = r] /\ r.at = at /\ r.img = thread[t].img
<1> DEFINE c == thread[t]
           r == [c EXCEPT !.at = at]
<1>1. c \in Threading /\ thread' = [thread EXCEPT ![t] = r]
  BY DEF ExecutablesInv, ExecutablesTypes
<1> HIDE DEF c
<1>2. r \in Threading /\ r.at = at /\ r.img = c.img
  BY <1>1 DEF Threading
<1> HIDE DEF r
<1> QED
  BY <1>1, <1>2 DEF c

\* The tables' types, for the steps that leave them alone.
LEMMA TableTypes ==
  ASSUME ExecutablesInv
  PROVE  /\ image \in [Images -> Codes] /\ storage \in SUBSET Images /\ loaded \in SUBSET Images
         /\ memory \in [Agents \X Addresses -> Images \cup {NoImage}]
         /\ icache \in [Agents \X Addresses -> Images \cup {NoImage}]
         /\ loaded \subseteq storage
BY DEF ExecutablesInv, ExecutablesTypes, LoadedSound

\* The buffer gets a place the process does not hold yet, or the load ends.
LEMMA LoadAllocateInv ==
  ASSUME ExecutablesInv, NEW t \in Threads, LoadAllocate(t)
  PROVE  ExecutablesInv'
<1>1. thread[t].at = "allocate" /\ UNCHANGED <<exec, loaded, memory, icache>>
  BY DEF LoadAllocate
<1>2. thread[t].at \in Loading
  BY <1>1 DEF Loading
<1>3. CASE Leaves(t, {}, traversals.of) /\ UNCHANGED <<image, storage>>
  <2>1. thread[t].at \in Holding
    BY <1>2, LoadFacts
  <2> QED
    BY <1>1, <1>3, <2>1, LeaveStep
<1>4. ASSUME NEW i, i = thread[t].img, NEW a \in Addresses, \A j \in storage : Place(j) # <<image[i].agent, a>>,
             image' = [image EXCEPT ![i].address = a], storage' = storage \cup {i},
             thread' = [thread EXCEPT ![t].at = "upload"], UNCHANGED lifecycle
      PROVE  ExecutablesInv'
  <2> DEFINE b == image[i]
             code == [b EXCEPT !.address = a]
  <2>1. /\ i \in Images /\ i \notin loaded /\ i \notin storage
        /\ b.exec \in Execs /\ b.agent \in Agents /\ exec[b.exec] = "open"
        /\ lifecycle = t /\ \A u \in Threads : u # t => thread[u].at \notin Holding
        /\ \A u \in Threads : thread[u].at = "release" => i \notin thread[u].drops
    BY <1>1, <1>2, <1>4, LoadFacts
  <2>2. b \in Codes /\ image' = [image EXCEPT ![i] = code]
    BY <1>4, <2>1, TableTypes
  <2>3. PICK r \in Threading : thread' = [thread EXCEPT ![t] = r] /\ r.at = "upload" /\ r.img = i
    <3>1. "upload" \in Holding
      BY DEF Holding, Loading
    <3>2. \E r \in Threading : thread' = [thread EXCEPT ![t] = r] /\ r.at = "upload" /\ r.img = thread[t].img
      BY <1>4, <3>1, NextStage, Zenon
    <3> QED
      BY <1>4, <3>2
  <2>4. \A j \in storage : Place(j) # <<b.agent, a>>
    BY <1>4
  <2> HIDE DEF b
  <2>5. code \in Codes /\ code.exec = b.exec /\ code.agent = b.agent /\ code.address = a
    BY <2>2 DEF Codes
  <2> HIDE DEF code
  <2>6. /\ image' \in [Images -> Codes] /\ image'[i] = code
        /\ \A j \in Images : j # i => image'[j] = image[j]
    BY <2>1, <2>2, <2>5, TableTypes
  <2>7. \A j \in storage : image'[j] = image[j] /\ PlaceNext(j) = Place(j)
    BY <2>1, <2>6, TableTypes DEF Place, PlaceNext
  <2>8. PlaceNext(i) = <<b.agent, a>>
    BY <2>5, <2>6 DEF PlaceNext
  <2>9. Placed'
    <3>1. \A j \in storage' : image'[j].exec \in Execs /\ PlaceNext(j) \in Agents \X Addresses
      <4>1. \A j \in storage : image[j].exec \in Execs /\ Place(j) \in Agents \X Addresses
        BY DEF ExecutablesInv, Placed
      <4>2. image'[i].exec \in Execs /\ PlaceNext(i) \in Agents \X Addresses
        BY <2>1, <2>5, <2>6, <2>8
      <4> QED
        BY <1>4, <2>7, <4>1, <4>2
    <3>2. \A j, k \in storage' : PlaceNext(j) = PlaceNext(k) => j = k
      <4>1. \A j, k \in storage : Place(j) = Place(k) => j = k
        BY DEF ExecutablesInv, Placed
      <4> QED
        BY <1>4, <2>4, <2>7, <2>8, <4>1
    <3> QED
      BY <3>1, <3>2 DEF Placed, Place, PlaceNext
  <2>10. LoadedSound'
    <3>1. loaded \subseteq storage
      BY TableTypes
    <3>2. \A j \in loaded : image'[j] = image[j] /\ PlaceNext(j) = Place(j)
      BY <2>7, <3>1
    <3>3. \A j \in loaded : /\ exec[image'[j].exec] \in {"open", "frozen"}
                            /\ memory[PlaceNext(j)] = j /\ icache[PlaceNext(j)] \in {NoImage, j}
      BY <3>2 DEF ExecutablesInv, LoadedSound
    <3>4. \A j, k \in loaded : image'[j].address = image'[k].address => j = k
      BY <3>2 DEF ExecutablesInv, LoadedSound
    <3> QED
      BY <1>1, <1>4, <3>1, <3>3, <3>4 DEF LoadedSound, Place, PlaceNext
  <2>11. \A j \in Images : image[j].exec \in Execs => image'[j].exec \in Execs
    BY <2>1, <2>5, <2>6
  <2>12. r.at \in Loading /\ ~(r.at \in {"invalidate", "publish"}) /\ r.at # "publish" /\ r.at # "allocate"
    BY <2>3 DEF Loading
  <2>13. storage' \in SUBSET Images /\ i \in storage'
    BY <1>4, <2>1, TableTypes
  <2>14. /\ memory' \in [Agents \X Addresses -> Images \cup {NoImage}]
         /\ icache' \in [Agents \X Addresses -> Images \cup {NoImage}]
    BY <1>1, TableTypes
  <2> QED
    <3>1. /\ r.img \in Images \ loaded /\ image'[r.img].exec \in Execs /\ image'[r.img].agent \in Agents
          /\ exec[image'[r.img].exec] = "open" /\ r.img \in storage'
          /\ \A u \in Threads : thread[u].at = "release" => r.img \notin thread[u].drops
      BY <2>1, <2>3, <2>5, <2>6, <2>13
    <3>2. thread[t].at # "release" /\ lifecycle' = t /\ UNCHANGED <<exec, loaded>>
      BY <1>1, <1>4, <2>1
    <3> QED
      BY <2>1, <2>3, <2>6, <2>9, <2>10, <2>11, <2>12, <2>13, <2>14, <3>1, <3>2, LoadStep
<1> QED
  BY <1>3, <1>4 DEF LoadAllocate

\* A load's step that leaves the descriptions and the storage alone.
LEMMA LoadGoesOn ==
  ASSUME ExecutablesInv, NEW t \in Threads, NEW i, i = thread[t].img,
         thread[t].at \in {"upload", "invalidate"}, NEW at \in {"invalidate", "publish"},
         thread' = [thread EXCEPT ![t].at = at],
         UNCHANGED <<lifecycle, exec, image, loaded, storage>>,
         memory' \in [Agents \X Addresses -> Images \cup {NoImage}],
         icache' \in [Agents \X Addresses -> Images \cup {NoImage}],
         memory'[Place(i)] = i, at = "publish" => icache'[Place(i)] = NoImage,
         \A j \in loaded : memory'[Place(j)] = j /\ icache'[Place(j)] \in {NoImage, j}
  PROVE  ExecutablesInv'
<1>1. thread[t].at \in Loading /\ at \in Loading /\ at \in Holding /\ thread[t].at # "allocate"
  BY DEF Loading, Holding
<1>2. /\ i \in Images \ loaded /\ i \in storage /\ image[i].exec \in Execs /\ image[i].agent \in Agents
      /\ exec[image[i].exec] = "open"
      /\ lifecycle = t /\ \A u \in Threads : u # t => thread[u].at \notin Holding
      /\ \A u \in Threads : thread[u].at = "release" => i \notin thread[u].drops
  BY <1>1, LoadFacts
<1>3. \E r \in Threading : thread' = [thread EXCEPT ![t] = r] /\ r.at = at /\ r.img = thread[t].img
  BY <1>1, NextStage, Zenon
<1>4. PICK r \in Threading : thread' = [thread EXCEPT ![t] = r] /\ r.at = at /\ r.img = i
  BY <1>3
<1>5. \A j \in Images : PlaceNext(j) = Place(j)
  BY DEF PlaceNext, Place
<1>6. Placed'
  BY DEF ExecutablesInv, Placed, Place
<1>7. LoadedSound'
  <2>1. \A j \in loaded : memory'[PlaceNext(j)] = j /\ icache'[PlaceNext(j)] \in {NoImage, j}
    BY <1>5, TableTypes
  <2> QED
    BY <2>1 DEF ExecutablesInv, LoadedSound, Place, PlaceNext
<1>8. image' \in [Images -> Codes] /\ storage' \in SUBSET Images
  BY TableTypes
<1>9. /\ r.img \in Images \ loaded /\ image'[r.img].exec \in Execs /\ image'[r.img].agent \in Agents
      /\ exec[image'[r.img].exec] = "open"
      /\ \A u \in Threads : thread[u].at = "release" => r.img \notin thread[u].drops
  BY <1>2, <1>4
<1>10. /\ r.img \in storage' <=> r.at # "allocate"
       /\ r.at \in {"invalidate", "publish"} => memory'[PlaceNext(r.img)] = r.img
       /\ r.at = "publish" => icache'[PlaceNext(r.img)] = NoImage
  BY <1>2, <1>4, <1>5
<1>11. thread[t].at # "release" /\ r.at \in Loading /\ lifecycle' = t
  BY <1>1, <1>2, <1>4
<1>12. \A j \in Images : image[j].exec \in Execs => image'[j].exec \in Execs
  OBVIOUS
<1> QED
  BY <1>2, <1>4, <1>6, <1>7, <1>8, <1>9, <1>10, <1>11, <1>12, LoadStep

\* The code is written to its own place; a failure drops the image.
LEMMA LoadUploadInv ==
  ASSUME ExecutablesInv, NEW t \in Threads, LoadUpload(t)
  PROVE  ExecutablesInv'
<1>1. thread[t].at = "upload" /\ UNCHANGED <<exec, image, loaded, storage, icache>>
  BY DEF LoadUpload
<1>2. thread[t].at \in Loading
  BY <1>1 DEF Loading
<1>3. PICK i : i = thread[t].img
  OBVIOUS
<1>4. /\ i \in Images \ loaded /\ i \in storage /\ image[i].exec \in Execs /\ thread[t].at \in Holding
  BY <1>1, <1>2, <1>3, LoadFacts
<1>5. CASE Leaves(t, {i}, traversals.of) /\ UNCHANGED memory
  BY <1>1, <1>4, <1>5, LeaveStep
<1>6. CASE /\ memory' = [memory EXCEPT ![Place(i)] = i]
           /\ thread' = [thread EXCEPT ![t].at = "invalidate"] /\ UNCHANGED lifecycle
  <2>1. Place(i) \in Agents \X Addresses /\ \A j \in loaded : Place(j) \in Agents \X Addresses /\ Place(j) # Place(i)
    BY <1>4, TableTypes DEF ExecutablesInv, Placed
  <2>2. /\ memory' \in [Agents \X Addresses -> Images \cup {NoImage}] /\ memory'[Place(i)] = i
        /\ \A j \in loaded : memory'[Place(j)] = memory[Place(j)]
    BY <1>4, <1>6, <2>1, TableTypes
  <2>3. \A j \in loaded : memory'[Place(j)] = j /\ icache'[Place(j)] \in {NoImage, j}
    BY <1>1, <2>2 DEF ExecutablesInv, LoadedSound
  <2>4. icache' \in [Agents \X Addresses -> Images \cup {NoImage}]
    BY <1>1, TableTypes
  <2> QED
    BY <1>1, <1>3, <1>6, <2>2, <2>3, <2>4, LoadGoesOn
<1> QED
  BY <1>3, <1>5, <1>6 DEF LoadUpload

\* The GPU's code caches forget everything; a failure drops the image.
LEMMA LoadInvalidateInv ==
  ASSUME ExecutablesInv, NEW t \in Threads, LoadInvalidate(t)
  PROVE  ExecutablesInv'
<1>1. thread[t].at = "invalidate" /\ UNCHANGED <<exec, image, loaded, storage, memory>>
  BY DEF LoadInvalidate
<1>2. thread[t].at \in Loading
  BY <1>1 DEF Loading
<1>3. PICK i : i = thread[t].img
  OBVIOUS
<1>4. /\ i \in Images \ loaded /\ i \in storage /\ image[i].exec \in Execs /\ thread[t].at \in Holding
      /\ memory[Place(i)] = i
  BY <1>1, <1>2, <1>3, LoadFacts
<1>5. CASE Leaves(t, {i}, traversals.of) /\ UNCHANGED icache
  BY <1>1, <1>4, <1>5, LeaveStep
<1>6. CASE /\ icache' = [l \in DOMAIN icache |-> IF l[1] = image[i].agent THEN NoImage ELSE icache[l]]
           /\ thread' = [thread EXCEPT ![t].at = "publish"] /\ UNCHANGED lifecycle
  <2>1. DOMAIN icache = Agents \X Addresses
    BY TableTypes
  <2>2. Place(i) \in Agents \X Addresses /\ \A j \in loaded : Place(j) \in Agents \X Addresses
    BY <1>4, TableTypes DEF ExecutablesInv, Placed
  <2>3. Place(i)[1] = image[i].agent
    BY DEF Place
  <2>4. /\ icache' \in [Agents \X Addresses -> Images \cup {NoImage}]
        /\ icache'[Place(i)] = NoImage
        /\ \A j \in loaded : icache'[Place(j)] \in {NoImage, icache[Place(j)]}
    BY <1>6, <2>1, <2>2, <2>3, TableTypes
  <2>5. \A j \in loaded : memory'[Place(j)] = j /\ icache'[Place(j)] \in {NoImage, j}
    BY <1>1, <2>4 DEF ExecutablesInv, LoadedSound
  <2>6. memory' \in [Agents \X Addresses -> Images \cup {NoImage}] /\ memory'[Place(i)] = i
    BY <1>1, <1>4, TableTypes
  <2> QED
    <3>1. /\ thread' = [thread EXCEPT ![t].at = "publish"] /\ thread[t].at \in {"upload", "invalidate"}
          /\ UNCHANGED <<lifecycle, exec, image, loaded, storage>>
      BY <1>1, <1>6
    <3> QED
      BY <1>3, <2>4, <2>5, <2>6, <3>1, LoadGoesOn, Zenon
<1> QED
  BY <1>3, <1>5, <1>6 DEF LoadInvalidate

\* Publication: an address another image answers to is refused.
LEMMA LoadPublishInv ==
  ASSUME ExecutablesInv, NEW t \in Threads, LoadPublish(t)
  PROVE  ExecutablesInv'
<1>1. thread[t].at = "publish" /\ UNCHANGED <<exec, image, storage, memory, icache>>
  BY DEF LoadPublish
<1>2. thread[t].at \in Loading
  BY <1>1 DEF Loading
<1>3. PICK i : i = thread[t].img
  OBVIOUS
<1>4. /\ i \in Images \ loaded /\ i \in storage /\ image[i].exec \in Execs /\ thread[t].at \in Holding
      /\ memory[Place(i)] = i /\ icache[Place(i)] = NoImage /\ exec[image[i].exec] = "open"
      /\ \A u \in Threads : u # t => thread[u].at \notin Holding
      /\ \A u \in Threads : thread[u].at = "release" => i \notin thread[u].drops
  BY <1>1, <1>2, <1>3, LoadFacts
<1>5. CASE \E j \in loaded : image[j].address = image[i].address
  <2>1. loaded' = loaded /\ Leaves(t, {i}, traversals.of)
    BY <1>3, <1>5 DEF LoadPublish
  <2> QED
    BY <1>1, <1>4, <2>1, LeaveStep
<1>6. CASE ~\E j \in loaded : image[j].address = image[i].address
  <2>1. loaded' = loaded \cup {i} /\ Leaves(t, {}, traversals.of)
    BY <1>3, <1>6 DEF LoadPublish
  <2>2. PICK r \in Threading :
           /\ thread' = [thread EXCEPT ![t] = r] /\ lifecycle' \in {"none", t}
           /\ r.at \in {"idle", "release"} /\ r.drops = {}
    BY <2>1, CallLeft
  <2>3. /\ thread' \in [Threads -> Threading] /\ thread'[t] = r
        /\ \A u \in Threads : u # t => thread'[u] = thread[u]
    BY <2>2, ThreadUpdated
  <2>4. \A u \in Threads : thread'[u].at \notin Holding
    BY <1>4, <2>2, <2>3 DEF Holding, Loading
  <2>5. ExecutablesTypes'
    BY <1>1, <1>4, <2>1, <2>2, <2>3 DEF ExecutablesInv, ExecutablesTypes
  <2>6. UnderLifecycle' /\ LoadsSound' /\ CallsSound'
    BY <2>4 DEF UnderLifecycle, LoadsSound, CallsSound, Holding
  <2>7. Placed'
    BY <1>1 DEF ExecutablesInv, Placed, Place
  <2>8. LoadedSound'
    <3>1. \A j \in loaded' : /\ exec[image[j].exec] \in {"open", "frozen"}
                             /\ memory[Place(j)] = j /\ icache[Place(j)] \in {NoImage, j}
      BY <1>4, <2>1 DEF ExecutablesInv, LoadedSound
    <3>2. \A j, k \in loaded' : image[j].address = image[k].address => j = k
      BY <1>6, <2>1 DEF ExecutablesInv, LoadedSound
    <3>3. loaded' \subseteq storage
      BY <1>4, <2>1, TableTypes
    <3> QED
      BY <1>1, <3>1, <3>2, <3>3 DEF LoadedSound, Place
  <2>9. ReleasesSound'
    BY <1>1, <1>4, <2>1, <2>2, <2>3 DEF ExecutablesInv, ReleasesSound
  <2> QED
    BY <2>5, <2>6, <2>7, <2>8, <2>9 DEF ExecutablesInv
<1> QED
  BY <1>5, <1>6

\* A dispatch begins: its thread takes the mutex.
LEMMA DispatchBeginInv ==
  ASSUME ExecutablesInv, NEW t \in Threads, DispatchBegin(t)
  PROVE  ExecutablesInv'
<1>1. Enters(t) /\ lifecycle' = t /\ UNCHANGED <<exec, image, loaded, storage, memory, icache>>
  BY DEF DispatchBegin
<1>2. \A u \in Threads : thread[u].at \notin Holding
  BY <1>1, Entered
<1>3. PICK i \in loaded : thread' = [thread EXCEPT ![t] = [AtRest EXCEPT !.at = "dispatch", !.img = i]]
  BY DEF DispatchBegin
<1> DEFINE r == [AtRest EXCEPT !.at = "dispatch", !.img = i]
<1>4. i \in Images
  BY TableTypes
<1>5. r \in Threading /\ r.at = "dispatch" /\ r.img = i
  BY <1>4 DEF AtRest, Threading, NoImage, Holding
<1>6. thread' = [thread EXCEPT ![t] = r]
  BY <1>3
<1> HIDE DEF r
<1>7. r.at \notin Loading /\ r.at # "release"
  BY <1>5 DEF Loading
<1> QED
  BY <1>1, <1>2, <1>5, <1>6, <1>7, ThreadStep

\* A traversal takes the mutex, or has it already, and changes no table.
LEMMA TraverseBeginInv ==
  ASSUME ExecutablesInv, NEW t \in Threads, TraverseBegin(t)
  PROVE  ExecutablesInv'
<1>1. Enters(t) /\ lifecycle' = t /\ UNCHANGED <<exec, image, loaded, storage, memory, icache, thread>>
  BY DEF TraverseBegin
<1>2. \A u \in Threads : thread[u].at \notin Holding
  BY <1>1, Entered
<1>3. ExecutablesTypes' /\ UnderLifecycle' /\ Placed' /\ LoadedSound'
  BY <1>1, <1>2 DEF ExecutablesInv, ExecutablesTypes, UnderLifecycle, Placed, LoadedSound, Place
<1>4. LoadsSound' /\ ReleasesSound' /\ CallsSound'
  BY <1>1 DEF ExecutablesInv, LoadsSound, ReleasesSound, CallsSound, Place
<1> QED
  BY <1>3, <1>4 DEF ExecutablesInv

\* What a loaded image's kernel executes is its own code.
LEMMA FetchesOwn ==
  ASSUME ExecutablesInv, NEW i \in loaded
  PROVE  i \in storage /\ Fetched(Place(i)) = i
BY DEF ExecutablesInv, LoadedSound, Fetched

\* The GPU caches the code it has run.
LEMMA DispatchRunInv ==
  ASSUME ExecutablesInv, NEW t \in Threads, DispatchRun(t)
  PROVE  ExecutablesInv'
<1>1. thread[t].at = "dispatch" /\ Leaves(t, {}, traversals.of) /\ UNCHANGED <<exec, image, loaded, storage, memory>>
  BY DEF DispatchRun
<1>2. PICK i : i = thread[t].img
  OBVIOUS
<1>3. i \in loaded /\ i \in Images /\ thread[t].at \in Holding
  BY <1>1, <1>2, TableTypes DEF ExecutablesInv, CallsSound, Holding
<1>4. icache' = [icache EXCEPT ![Place(i)] = i]
  BY <1>2, <1>3, FetchesOwn DEF DispatchRun
<1>5. \A j \in loaded : Place(j) \in Agents \X Addresses /\ (Place(j) = Place(i) => j = i)
  BY <1>3, TableTypes DEF ExecutablesInv, Placed
<1>6. /\ icache' \in [Agents \X Addresses -> Images \cup {NoImage}]
      /\ \A j \in loaded : icache'[Place(j)] \in {i, icache[Place(j)]} /\ (j # i => icache'[Place(j)] = icache[Place(j)])
  BY <1>3, <1>4, <1>5, TableTypes
<1>7. \A j \in loaded : icache'[Place(j)] \in {NoImage, j}
  BY <1>6 DEF ExecutablesInv, LoadedSound
<1>8. PICK r \in Threading :
         /\ thread' = [thread EXCEPT ![t] = r] /\ lifecycle' \in {"none", t}
         /\ r.at \in {"idle", "release"} /\ r.drops = {}
  BY <1>1, CallLeft
<1>9. /\ thread' \in [Threads -> Threading] /\ thread'[t] = r
      /\ \A u \in Threads : u # t => thread'[u] = thread[u]
  BY <1>8, ThreadUpdated
<1>10. \A u \in Threads : thread'[u].at \notin Holding
  <2>1. \A u \in Threads : u # t => thread[u].at \notin Holding
    BY <1>3, OneHolder
  <2> QED
    BY <1>8, <1>9, <2>1 DEF Holding, Loading
<1>11. ExecutablesTypes'
  BY <1>1, <1>6, <1>8, <1>9 DEF ExecutablesInv, ExecutablesTypes
<1>12. UnderLifecycle' /\ LoadsSound' /\ CallsSound'
  BY <1>10 DEF UnderLifecycle, LoadsSound, CallsSound, Holding
<1>13. Placed' /\ LoadedSound'
  BY <1>1, <1>7 DEF ExecutablesInv, Placed, LoadedSound, Place
<1>14. ReleasesSound'
  BY <1>1, <1>8, <1>9 DEF ExecutablesInv, ReleasesSound
<1> QED
  BY <1>11, <1>12, <1>13, <1>14 DEF ExecutablesInv

\* A traversal keeps what its executables had: an image it holds has left the
\* tables with its executable and still has its place; those it began with are
\* loaded or held; and nobody releases what is held.
HeldSound ==
    /\ traversals \in [of : Seq(Execs \cup {"table"}), seen : SUBSET Images, held : SUBSET Images]
    /\ \A i \in traversals.held : /\ i \in storage \ loaded /\ memory[Place(i)] = i
                                  /\ image[i].exec \in Traversed /\ exec[image[i].exec] = "gone"
    /\ \A i \in traversals.seen : i \in loaded \cup traversals.held /\ image[i].exec \in Traversed
    /\ \A t \in Threads : thread[t].at = "release" => thread[t].drops \cap traversals.held = {}

LoaderInv == ExecutablesInv /\ HeldSound

\* The end of a traversal releases images nothing else refers to.
LEMMA TraverseEndInv ==
  ASSUME LoaderInv, NEW t \in Threads, TraverseEnd(t)
  PROVE  ExecutablesInv'
<1> DEFINE left == Elements(Tail(traversals.of))
           drops == {i \in traversals.held : image[i].exec \notin left}
<1>1. /\ lifecycle = t /\ Leaves(t, drops, Tail(traversals.of))
      /\ UNCHANGED <<exec, image, loaded, storage, memory, icache>>
  BY DEF TraverseEnd
<1>2. drops \in SUBSET Images /\ \A i \in drops : i \notin loaded /\ image[i].exec \in Execs
  BY DEF LoaderInv, HeldSound, ExecutablesInv, Placed
<1> QED
  BY <1>1, <1>2, LeaveStep DEF LoaderInv

\* Every step of the loader keeps the invariant.
LEMMA ExecutablesNextInv == LoaderInv /\ [ExecutablesNext]_execVars => ExecutablesInv'
<1> SUFFICES ASSUME LoaderInv, [ExecutablesNext]_execVars PROVE ExecutablesInv'
  OBVIOUS
<1> USE DEF LoaderInv
<1>1. CASE UNCHANGED execVars
  BY <1>1, RuntimeInitInv DEF execVars
<1>2. ASSUME NEW t \in Threads, RuntimeInit(t) PROVE ExecutablesInv'
  BY <1>2, RuntimeInitInv DEF RuntimeInit
<1> QED
  BY <1>1, <1>2, RuntimeShutDownInv, CreateFreezeInv, DestroyInv, ReleaseImagesInv, LoadBeginInv,
     LoadAllocateInv, LoadUploadInv, LoadInvalidateInv, LoadPublishInv, DispatchBeginInv, DispatchRunInv,
     TraverseBeginInv, TraverseEndInv
     DEF ExecutablesNext

\* A step that leaves the traversals alone, and what they hold.
LEMMA HeldStep ==
  ASSUME LoaderInv, UNCHANGED traversals, loaded \subseteq loaded', loaded' \cap traversals.held = {},
         \A i \in traversals.held \cup traversals.seen : image'[i] = image[i],
         \A i \in traversals.held : i \in storage' /\ memory'[Place(i)] = memory[Place(i)],
         \A e \in Execs : exec[e] = "gone" => exec'[e] = "gone",
         \A u \in Threads : thread'[u].at = "release" => thread'[u].drops \cap traversals.held = {}
  PROVE  HeldSound'
<1>1. \A i \in traversals.held : i \in storage /\ image[i].exec \in Execs
  BY DEF LoaderInv, HeldSound, ExecutablesInv, Placed
<1>2. Traversed' = Traversed
  BY DEF Traversed
<1>3. \A i \in traversals.held : (Place(i))' = Place(i)
  BY DEF Place
<1> QED
  BY <1>1, <1>2, <1>3 DEF LoaderInv, HeldSound

\* A thread's step keeps its hands off what is held: it does not release, or
\* it drops images none of which is held.
LEMMA DropsApart ==
  ASSUME LoaderInv, NEW t \in Threads, NEW r, r.at = "release" => r.drops \cap traversals.held = {},
         thread' = [thread EXCEPT ![t] = r]
  PROVE  \A u \in Threads : thread'[u].at = "release" => thread'[u].drops \cap traversals.held = {}
BY DEF LoaderInv, HeldSound, ExecutablesInv, ExecutablesTypes

\* Ending a call, with images that are not held.
LEMMA LeavesApart ==
  ASSUME LoaderInv, NEW t \in Threads, NEW d \in SUBSET Images, NEW of, Leaves(t, d, of),
         d \cap traversals.held = {}
  PROVE  \A u \in Threads : thread'[u].at = "release" => thread'[u].drops \cap traversals.held = {}
<1>1. PICK r \in Threading : thread' = [thread EXCEPT ![t] = r] /\ r.drops = d
  BY CallLeft DEF LoaderInv
<1> QED
  BY <1>1, DropsApart

\* The steps of a load: its image is not held, and it touches no other.
LEMMA LoadHeld ==
  ASSUME LoaderInv, NEW t \in Threads,
         LoadAllocate(t) \/ LoadUpload(t) \/ LoadInvalidate(t) \/ LoadPublish(t)
  PROVE  HeldSound'
<1>1. thread[t].at \in Loading
  BY DEF LoadAllocate, LoadUpload, LoadInvalidate, LoadPublish, Loading
<1>2. PICK i : i = thread[t].img
  OBVIOUS
<1>3. /\ i \in Images \ loaded /\ exec[image[i].exec] = "open" /\ image[i].exec \in Execs
      /\ i \in storage <=> thread[t].at # "allocate"
  BY <1>1, <1>2, LoadFacts DEF LoaderInv
<1>4. i \notin traversals.held /\ i \notin traversals.seen
  BY <1>3 DEF LoaderInv, HeldSound
<1>5. /\ UNCHANGED <<exec, traversals>>
      /\ image' = image \/ \E a \in Addresses : image' = [image EXCEPT ![i].address = a]
      /\ storage' \in {storage, storage \cup {i}}
      /\ loaded' \in {loaded, loaded \cup {i}}
  BY <1>2 DEF LoadAllocate, LoadUpload, LoadInvalidate, LoadPublish, Leaves
<1>6. image \in [Images -> Codes] /\ \A j \in traversals.held \cup traversals.seen : image'[j] = image[j]
  BY <1>3, <1>4, <1>5, TableTypes DEF LoaderInv, HeldSound
<1>7. \A j \in traversals.held : memory'[Place(j)] = memory[Place(j)]
  <2>1. CASE memory' = memory
    BY <2>1
  <2>2. CASE LoadUpload(t) /\ memory' = [memory EXCEPT ![Place(i)] = i]
    <3>1. i \in storage
      BY <1>3, <2>2 DEF LoadUpload
    <3>2. \A j \in traversals.held : Place(j) # Place(i) /\ Place(j) \in Agents \X Addresses
      BY <1>4, <3>1 DEF LoaderInv, HeldSound, ExecutablesInv, Placed
    <3> QED
      BY <2>2, <3>2, TableTypes DEF LoaderInv
  <2> QED
    BY <1>2, <2>1, <2>2 DEF LoadAllocate, LoadUpload, LoadInvalidate, LoadPublish
<1>8. \A u \in Threads : thread'[u].at = "release" => thread'[u].drops \cap traversals.held = {}
  <2>1. CASE \E d \in {{}, {i}} : Leaves(t, d, traversals.of)
    BY <1>3, <1>4, <2>1, LeavesApart
  <2>2. CASE \E at \in {"upload", "invalidate", "publish"} : thread' = [thread EXCEPT ![t].at = at]
    <3>1. PICK at \in {"upload", "invalidate", "publish"} : thread' = [thread EXCEPT ![t].at = at]
      BY <2>2
    <3>2. at \in Holding /\ at # "release"
      BY DEF Holding, Loading
    <3>3. \E r \in Threading : thread' = [thread EXCEPT ![t] = r] /\ r.at = at /\ r.img = thread[t].img
      BY <3>1, <3>2, NextStage, Zenon DEF LoaderInv
    <3> QED
      BY <3>2, <3>3, DropsApart
  <2> QED
    BY <1>2, <2>1, <2>2 DEF LoadAllocate, LoadUpload, LoadInvalidate, LoadPublish
<1> QED
  BY <1>3, <1>4, <1>5, <1>6, <1>7, <1>8, HeldStep DEF LoaderInv, HeldSound

\* The beginnings of calls, and the calls that only change executables.
LEMMA EnterHeld ==
  ASSUME LoaderInv, NEW t \in Threads,
         CreateExecutable(t) \/ Freeze(t) \/ LoadBegin(t) \/ DispatchBegin(t) \/ DispatchRun(t)
  PROVE  HeldSound'
<1>1. UNCHANGED <<loaded, storage, memory, traversals>>
  BY DEF CreateExecutable, Freeze, LoadBegin, DispatchBegin, DispatchRun
<1>2. \A e \in Execs : exec[e] = "gone" => exec'[e] = "gone"
  BY DEF CreateExecutable, Freeze, LoadBegin, DispatchBegin, DispatchRun, LoaderInv, ExecutablesInv, ExecutablesTypes
<1>3. \A j \in traversals.held \cup traversals.seen : image'[j] = image[j]
  <2>1. CASE image' = image
    BY <2>1
  <2>2. CASE LoadBegin(t)
    <3>1. PICK i \in Images : image[i] = NoCode /\ \E code : image' = [image EXCEPT ![i] = code]
      BY <2>2 DEF LoadBegin
    <3>2. image[i].exec \notin Execs
      BY <3>1, ExecutablesAssumption DEF NoCode
    <3>3. \A j \in traversals.held \cup traversals.seen : j \in Images /\ image[j].exec \in Execs
      BY TableTypes DEF LoaderInv, HeldSound, ExecutablesInv, Placed
    <3> QED
      BY <3>1, <3>2, <3>3
  <2> QED
    BY <2>1, <2>2 DEF CreateExecutable, Freeze, DispatchBegin, DispatchRun
<1>4. \A u \in Threads : thread'[u].at = "release" => thread'[u].drops \cap traversals.held = {}
  <2>1. CASE thread' = thread
    BY <2>1 DEF LoaderInv, HeldSound
  <2>2. CASE DispatchRun(t)
    BY <2>2, LeavesApart DEF DispatchRun
  <2>3. CASE \E at \in {"allocate", "dispatch"}, i \in Images :
               thread' = [thread EXCEPT ![t] = [AtRest EXCEPT !.at = at, !.img = i]]
    <3>1. PICK at \in {"allocate", "dispatch"}, i \in Images :
             thread' = [thread EXCEPT ![t] = [AtRest EXCEPT !.at = at, !.img = i]]
      BY <2>3
    <3>2. [AtRest EXCEPT !.at = at, !.img = i].at # "release"
      BY DEF AtRest
    <3> QED
      BY <3>1, <3>2, DropsApart
  <2> QED
    BY <2>1, <2>2, <2>3, TableTypes DEF CreateExecutable, Freeze, LoadBegin, DispatchBegin, LoaderInv
<1> QED
  BY <1>1, <1>2, <1>3, <1>4, HeldStep DEF LoaderInv, HeldSound

\* ~LoadedImage frees what is not held.
LEMMA ReleaseHeld ==
  ASSUME LoaderInv, NEW t \in Threads, ReleaseImages(t)
  PROVE  HeldSound'
<1>1. /\ thread[t].at = "release" /\ storage' = storage \ thread[t].drops
      /\ thread' = [thread EXCEPT ![t] = AtRest] /\ UNCHANGED <<exec, image, loaded, memory, traversals>>
  BY DEF ReleaseImages
<1>2. \A i \in traversals.held : i \in storage'
  BY <1>1 DEF LoaderInv, HeldSound
<1>3. \A u \in Threads : thread'[u].at = "release" => thread'[u].drops \cap traversals.held = {}
  BY <1>1, DropsApart DEF AtRest
<1> QED
  BY <1>1, <1>2, <1>3, HeldStep DEF LoaderInv, HeldSound

\* Images that leave the tables: a traversal holds those of its executables,
\* and only the others are released.
LEMMA UnloadHeld ==
  ASSUME LoaderInv, NEW t \in Threads, NEW d \in SUBSET loaded, loaded' = loaded \ d, Keeps(d),
         UNCHANGED <<image, storage, memory>>,
         \A e \in Execs : exec[e] = "gone" => exec'[e] = "gone",
         \A i \in d : exec'[image[i].exec] = "gone",
         \A u \in Threads : u # t => thread'[u] = thread[u],
         thread'[t].at = "release" => thread'[t].drops = d \ Retained(d)
  PROVE  HeldSound'
<1>1. /\ traversals'.of = traversals.of /\ traversals'.seen = traversals.seen
      /\ traversals'.held = traversals.held \cup Retained(d)
      /\ traversals' \in [of : Seq(Execs \cup {"table"}), seen : SUBSET Images, held : SUBSET Images]
  <2>1. Retained(d) \subseteq Images
    BY TableTypes DEF Retained, LoaderInv
  <2> QED
    BY <2>1 DEF Keeps, LoaderInv, HeldSound
<1>2. Traversed' = Traversed
  BY <1>1 DEF Traversed
<1>3. \A i \in Images : (Place(i))' = Place(i)
  BY DEF Place
<1>4. \A i \in Retained(d) : /\ i \in storage \ loaded' /\ memory[Place(i)] = i /\ i \in Images
                         /\ image[i].exec \in Traversed /\ exec'[image[i].exec] = "gone"
  BY TableTypes DEF Retained, LoaderInv, ExecutablesInv, LoadedSound
<1>5. \A i \in traversals'.held : /\ i \in storage \ loaded' /\ memory[Place(i)] = i /\ i \in Images
                                  /\ image[i].exec \in Traversed /\ exec'[image[i].exec] = "gone"
  BY <1>1, <1>4 DEF LoaderInv, HeldSound, ExecutablesInv, Placed
<1>6. \A i \in traversals'.seen : i \in loaded' \cup traversals'.held /\ image[i].exec \in Traversed
  BY <1>1 DEF Retained, LoaderInv, HeldSound
<1>7. \A u \in Threads : thread'[u].at = "release" => thread'[u].drops \cap traversals'.held = {}
  <2>1. ASSUME NEW u \in Threads, u # t, thread'[u].at = "release"
        PROVE  thread'[u].drops \cap traversals'.held = {}
    <3>1. thread[u].drops \cap traversals.held = {} /\ thread[u].drops \cap loaded = {}
      BY <2>1 DEF LoaderInv, HeldSound, ExecutablesInv, ReleasesSound
    <3> QED
      BY <1>1, <2>1, <3>1 DEF Retained
  <2>2. ASSUME thread'[t].at = "release"
        PROVE  thread'[t].drops \cap traversals'.held = {}
    BY <1>1, <2>2 DEF LoaderInv, HeldSound
  <2> QED
    BY <2>1, <2>2
<1> QED
  BY <1>1, <1>2, <1>3, <1>5, <1>6, <1>7 DEF HeldSound

\* hsa_executable_destroy and hsa_shut_down.
LEMMA DestroyHeld ==
  ASSUME LoaderInv, NEW t \in Threads, Destroy(t) \/ RuntimeShutDown(t)
  PROVE  HeldSound'
<1>1. CASE Destroy(t)
  <2>1. PICK e \in Execs :
          /\ exec' = [exec EXCEPT ![e] = "gone"] /\ loaded' = loaded \ ImagesOf(e) /\ Keeps(ImagesOf(e))
          /\ Leaves(t, ImagesOf(e) \ Retained(ImagesOf(e)), traversals.of)
    BY <1>1 DEF Destroy
  <2>2. UNCHANGED <<image, storage, memory>>
    BY <1>1 DEF Destroy
  <2>3. ImagesOf(e) \in SUBSET loaded /\ \A i \in ImagesOf(e) : image[i].exec = e
    BY DEF ImagesOf
  <2> DEFINE d == ImagesOf(e) \ Retained(ImagesOf(e))
  <2>4. d \in SUBSET Images
    BY <2>3, TableTypes DEF LoaderInv
  <2>5. PICK r \in Threading : thread' = [thread EXCEPT ![t] = r] /\ r.drops = d
    BY <2>1, <2>4, CallLeft DEF LoaderInv
  <2>6. thread'[t] = r /\ \A u \in Threads : u # t => thread'[u] = thread[u]
    BY <2>5, ThreadUpdated DEF LoaderInv
  <2>7. exec'[e] = "gone" /\ \A f \in Execs : exec[f] = "gone" => exec'[f] = "gone"
    BY <2>1 DEF LoaderInv, ExecutablesInv, ExecutablesTypes
  <2> QED
    BY <2>1, <2>2, <2>3, <2>5, <2>6, <2>7, UnloadHeld
<1>2. CASE RuntimeShutDown(t)
  <2> DEFINE r == [AtRest EXCEPT !.at = "release", !.drops = loaded \ Retained(loaded)]
  <2>1. /\ exec' = [e \in Execs |-> IF exec[e] = "unused" THEN "unused" ELSE "gone"]
        /\ loaded' = {} /\ Keeps(loaded) /\ thread' = [thread EXCEPT ![t] = r]
        /\ UNCHANGED <<image, storage, memory>>
    BY <1>2 DEF RuntimeShutDown
  <2>2. r \in Threading /\ r.drops = loaded \ Retained(loaded)
    BY TableTypes DEF AtRest, Threading, NoImage, LoaderInv
  <2> HIDE DEF r
  <2>3. thread'[t] = r /\ \A u \in Threads : u # t => thread'[u] = thread[u]
    BY <2>1, <2>2, ThreadUpdated DEF LoaderInv
  <2>4. \A e \in Execs : exec[e] = "gone" => exec'[e] = "gone"
    BY <2>1
  <2>5. \A i \in loaded : exec'[image[i].exec] = "gone"
    BY <2>1 DEF LoaderInv, ExecutablesInv, LoadedSound, Placed
  <2> QED
    BY <2>1, <2>2, <2>3, <2>4, <2>5, UnloadHeld
<1> QED
  BY <1>1, <1>2

\* A traversal begins with images that are loaded.
LEMMA TraverseBeginHeld ==
  ASSUME LoaderInv, NEW t \in Threads, TraverseBegin(t)
  PROVE  HeldSound'
<1>1. /\ UNCHANGED <<exec, image, loaded, storage, memory, thread>>
      /\ \E x \in Execs \cup {"table"} :
            traversals' = [traversals EXCEPT !.of = <<x>> \o @, !.seen = @ \cup ImagesOf(x)]
  BY DEF TraverseBegin
<1>2. PICK x \in Execs \cup {"table"} :
         traversals' = [traversals EXCEPT !.of = <<x>> \o @, !.seen = @ \cup ImagesOf(x)]
  BY <1>1
<1>3. ImagesOf(x) \subseteq loaded /\ ImagesOf(x) \subseteq Images /\ \A i \in ImagesOf(x) : image[i].exec = x
  BY TableTypes DEF ImagesOf, LoaderInv
<1>4. /\ traversals'.of = <<x>> \o traversals.of /\ traversals'.held = traversals.held
      /\ traversals'.seen = traversals.seen \cup ImagesOf(x)
      /\ traversals.of \in Seq(Execs \cup {"table"})
      /\ traversals.seen \in SUBSET Images /\ traversals.held \in SUBSET Images
      /\ DOMAIN traversals' = DOMAIN traversals
      /\ traversals' = [of |-> <<x>> \o traversals.of, seen |-> traversals.seen \cup ImagesOf(x),
                        held |-> traversals.held]
  BY <1>2 DEF LoaderInv, HeldSound
<1>5. <<x>> \o traversals.of \in Seq(Execs \cup {"table"})
  BY <1>4
<1>6. traversals' \in [of : Seq(Execs \cup {"table"}), seen : SUBSET Images, held : SUBSET Images]
  BY <1>3, <1>4, <1>5
<1>7. Traversed \cup {x} \subseteq Traversed'
  <2>1. <<x>> \o traversals.of \in Seq(Execs \cup {"table"}) /\ Len(<<x>> \o traversals.of) = Len(traversals.of) + 1
        /\ (<<x>> \o traversals.of)[1] = x
        /\ \A k \in 1 .. Len(traversals.of) : (<<x>> \o traversals.of)[k + 1] = traversals.of[k]
    BY <1>4
  <2>2. DOMAIN traversals.of = 1 .. Len(traversals.of)
        /\ DOMAIN (<<x>> \o traversals.of) = 1 .. Len(traversals.of) + 1 /\ Len(traversals.of) \in Nat
    BY <1>4, <2>1
  <2>3. \A k \in 1 .. Len(traversals.of) : k + 1 \in 1 .. Len(traversals.of) + 1
    BY <2>2
  <2>4. x \in Elements(<<x>> \o traversals.of)
    BY <2>1, <2>2 DEF Elements
  <2>5. ASSUME NEW y \in Elements(traversals.of) PROVE y \in Elements(<<x>> \o traversals.of)
    <3>1. PICK k \in 1 .. Len(traversals.of) : y = traversals.of[k]
      BY <2>2 DEF Elements
    <3> QED
      BY <2>1, <2>2, <2>3, <3>1 DEF Elements
  <2> QED
    BY <1>4, <2>4, <2>5 DEF Traversed
<1> QED
  BY <1>1, <1>3, <1>4, <1>6, <1>7 DEF LoaderInv, HeldSound, Place

\* A traversal ends: what only it held is released, the rest stays held.
LEMMA TraverseEndHeld ==
  ASSUME LoaderInv, NEW t \in Threads, TraverseEnd(t)
  PROVE  HeldSound'
<1> DEFINE left == Elements(Tail(traversals.of))
           drops == {i \in traversals.held : image[i].exec \notin left}
           seen == {i \in traversals.seen : image[i].exec \in left}
<1>1. /\ traversals.of # <<>> /\ Leaves(t, drops, Tail(traversals.of))
      /\ traversals' = [of |-> Tail(traversals.of), held |-> traversals.held \ drops, seen |-> seen]
      /\ UNCHANGED <<exec, image, loaded, storage, memory, icache>>
  BY DEF TraverseEnd
<1>2. drops \subseteq traversals.held /\ traversals.held \in SUBSET Images /\ traversals.seen \in SUBSET Images
      /\ traversals.of \in Seq(Execs \cup {"table"})
  BY DEF LoaderInv, HeldSound
<1>3. Tail(traversals.of) \in Seq(Execs \cup {"table"})
  BY <1>1, <1>2
<1>4. /\ traversals'.held = traversals.held \ drops /\ traversals'.seen = seen
      /\ traversals' \in [of : Seq(Execs \cup {"table"}), seen : SUBSET Images, held : SUBSET Images]
      /\ Traversed' = left
  BY <1>1, <1>2, <1>3 DEF Traversed
<1>5. \A i \in traversals'.held : /\ i \in storage \ loaded /\ memory[Place(i)] = i
                                  /\ image[i].exec \in left /\ exec[image[i].exec] = "gone"
  BY <1>4 DEF LoaderInv, HeldSound
<1>6. \A i \in traversals'.seen : i \in loaded \cup traversals'.held /\ image[i].exec \in left
  BY <1>4 DEF LoaderInv, HeldSound
<1>7. \A u \in Threads : thread'[u].at = "release" => thread'[u].drops \cap traversals'.held = {}
  <2> HIDE DEF drops
  <2>1. PICK r \in Threading : thread' = [thread EXCEPT ![t] = r] /\ r.drops = drops
    <3>1. drops \in SUBSET Images /\ ExecutablesInv
      BY <1>2 DEF LoaderInv
    <3>2. PICK of : Leaves(t, drops, of)
      BY <1>1
    <3>3. \E r \in Threading : thread' = [thread EXCEPT ![t] = r] /\ r.drops = drops
      BY <3>1, <3>2, CallLeft
    <3> QED
      BY <3>3
  <2>2. thread'[t] = r /\ \A u \in Threads : u # t => thread'[u] = thread[u]
    BY <2>1, ThreadUpdated DEF LoaderInv
  <2>3. \A u \in Threads : thread[u].at = "release" => thread[u].drops \cap traversals.held = {}
    BY DEF LoaderInv, HeldSound
  <2> QED
    BY <1>2, <1>4, <2>1, <2>2, <2>3
<1>8. \A i \in Images : (Place(i))' = Place(i)
  BY <1>1 DEF Place
<1> HIDE DEF drops, seen, left
<1> QED
  BY <1>1, <1>4, <1>5, <1>6, <1>7, <1>8 DEF HeldSound

\* Every step keeps what the traversals hold.
LEMMA HeldNext == LoaderInv /\ [ExecutablesNext]_execVars => HeldSound'
<1> SUFFICES ASSUME LoaderInv, [ExecutablesNext]_execVars PROVE HeldSound'
  OBVIOUS
<1>1. CASE UNCHANGED execVars
  BY <1>1, HeldStep DEF execVars, LoaderInv, HeldSound
<1>2. ASSUME NEW t \in Threads, RuntimeInit(t) PROVE HeldSound'
  BY <1>2, HeldStep DEF RuntimeInit, LoaderInv, HeldSound
<1> QED
  BY <1>1, <1>2, LoadHeld, EnterHeld, ReleaseHeld, DestroyHeld, TraverseBeginHeld, TraverseEndHeld
     DEF ExecutablesNext

\* In every behaviour of the loader the whole invariant holds.
THEOREM ExecutablesSafe == ExecutablesSpec => []LoaderInv
<1>1. ExecutablesInit => LoaderInv
  <2>1. ExecutablesInit => HeldSound
    BY DEF ExecutablesInit, HeldSound, AtRest
  <2> QED
    BY <2>1, ExecutablesInitInv DEF LoaderInv
<1>2. LoaderInv /\ [ExecutablesNext]_execVars => LoaderInv'
  BY ExecutablesNextInv, HeldNext DEF LoaderInv
<1> QED
  BY <1>1, <1>2, PTL DEF ExecutablesSpec

\* A loader query by address has one answer, whose storage is held and whose
\* executable is live, at any moment of any load, destruction or shutdown; and
\* a traversal's images last as long as it does, whatever its callback calls.
THEOREM AddressQueriesSound == ExecutablesSpec => []QueriesUnambiguous
<1>1. LoaderInv => QueriesUnambiguous
  <2> SUFFICES ASSUME LoaderInv PROVE QueriesUnambiguous
    OBVIOUS
  <2>1. ASSUME NEW a \in Addresses
        PROVE  /\ Cardinality(ImageAt(a)) <= 1 /\ ImageAt(a) \subseteq storage
               /\ \A i \in ImageAt(a) : exec[image[i].exec] \in {"open", "frozen"}
    <3>1. ImageAt(a) = {} \/ \E i \in loaded : ImageAt(a) = {i}
      BY DEF ImageAt, LoaderInv, ExecutablesInv, LoadedSound
    <3>2. Cardinality({}) = 0 /\ \A i \in loaded : Cardinality({i}) = 1
      BY FS_EmptySet, FS_Singleton
    <3>3. ImageAt(a) \subseteq loaded
      BY DEF ImageAt
    <3> QED
      BY <3>1, <3>2, <3>3 DEF LoaderInv, ExecutablesInv, LoadedSound
  <2>2. \A i \in traversals.seen : i \in storage /\ memory[Place(i)] = i
    BY DEF LoaderInv, HeldSound, ExecutablesInv, LoadedSound
  <2> QED
    BY <2>1, <2>2 DEF QueriesUnambiguous
<1> QED
  BY <1>1, ExecutablesSafe, PTL

\* A dispatched kernel runs the code of its own image, whatever was loaded,
\* run and destroyed at its address before.
THEOREM DispatchesOwnCode == ExecutablesSpec => []RunsOwnCode
<1>1. LoaderInv => RunsOwnCode
  BY FetchesOwn DEF RunsOwnCode, LoaderInv, ExecutablesInv, CallsSound
<1> QED
  BY <1>1, ExecutablesSafe, PTL

-----------------------------------------------------------------------------
(***************************************************************************)
(* The VRAM pool: live allocations never share memory, nothing is lost and *)
(* the pool of list nodes never runs out.                                  *)
(***************************************************************************)

\* F and L together tile the pool, and F is coalesced.
Tiling(F, L) ==
    /\ F \in SUBSET Ranges /\ L \in SUBSET Ranges
    /\ \A r, s \in F \cup L : r # s => ~Overlap(r, s)
    /\ F \cap L = {}
    /\ \A r \in F \cup L : End(r) <= Size
    /\ \A u \in 0 .. Size - 1 : \E r \in F \cup L : r.offset <= u /\ u < End(r)
    /\ \A r, s \in F : End(r) # s.offset

PoolInv ==
    /\ Tiling(free, live)
    /\ IsFiniteSet(free) /\ IsFiniteSet(live)
    /\ used = Cardinality(Units(live))
    /\ count = Cardinality(live) /\ count <= MaxAllocations

\* Rounding up never goes down, and never by a whole alignment.
LEMMA AlignUpBounds ==
    ASSUME NEW x \in Nat, NEW a \in Nat \ {0}
    PROVE  AlignUp(x, a) \in Nat /\ AlignUp(x, a) >= x /\ AlignUp(x, a) < x + a
<1> DEFINE q == (x + a - 1) \div a
<1>1. q \in Nat /\ q * a <= x + a - 1 /\ x + a - 1 < q * a + a
  OBVIOUS
<1> QED
  BY <1>1 DEF AlignUp

\* Carving an allocation out of a free range keeps the tiling.
LEMMA CarveTiling ==
    ASSUME NEW F, NEW L, Tiling(F, L), NEW n \in F,
           NEW start \in Nat, NEW s \in Nat \ {0},
           n.offset <= start, start + s <= End(n)
    PROVE  Tiling((F \ {n}) \cup Piece(n.offset, start)
                            \cup Piece(start + s, End(n)),
                  L \cup {[offset |-> start, length |-> s]})
<1> DEFINE a == [offset |-> start, length |-> s]
           P == Piece(n.offset, start)
           Q == Piece(start + s, End(n))
           G == (F \ {n}) \cup P \cup Q
           K == L \cup {a}
<1>1. /\ n \in Ranges /\ n.offset \in Nat /\ n.length \in Nat \ {0}
      /\ End(n) \in Nat /\ End(n) <= Size /\ Size \in Nat
      /\ n.offset + n.length = End(n)
  BY RangeAssumption DEF Tiling, Ranges, End
<1>2. a \in Ranges /\ a.offset = start /\ End(a) = start + s
  BY <1>1 DEF Ranges, End
<1>3. \A p \in P : /\ p \in Ranges /\ p.offset = n.offset /\ End(p) = start
                   /\ n.offset < start
  BY <1>1, <1>2 DEF Piece, Ranges, End
<1>4. \A p \in Q : /\ p \in Ranges /\ p.offset = start + s /\ End(p) = End(n)
                   /\ start + s < End(n)
  BY <1>1, <1>2 DEF Piece, Ranges, End
<1>5. \A y \in (F \ {n}) \cup L :
         /\ y \in Ranges /\ y.offset \in Nat /\ End(y) \in Nat
         /\ y.offset < End(y) /\ End(y) <= Size
         /\ End(y) <= n.offset \/ End(n) <= y.offset
  <2> TAKE y \in (F \ {n}) \cup L
  <2>1. y # n /\ y \in F \cup L
    BY DEF Tiling
  <2>2. ~Overlap(y, n) /\ y \in Ranges /\ End(y) <= Size
    BY <2>1 DEF Tiling
  <2> QED
    BY <1>1, <2>2 DEF Overlap, Ranges, End
<1>6. \A p, q \in P : p = q
  BY DEF Piece
<1>7. \A p, q \in Q : p = q
  BY DEF Piece
<1>8. G \in SUBSET Ranges /\ K \in SUBSET Ranges
  BY <1>2, <1>3, <1>4, <1>5
<1>9. \A x \in G \cup K : \/ x \in (F \ {n}) \cup L
                          \/ x \in P \/ x \in Q \/ x = a
  OBVIOUS
<1>10. \A x, y \in G \cup K : x # y => ~Overlap(x, y)
  <2> SUFFICES ASSUME NEW x \in G \cup K, NEW y \in G \cup K, x # y
               PROVE  ~Overlap(x, y)
    OBVIOUS
  <2>1. CASE x \in (F \ {n}) \cup L /\ y \in (F \ {n}) \cup L
    BY <2>1 DEF Tiling
  <2>2. CASE x \in (F \ {n}) \cup L /\ y \notin (F \ {n}) \cup L
    BY <2>2, <1>1, <1>2, <1>3, <1>4, <1>5, <1>9 DEF Overlap
  <2>3. CASE y \in (F \ {n}) \cup L /\ x \notin (F \ {n}) \cup L
    BY <2>3, <1>1, <1>2, <1>3, <1>4, <1>5, <1>9 DEF Overlap
  <2>4. CASE x \notin (F \ {n}) \cup L /\ y \notin (F \ {n}) \cup L
    BY <2>4, <1>1, <1>2, <1>3, <1>4, <1>6, <1>7, <1>9 DEF Overlap
  <2> QED
    BY <2>1, <2>2, <2>3, <2>4
<1>11. G \cap K = {}
  <2> SUFFICES ASSUME NEW x \in G, x \in K PROVE FALSE
    OBVIOUS
  <2>1. CASE x \in F \ {n}
    <3>1. x = a
      BY <2>1 DEF Tiling
    <3> QED
      BY <3>1, <2>1, <1>1, <1>2, <1>5
  <2>2. CASE x \in P
    BY <2>2, <1>1, <1>2, <1>3, <1>5
  <2>3. CASE x \in Q
    BY <2>3, <1>1, <1>2, <1>4, <1>5
  <2> QED
    BY <2>1, <2>2, <2>3
<1>12. \A x \in G \cup K : End(x) <= Size
  BY <1>1, <1>2, <1>3, <1>4, <1>5, <1>9
<1>13. \A u \in 0 .. Size - 1 : \E x \in G \cup K : x.offset <= u /\ u < End(x)
  <2> TAKE u \in 0 .. Size - 1
  <2>1. PICK x \in F \cup L : x.offset <= u /\ u < End(x)
    BY DEF Tiling
  <2>2. CASE x # n
    BY <2>1, <2>2
  <2>3. CASE x = n /\ u < start
    <3>1. [offset |-> n.offset, length |-> start - n.offset] \in P
      BY <2>1, <2>3, <1>1 DEF Piece
    <3> QED
      BY <3>1, <2>1, <2>3, <1>3
  <2>4. CASE x = n /\ u >= start + s
    <3>1. [offset |-> start + s, length |-> End(n) - (start + s)] \in Q
      BY <2>1, <2>4, <1>1 DEF Piece
    <3> QED
      BY <3>1, <2>1, <2>4, <1>4
  <2>5. CASE x = n /\ start <= u /\ u < start + s
    BY <2>5, <1>2
  <2> QED
    BY <2>2, <2>3, <2>4, <2>5
<1>14. \A x, y \in G : End(x) # y.offset
  <2> SUFFICES ASSUME NEW x \in G, NEW y \in G, End(x) = y.offset PROVE FALSE
    OBVIOUS
  <2>1. CASE x \in F \ {n} /\ y \in F \ {n}
    BY <2>1 DEF Tiling
  <2>2. CASE x \in F \ {n} /\ y \notin F \ {n}
    <3>1. End(x) # n.offset
      BY <2>2 DEF Tiling
    <3> QED
      BY <3>1, <2>2, <1>1, <1>3, <1>4, <1>5
  <2>3. CASE x \notin F \ {n} /\ y \in F \ {n}
    <3>1. End(n) # y.offset
      BY <2>3 DEF Tiling
    <3> QED
      BY <3>1, <2>3, <1>1, <1>3, <1>4, <1>5
  <2>4. CASE x \notin F \ {n} /\ y \notin F \ {n}
    BY <2>4, <1>1, <1>3, <1>4
  <2> QED
    BY <2>1, <2>2, <2>3, <2>4
<1> QED
  BY <1>8, <1>10, <1>11, <1>12, <1>13, <1>14 DEF Tiling

\* Giving a live range back, merged with the free ranges X next to it into
\* the range m, keeps the tiling.
LEMMA MergeTiling ==
    ASSUME NEW F, NEW L, Tiling(F, L), NEW r \in L, NEW X \in SUBSET F,
           NEW m \in Ranges, End(m) <= Size,
           m.offset <= r.offset, End(r) <= End(m),
           \A x \in X : m.offset <= x.offset /\ End(x) <= End(m),
           \A u \in m.offset .. End(m) - 1 :
              \E x \in X \cup {r} : x.offset <= u /\ u < End(x),
           \A y \in F \ X : End(y) # m.offset /\ End(m) # y.offset
    PROVE  Tiling((F \ X) \cup {m}, L \ {r})
<1> DEFINE G == (F \ X) \cup {m}
           K == L \ {r}
<1>1. /\ Size \in Nat
      /\ m.offset \in Nat /\ End(m) \in Nat /\ m.offset < End(m)
      /\ \A y \in F \cup L : /\ y \in Ranges /\ y.offset \in Nat /\ End(y) \in Nat
                             /\ y.offset < End(y) /\ End(y) <= Size
  BY RangeAssumption DEF Tiling, Ranges, End
<1>2. \A y \in (F \ X) \cup K : End(y) <= m.offset \/ End(m) <= y.offset
  <2> SUFFICES ASSUME NEW y \in (F \ X) \cup K, m.offset < End(y), y.offset < End(m)
               PROVE  FALSE
    BY <1>1
  <2> DEFINE u == IF m.offset <= y.offset THEN y.offset ELSE m.offset
  <2>1. u \in m.offset .. End(m) - 1 /\ y.offset <= u /\ u < End(y)
    BY <1>1
  <2>2. PICK x \in X \cup {r} : x.offset <= u /\ u < End(x)
    BY <2>1
  <2>3. x # y /\ x \in F \cup L /\ y \in F \cup L
    BY DEF Tiling
  <2>4. ~Overlap(x, y)
    BY <2>3 DEF Tiling
  <2> QED
    BY <2>1, <2>2, <2>3, <2>4, <1>1 DEF Overlap
<1>3. G \in SUBSET Ranges /\ K \in SUBSET Ranges
  BY <1>1
<1>4. \A x, y \in G \cup K : x # y => ~Overlap(x, y)
  <2> SUFFICES ASSUME NEW x \in G \cup K, NEW y \in G \cup K, x # y
               PROVE  ~Overlap(x, y)
    OBVIOUS
  <2>1. CASE x = m
    BY <2>1, <1>1, <1>2 DEF Overlap
  <2>2. CASE y = m
    BY <2>2, <1>1, <1>2 DEF Overlap
  <2>3. CASE x # m /\ y # m
    BY <2>3 DEF Tiling
  <2> QED
    BY <2>1, <2>2, <2>3
<1>5. G \cap K = {}
  <2>1. m \notin K
    BY <1>1, <1>2
  <2> QED
    BY <2>1 DEF Tiling
<1>6. \A x \in G \cup K : End(x) <= Size
  BY <1>1
<1>7. \A u \in 0 .. Size - 1 : \E x \in G \cup K : x.offset <= u /\ u < End(x)
  <2> TAKE u \in 0 .. Size - 1
  <2>1. PICK x \in F \cup L : x.offset <= u /\ u < End(x)
    BY DEF Tiling
  <2>2. CASE x \in X \cup {r}
    <3>1. m.offset <= x.offset /\ End(x) <= End(m)
      BY <2>2
    <3> QED
      BY <3>1, <2>1, <1>1
  <2>3. CASE x \notin X \cup {r}
    BY <2>1, <2>3
  <2> QED
    BY <2>2, <2>3
<1>8. \A x, y \in G : End(x) # y.offset
  <2> SUFFICES ASSUME NEW x \in G, NEW y \in G PROVE End(x) # y.offset
    OBVIOUS
  <2>1. CASE x = m /\ y = m
    BY <2>1, <1>1
  <2>2. CASE x # m /\ y # m
    BY <2>2 DEF Tiling
  <2> QED
    BY <2>1, <2>2
<1> QED
  BY <1>3, <1>4, <1>5, <1>6, <1>7, <1>8 DEF Tiling

\* In a coalesced tiling every free range but the last is followed by a live
\* one, so there is at most one free range more than live ranges.
LEMMA NodeBound ==
    ASSUME NEW F, NEW L, Tiling(F, L), IsFiniteSet(F), IsFiniteSet(L)
    PROVE  Cardinality(F) <= Cardinality(L) + 1
<1> DEFINE D == {f \in F : End(f) < Size}
           g == [f \in D |-> CHOOSE l \in L : l.offset = End(f)]
<1>1. /\ Size \in Nat
      /\ \A y \in F \cup L : /\ y \in Ranges /\ y.offset \in Nat /\ End(y) \in Nat
                             /\ y.offset < End(y) /\ End(y) <= Size
  BY RangeAssumption DEF Tiling, Ranges, End
<1>2. \A x, y \in F : End(x) = End(y) => x = y
  <2> SUFFICES ASSUME NEW x \in F, NEW y \in F, End(x) = End(y), x # y
               PROVE  FALSE
    OBVIOUS
  <2>1. ~Overlap(x, y)
    BY DEF Tiling
  <2> QED
    BY <2>1, <1>1 DEF Overlap
<1>3. \A f \in D : \E l \in L : l.offset = End(f)
  <2> TAKE f \in D
  <2>1. End(f) \in 0 .. Size - 1
    BY <1>1
  <2>2. PICK x \in F \cup L : x.offset <= End(f) /\ End(f) < End(x)
    BY <2>1 DEF Tiling
  <2>3. x # f
    BY <2>2, <1>1
  <2>4. ~Overlap(x, f)
    BY <2>3 DEF Tiling
  <2>5. x.offset = End(f)
    BY <2>2, <2>4, <1>1 DEF Overlap
  <2>6. x \notin F
    BY <2>5 DEF Tiling
  <2> QED
    BY <2>5, <2>6
<1>4. \A f \in D : g[f] \in L /\ g[f].offset = End(f)
  BY <1>3
<1>5. g \in Injection(D, L)
  BY <1>2, <1>4 DEF Injection, IsInjective
<1>6. Cardinality(D) <= Cardinality(L) /\ IsFiniteSet(D)
  BY <1>5, FS_Injection
<1>7. Cardinality(D) \in Nat /\ Cardinality(L) \in Nat
  BY <1>6, FS_CardinalityType
<1>8. CASE F = D
  BY <1>6, <1>7, <1>8
<1>9. CASE F # D
  <2>1. PICK z \in F : ~(End(z) < Size)
    BY <1>9
  <2>2. \A y \in F \ D : y = z
    BY <2>1, <1>1, <1>2
  <2>3. F = D \cup {z} /\ z \notin D
    BY <2>1, <2>2
  <2>4. Cardinality(F) = Cardinality(D) + 1
    BY <2>3, <1>6, FS_AddElement
  <2> QED
    BY <2>4, <1>6, <1>7
<1> QED
  BY <1>8, <1>9

\* The number of units of a range.
LEMMA IntervalSize ==
    ASSUME NEW x \in Nat, NEW y \in Nat, x <= y
    PROVE  IsFiniteSet(x .. y - 1) /\ Cardinality(x .. y - 1) = y - x
<1>1. \A b \in Int : /\ IsFiniteSet(x .. b)
                     /\ Cardinality(x .. b) = IF x > b THEN 0 ELSE b - x + 1
  BY FS_Interval
<1>2. y - 1 \in Int
  OBVIOUS
<1>3. /\ IsFiniteSet(x .. y - 1)
      /\ Cardinality(x .. y - 1) = IF x > y - 1 THEN 0 ELSE y - 1 - x + 1
  BY <1>1, <1>2
<1> QED
  BY <1>3

\* One more live range takes as many units as it is long.
LEMMA UnitsAdd ==
    ASSUME NEW L \in SUBSET Ranges, NEW a \in Ranges, End(a) <= Size,
           \A l \in L : ~Overlap(l, a)
    PROVE  /\ Cardinality(Units(L \cup {a})) = Cardinality(Units(L)) + a.length
           /\ Cardinality(Units(L)) \in Nat
           /\ Cardinality(Units(L \cup {a})) <= Size
<1> DEFINE I == a.offset .. End(a) - 1
<1>1. /\ Size \in Nat /\ a.offset \in Nat /\ a.length \in Nat \ {0}
      /\ End(a) = a.offset + a.length
      /\ \A l \in L : l.offset \in Nat /\ End(l) \in Nat
  BY RangeAssumption DEF Ranges, End
<1>2. Units(L \cup {a}) = Units(L) \cup I
  BY <1>1 DEF Units
<1>3. Units(L) \cap I = {}
  BY <1>1 DEF Units, Overlap
<1>4. IsFiniteSet(0 .. Size - 1) /\ Cardinality(0 .. Size - 1) = Size
  <2>1. IsFiniteSet(0 .. Size - 1) /\ Cardinality(0 .. Size - 1) = Size - 0
    BY <1>1, IntervalSize
  <2> QED
    BY <2>1, <1>1
<1>5. Units(L) \in SUBSET (0 .. Size - 1) /\ Units(L \cup {a}) \in SUBSET (0 .. Size - 1)
  BY DEF Units
<1>6. IsFiniteSet(Units(L)) /\ Cardinality(Units(L \cup {a})) <= Size
  BY <1>4, <1>5, FS_Subset
<1>7. IsFiniteSet(I) /\ Cardinality(I) = a.length
  <2>1. a.offset \in Nat /\ End(a) \in Nat /\ a.offset <= End(a)
    BY <1>1
  <2>2. IsFiniteSet(I) /\ Cardinality(I) = End(a) - a.offset
    BY <2>1, IntervalSize
  <2> QED
    BY <2>2, <1>1
<1>8. Cardinality(Units(L) \cup I)
        = Cardinality(Units(L)) + Cardinality(I) - Cardinality(Units(L) \cap I)
  <2> HIDE DEF I
  <2> QED
    BY <1>6, <1>7, FS_Union
<1>9. Cardinality({}) = 0
  BY FS_EmptySet
<1>10. Cardinality(Units(L)) \in Nat
  BY <1>6, FS_CardinalityType
<1> HIDE DEF I
<1>11. Cardinality(Units(L \cup {a})) = Cardinality(Units(L)) + a.length - 0
  BY <1>2, <1>3, <1>7, <1>8, <1>9
<1> QED
  BY <1>1, <1>6, <1>10, <1>11

\* A piece is no range or one.
LEMMA PieceFinite ==
    ASSUME NEW from, NEW to
    PROVE  IsFiniteSet(Piece(from, to))
<1>1. Piece(from, to) = {} \/ Piece(from, to) = {} \cup {[offset |-> from, length |-> to - from]}
  BY DEF Piece
<1> QED
  BY <1>1, FS_EmptySet, FS_AddElement

\* init() leaves one free range that covers the pool.
LEMMA InitPool == Init => PoolInv
<1> SUFFICES ASSUME Init PROVE PoolInv
  OBVIOUS
<1> DEFINE n == [offset |-> 0, length |-> Size]
<1>1. Size \in Nat \ {0} /\ n \in Ranges /\ n.offset = 0 /\ End(n) = Size
  BY RangeAssumption DEF Ranges, End
<1>2. Tiling(free, live)
  BY <1>1 DEF Init, Tiling
<1>3. IsFiniteSet({}) /\ Cardinality({}) = 0
  BY FS_EmptySet
<1>4. free = {} \cup {n} /\ live = {} /\ used = 0 /\ count = 0
  BY DEF Init
<1>5. IsFiniteSet(free) /\ IsFiniteSet(live)
  BY <1>3, <1>4, FS_AddElement
<1>6. Units(live) = {}
  BY <1>4 DEF Units
<1> QED
  BY <1>2, <1>3, <1>4, <1>5, <1>6, AllocationsAssumption DEF PoolInv

\* A successful alloc() keeps the invariant.
LEMMA AllocPool ==
    ASSUME PoolInv, NEW bytes \in Requests, NEW a \in Alignments, Alloc(bytes, a)
    PROVE  PoolInv'
<1> DEFINE s == AlignUp(bytes, a)
<1>1. bytes \in Nat \ {0} /\ a \in Nat \ {0} /\ Base \in Nat
  BY RequestAssumption, RangeAssumption
<1>2. s \in Nat \ {0}
  BY <1>1, AlignUpBounds
<1>3. PICK n \in free :
        /\ Fits(n, s, a)
        /\ free' = Carve(n, Start(n, a), s)
        /\ live' = live \cup {[offset |-> Start(n, a), length |-> s]}
        /\ used' = used + s /\ count' = count + 1 /\ count < MaxAllocations
  BY DEF Alloc
<1> DEFINE b == [offset |-> Start(n, a), length |-> s]
<1> HIDE DEF s
<1>4. n \in Ranges /\ n.offset \in Nat /\ End(n) \in Nat /\ End(n) <= Size
  BY RangeAssumption DEF PoolInv, Tiling, Ranges, End
<1>5. Base + n.offset \in Nat
  BY <1>1, <1>4
<1>6. AlignUp(Base + n.offset, a) \in Nat /\ AlignUp(Base + n.offset, a) >= Base + n.offset
  BY <1>1, <1>5, AlignUpBounds
<1>7. Start(n, a) \in Nat /\ n.offset <= Start(n, a) /\ Start(n, a) + s <= End(n)
  BY <1>1, <1>3, <1>4, <1>6 DEF Start, Fits
<1>8. Tiling(free, live)
  BY DEF PoolInv
<1>9. Tiling((free \ {n}) \cup Piece(n.offset, Start(n, a))
                         \cup Piece(Start(n, a) + s, End(n)), live \cup {b})
  BY <1>2, <1>7, <1>8, CarveTiling
<1>10. Tiling(free', live')
  BY <1>3, <1>9 DEF Carve
<1>11. b \in Ranges /\ b.length = s /\ End(b) <= Size
  BY <1>2, <1>4, <1>7, RangeAssumption DEF Ranges, End
<1>12. b \notin live
  <2>1. b.offset = Start(n, a) /\ End(b) = Start(n, a) + s
    BY DEF End
  <2>2. Overlap(b, n)
    BY <2>1, <1>2, <1>4, <1>7 DEF Overlap
  <2>3. \A l \in live : l # n /\ ~Overlap(l, n)
    BY <1>8 DEF Tiling
  <2> QED
    BY <2>2, <2>3
<1>13. \A l \in live : ~Overlap(l, b)
  BY <1>9, <1>12 DEF Tiling
<1>14. IsFiniteSet(live') /\ Cardinality(live') = Cardinality(live) + 1
  BY <1>3, <1>12, FS_AddElement DEF PoolInv
<1>15. IsFiniteSet(free')
  <2>1. IsFiniteSet(free \ {n})
    BY FS_RemoveElement DEF PoolInv
  <2>2. IsFiniteSet((free \ {n}) \cup Piece(n.offset, Start(n, a)))
    BY <2>1, PieceFinite, FS_Union
  <2>3. IsFiniteSet((free \ {n}) \cup Piece(n.offset, Start(n, a))
                                 \cup Piece(Start(n, a) + s, End(n)))
    BY <2>2, PieceFinite, FS_Union
  <2> QED
    BY <2>3, <1>3 DEF Carve
<1>16. used' = Cardinality(Units(live'))
  <2>1. live \in SUBSET Ranges
    BY <1>8 DEF Tiling
  <2>2. Cardinality(Units(live \cup {b})) = Cardinality(Units(live)) + b.length
    BY <2>1, <1>11, <1>13, UnitsAdd
  <2>3. used' = Cardinality(Units(live \cup {b}))
    BY <2>2, <1>3, <1>11 DEF PoolInv
  <2> QED
    BY <2>3, <1>3 DEF Units
<1>17. count' = Cardinality(live') /\ count' <= MaxAllocations
  <2>1. count = Cardinality(live) /\ Cardinality(live) \in Nat
    BY FS_CardinalityType DEF PoolInv
  <2> QED
    BY <2>1, <1>3, <1>14, AllocationsAssumption
<1> QED
  BY <1>10, <1>14, <1>15, <1>16, <1>17 DEF PoolInv

\* What Coalesce returns is a merged range next to nothing free.
LEMMA CoalesceTiling ==
    ASSUME Tiling(free, live), NEW r \in live
    PROVE  Tiling(Coalesce(r), live \ {r})
<1> DEFINE X == Before(r) \cup After(r)
           from == IF Before(r) = {} THEN r.offset
                   ELSE (CHOOSE n \in Before(r) : TRUE).offset
           to == IF After(r) = {} THEN End(r) ELSE End(CHOOSE n \in After(r) : TRUE)
           m == [offset |-> from, length |-> to - from]
<1>1. /\ Size \in Nat
      /\ \A y \in free \cup live : /\ y \in Ranges /\ y.offset \in Nat /\ End(y) \in Nat
                                  /\ y.offset < End(y) /\ End(y) <= Size
  BY RangeAssumption DEF Tiling, Ranges, End
<1>2. \A x, y \in free : End(x) = End(y) \/ x.offset = y.offset => x = y
  <2> SUFFICES ASSUME NEW x \in free, NEW y \in free, x # y,
                      End(x) = End(y) \/ x.offset = y.offset
               PROVE  FALSE
    OBVIOUS
  <2>1. ~Overlap(x, y)
    BY DEF Tiling
  <2> QED
    BY <2>1, <1>1 DEF Overlap
<1>3. \A x \in Before(r) : x \in free /\ End(x) = r.offset /\ x.offset = from
  BY <1>2 DEF Before
<1>4. \A x \in After(r) : x \in free /\ x.offset = End(r) /\ End(x) = to
  BY <1>2 DEF After
<1>5. Before(r) = {} => from = r.offset
  OBVIOUS
<1>6. After(r) = {} => to = End(r)
  OBVIOUS
<1>7. Before(r) # {} => \E x \in Before(r) : TRUE
  OBVIOUS
<1>8. After(r) # {} => \E x \in After(r) : TRUE
  OBVIOUS
<1> HIDE DEF from, to
<1>9. /\ from \in Nat /\ to \in Nat /\ from <= r.offset /\ End(r) <= to /\ to <= Size
      /\ r \in Ranges /\ r.offset \in Nat /\ End(r) \in Nat /\ r.offset < End(r)
  BY <1>1, <1>3, <1>4, <1>5, <1>6, <1>7, <1>8
<1>10. m \in Ranges /\ m.offset = from /\ End(m) = to
  BY <1>1, <1>9 DEF Ranges, End
<1>11. X \in SUBSET free
  BY <1>3, <1>4
<1>12. \A x \in X : m.offset <= x.offset /\ End(x) <= End(m)
  BY <1>1, <1>3, <1>4, <1>9, <1>10
<1>13. \A u \in m.offset .. End(m) - 1 :
          \E x \in X \cup {r} : x.offset <= u /\ u < End(x)
  <2> TAKE u \in m.offset .. End(m) - 1
  <2>1. u \in Int /\ from <= u /\ u < to
    BY <1>9, <1>10
  <2>2. CASE u < r.offset
    <3>1. PICK x \in Before(r) : TRUE
      BY <2>1, <2>2, <1>5, <1>7, <1>9
    <3>2. x.offset <= u /\ u < End(x)
      BY <3>1, <2>1, <2>2, <1>3
    <3> QED
      BY <3>2
  <2>3. CASE u >= End(r)
    <3>1. PICK x \in After(r) : TRUE
      BY <2>1, <2>3, <1>6, <1>8, <1>9
    <3>2. x.offset <= u /\ u < End(x)
      BY <3>1, <2>1, <2>3, <1>4
    <3> QED
      BY <3>2
  <2> QED
    BY <2>1, <2>2, <2>3, <1>9
<1>14. \A y \in free \ X : End(y) # m.offset /\ End(m) # y.offset
  <2> SUFFICES ASSUME NEW y \in free \ X PROVE End(y) # from /\ to # y.offset
    BY <1>10
  <2>1. End(y) # from
    <3>1. CASE Before(r) = {}
      BY <3>1, <1>5 DEF Before
    <3>2. CASE Before(r) # {}
      BY <3>2, <1>3, <1>7 DEF Tiling
    <3> QED
      BY <3>1, <3>2
  <2>2. to # y.offset
    <3>1. CASE After(r) = {}
      BY <3>1, <1>6 DEF After
    <3>2. CASE After(r) # {}
      BY <3>2, <1>4, <1>8 DEF Tiling
    <3> QED
      BY <3>1, <3>2
  <2> QED
    BY <2>1, <2>2
<1>15. Tiling((free \ X) \cup {m}, live \ {r})
  <2> HIDE DEF X, m
  <2> QED
    BY <1>9, <1>10, <1>11, <1>12, <1>13, <1>14, MergeTiling
<1>16. Piece(from, to) = {m}
  BY <1>9 DEF Piece
<1> QED
  BY <1>15, <1>16 DEF Coalesce, from, to

\* free() never rejects a range that alloc() returned.
LEMMA FreeAccepted ==
    ASSUME PoolInv, NEW r \in live
    PROVE  Accepts(r)
<1>1. Tiling(free, live) /\ IsFiniteSet(free) /\ IsFiniteSet(live)
  BY DEF PoolInv
<1>2. r \in Ranges /\ End(r) <= Size /\ r.length \in Nat
  BY <1>1, RangeAssumption DEF Tiling, Ranges
<1>3. \A n \in free : ~Overlap(n, r)
  BY <1>1 DEF Tiling
<1>4. r.length <= used
  <2>1. live \ {r} \in SUBSET Ranges /\ \A l \in live \ {r} : ~Overlap(l, r)
    BY <1>1 DEF Tiling
  <2>2. /\ Cardinality(Units((live \ {r}) \cup {r})) = Cardinality(Units(live \ {r})) + r.length
        /\ Cardinality(Units(live \ {r})) \in Nat
    BY <2>1, <1>2, UnitsAdd
  <2>3. (live \ {r}) \cup {r} = live
    OBVIOUS
  <2>4. used = Cardinality(Units(live \ {r})) + r.length
    BY <2>2, <2>3, Zenon DEF PoolInv
  <2> QED
    BY <2>2, <2>4, <1>2
<1>5. ASSUME Before(r) = {}, After(r) = {}
      PROVE  Cardinality(free) < MaxAllocations + 1
  <2>1. Tiling(Coalesce(r), live \ {r})
    BY <1>1, CoalesceTiling
  <2>2. Piece(r.offset, End(r)) = {r}
    BY <1>2, RangeAssumption DEF Piece, End, Ranges
  <2>3. Coalesce(r) = free \cup {r}
    BY <1>5, <2>2 DEF Coalesce
  <2>4. IsFiniteSet(free \cup {r}) /\ Cardinality(free \cup {r}) = Cardinality(free) + 1
    <3>1. r \notin free
      BY <1>1 DEF Tiling
    <3> QED
      BY <3>1, <1>1, FS_AddElement
  <2>5. IsFiniteSet(live \ {r}) /\ Cardinality(live \ {r}) = Cardinality(live) - 1
    BY <1>1, FS_RemoveElement
  <2>6. Cardinality(free \cup {r}) <= Cardinality(live \ {r}) + 1
    BY <2>1, <2>3, <2>4, <2>5, NodeBound
  <2>7. /\ Cardinality(free) \in Nat /\ Cardinality(live) \in Nat
        /\ Cardinality(live) <= MaxAllocations
    BY <1>1, FS_CardinalityType DEF PoolInv
  <2> QED
    BY <2>4, <2>5, <2>6, <2>7, AllocationsAssumption
<1> QED
  BY <1>2, <1>3, <1>4, <1>5 DEF Accepts

\* free() of a range alloc() returned keeps the invariant.
LEMMA FreePool ==
    ASSUME PoolInv, NEW r \in live, Free(r)
    PROVE  PoolInv'
<1>1. /\ live' = live \ {r} /\ free' = Coalesce(r)
      /\ used' = used - r.length /\ count' = count - 1
  BY FreeAccepted DEF Free
<1>2. Tiling(free, live) /\ IsFiniteSet(free) /\ IsFiniteSet(live)
  BY DEF PoolInv
<1>3. Tiling(free', live')
  BY <1>1, <1>2, CoalesceTiling
<1>4. /\ IsFiniteSet(live') /\ Cardinality(live') = Cardinality(live) - 1
      /\ Cardinality(live) \in Nat
  BY <1>1, <1>2, FS_RemoveElement, FS_CardinalityType
<1>5. IsFiniteSet(free')
  <2>1. \A S \in SUBSET free : IsFiniteSet(S)
    BY <1>2, FS_Subset
  <2> DEFINE S == free \ (Before(r) \cup After(r))
  <2>2. IsFiniteSet(S)
    BY <2>1
  <2>3. PICK from, to : Coalesce(r) = S \cup Piece(from, to)
    BY DEF Coalesce
  <2> HIDE DEF S
  <2>4. IsFiniteSet(S \cup Piece(from, to))
    BY <2>2, PieceFinite, FS_Union
  <2> QED
    BY <1>1, <2>3, <2>4
<1>6. used' = Cardinality(Units(live'))
  <2>1. /\ live \ {r} \in SUBSET Ranges /\ r \in Ranges /\ End(r) <= Size
        /\ \A l \in live \ {r} : ~Overlap(l, r)
    BY <1>2 DEF Tiling
  <2>2. /\ Cardinality(Units((live \ {r}) \cup {r})) = Cardinality(Units(live \ {r})) + r.length
        /\ Cardinality(Units(live \ {r})) \in Nat
    BY <2>1, UnitsAdd
  <2>3. (live \ {r}) \cup {r} = live /\ r.length \in Nat
    BY <2>1, RangeAssumption DEF Ranges
  <2>4. used = Cardinality(Units(live \ {r})) + r.length
    BY <2>2, <2>3, Zenon DEF PoolInv
  <2>5. used' = Cardinality(Units(live \ {r}))
    BY <2>2, <2>3, <2>4, <1>1
  <2> QED
    BY <2>5, <1>1 DEF Units
<1>7. count' = Cardinality(live') /\ count' <= MaxAllocations
  BY <1>1, <1>4, AllocationsAssumption DEF PoolInv
<1> QED
  BY <1>3, <1>4, <1>5, <1>6, <1>7 DEF PoolInv

\* The invariant behind all of the pool's properties is inductive.
THEOREM PoolSafe == Spec => []PoolInv
<1>1. PoolInv /\ [Next]_vars => PoolInv'
  <2> SUFFICES ASSUME PoolInv, [Next]_vars PROVE PoolInv'
    OBVIOUS
  <2>1. CASE \E bytes \in Requests, a \in Alignments : Alloc(bytes, a)
    BY <2>1, AllocPool
  <2>2. CASE \E r \in live : Free(r)
    BY <2>2, FreePool
  <2>3. CASE UNCHANGED vars
    BY <2>3 DEF PoolInv, Tiling, Units, vars
  <2> QED
    BY <2>1, <2>2, <2>3 DEF Next
<1> QED
  BY <1>1, InitPool, PTL DEF Spec

\* Live allocations share no memory, with each other or with the free list.
THEOREM PoolDisjoint == Spec => []Disjoint
<1>1. PoolInv => Disjoint
  BY DEF PoolInv, Tiling, Disjoint
<1> QED
  BY <1>1, PoolSafe, PTL

\* No unit of the pool is ever lost, however often it is split and merged.
THEOREM PoolKeepsAll == Spec => []NothingLost
<1>1. PoolInv => NothingLost
  BY DEF PoolInv, Tiling, NothingLost, Units
<1> QED
  BY <1>1, PoolSafe, PTL

\* The node pool is large enough, as the comment on kMaxAllocations claims.
THEOREM PoolNodes == Spec => []NodesSuffice
<1>1. PoolInv => NodesSuffice
  BY NodeBound DEF PoolInv, NodesSuffice
<1> QED
  BY <1>1, PoolSafe, PTL

\* Ranges that share no memory are at most as many as the units they take.
LEMMA LiveBound ==
    ASSUME NEW F, NEW L, Tiling(F, L)
    PROVE  /\ Cardinality(L) <= Cardinality(Units(L))
           /\ Cardinality(Units(L)) \in Nat /\ Cardinality(Units(L)) <= Size
<1> DEFINE g == [l \in L |-> l.offset]
<1>1. /\ Size \in Nat
      /\ \A y \in L : /\ y.offset \in Nat /\ End(y) \in Nat
                      /\ y.offset < End(y) /\ End(y) <= Size
  BY RangeAssumption DEF Tiling, Ranges, End
<1>2. \A l \in L : g[l] \in Units(L)
  BY <1>1 DEF Units
<1>3. \A x, y \in L : g[x] = g[y] => x = y
  <2> SUFFICES ASSUME NEW x \in L, NEW y \in L, x.offset = y.offset, x # y
               PROVE  FALSE
    OBVIOUS
  <2>1. ~Overlap(x, y)
    BY DEF Tiling
  <2> QED
    BY <2>1, <1>1 DEF Overlap
<1>4. g \in Injection(L, Units(L))
  BY <1>2, <1>3 DEF Injection, IsInjective
<1>5. IsFiniteSet(0 .. Size - 1) /\ Cardinality(0 .. Size - 1) = Size
  <2>1. IsFiniteSet(0 .. Size - 1) /\ Cardinality(0 .. Size - 1) = Size - 0
    BY <1>1, IntervalSize
  <2> QED
    BY <2>1, <1>1
<1>6. Units(L) \in SUBSET (0 .. Size - 1)
  BY DEF Units
<1>7. IsFiniteSet(Units(L)) /\ Cardinality(Units(L)) <= Size
  BY <1>5, <1>6, FS_Subset
<1>8. Cardinality(L) <= Cardinality(Units(L))
  BY <1>4, <1>7, FS_Injection
<1> QED
  BY <1>7, <1>8, FS_CardinalityType

\* A finite set of ranges has a longest one.
LEMMA LongestRange ==
    ASSUME NEW F \in SUBSET Ranges, F # {}
    PROVE  \E m \in F : \A n \in F : n.length <= m.length
<1> DEFINE H == {Size - n.length : n \in F}
<1>1. Size \in Nat /\ \A n \in F : n.length \in 1 .. Size
  BY RangeAssumption DEF Ranges
<1>2. H \in SUBSET Nat /\ H # {}
  BY <1>1
<1>3. PICK h \in H : \A k \in H : h <= k
  <2> HIDE DEF H
  <2> DEFINE R == OpToRel(<, Nat)
  <2>1. \A x, y \in Nat : x < y => <<x, y>> \in R
    BY DEF OpToRel
  <2> HIDE DEF R
  <2>2. IsWellFoundedOn(R, Nat)
    BY NatLessThanWellFounded DEF R
  <2>3. PICK h \in H : \A k \in H : ~(<<k, h>> \in R)
    BY <2>2, <1>2, WFMin
  <2>4. h \in Nat /\ \A k \in H : k \in Nat
    BY <1>2, <2>3
  <2>5. \A k \in H : ~(k < h)
    BY <2>1, <2>3, <2>4, Zenon
  <2>6. \A k \in H : h <= k
    BY <2>4, <2>5
  <2> QED
    BY <2>6
<1>4. PICK m \in F : h = Size - m.length
  BY <1>3
<1>5. \A n \in F : n.length <= m.length
  <2> TAKE n \in F
  <2>1. Size - n.length \in H
    OBVIOUS
  <2>2. Size - m.length <= Size - n.length
    BY <2>1, <1>3, <1>4
  <2> QED
    BY <2>2, <1>1
<1> QED
  BY <1>5

\* A free range fits beside the live ones, so the largest is no longer than what is left.
LEMMA LargestBound ==
    ASSUME PoolInv
    PROVE  LargestFree \in Nat /\ LargestFree <= Size - used
<1>1. /\ Tiling(free, live) /\ used = Cardinality(Units(live))
      /\ used \in Nat /\ used <= Size /\ Size \in Nat
  BY LiveBound, RangeAssumption DEF PoolInv
<1>2. \A n \in free : n.length \in Nat /\ n.length <= Size - used
  <2> TAKE n \in free
  <2>1. /\ live \in SUBSET Ranges /\ n \in Ranges /\ End(n) <= Size
        /\ \A l \in live : ~Overlap(l, n)
    BY <1>1 DEF Tiling
  <2>2. /\ Cardinality(Units(live \cup {n})) = Cardinality(Units(live)) + n.length
        /\ Cardinality(Units(live \cup {n})) <= Size
    BY <2>1, UnitsAdd
  <2>3. n.length \in Nat
    BY <2>1, RangeAssumption DEF Ranges
  <2> QED
    BY <2>2, <2>3, <1>1
<1>3. CASE free = {}
  BY <1>1, <1>3 DEF LargestFree
<1>4. CASE free # {}
  <2>1. PICK m \in free : \A n \in free : n.length <= m.length
    BY <1>1, <1>4, LongestRange DEF Tiling
  <2> DEFINE S == {n.length : n \in free}
             P(l) == \A n \in free : n.length <= l
  <2>2. m.length \in S /\ P(m.length)
    BY <2>1
  <2>3. LargestFree = CHOOSE l \in S : P(l)
    BY <1>4 DEF LargestFree
  <2>4. LargestFree \in S
    <3> HIDE DEF S, P
    <3> QED
      BY <2>2, <2>3
  <2> QED
    BY <2>4, <1>2
<1> QED
  BY <1>3, <1>4

\* The accounting QueryInfo reports is exact and consistent in every state.
THEOREM PoolAccounted == Spec => []Accounted
<1>1. PoolInv => Accounted
  <2> SUFFICES ASSUME PoolInv PROVE Accounted
    OBVIOUS
  <2>1. /\ Tiling(free, live) /\ used = Cardinality(Units(live))
        /\ count = Cardinality(live)
    BY DEF PoolInv
  <2>2. count <= used /\ used <= Size
    BY <2>1, LiveBound
  <2>3. LargestFree <= Size - used
    BY LargestBound
  <2>4. ValidSnapshot(Snapshot)
    BY <2>2, <2>3 DEF ValidSnapshot, Snapshot
  <2> QED
    BY <2>1, <2>4 DEF Accounted
<1> QED
  BY <1>1, PoolSafe, PTL

\* The allocator divides its pool exactly, never runs out of list nodes and accounts for it.
THEOREM PoolIsExact == Spec => []PoolExact
<1>1. PoolInv => Coalesced
  BY DEF PoolInv, Tiling, Coalesced
<1>2. Disjoint /\ NothingLost /\ Coalesced /\ NodesSuffice /\ Accounted => PoolExact
  BY DEF PoolExact
<1> QED
  BY <1>1, <1>2, PoolSafe, PoolDisjoint, PoolKeepsAll, PoolNodes, PoolAccounted, PTL
=============================================================================
