---------------------------- MODULE HSATransport ----------------------------
(***************************************************************************)
(* The HSA runtime's connection to the driver (hsa/src/transport_iokit.cpp *)
(* and device_init.cpp), one per process: how it claims the device, brings *)
(* it up or joins a process that has, and what it keeps once an RPC's      *)
(* outcome is unknown.  The session mutex makes every call one step but    *)
(* for bring-up and import, which other processes can interleave with.     *)
(*                                                                         *)
(* Of the driver (DriverSession models it) only what a connection sees is  *)
(* here: GetIdentity admits a first client, and others only once the       *)
(* device is up; a client that is gone is cleaned up by FinishStop, later  *)
(* than its connection; the last one takes the device down; an error       *)
(* blocks the session until a reset.  An RPC that fails may have happened. *)
(*                                                                         *)
(* A process that connects again while the driver still stops its former   *)
(* client is another element of Processes.                                 *)
(***************************************************************************)
EXTENDS Naturals, FiniteSets

CONSTANTS Processes,  \* processes that use the GPU
          SharedHandles     \* handles of a process's shared buffers

VARIABLES device,     \* the driver: its stage, its clients, and whether the session is blocked
          conn,       \* process -> its connection
          driverBO,   \* process -> buffers the driver holds for it
          mapped,     \* process -> sharedBuffers: buffers mapped at their GPU address
          hwQueue,    \* process -> queues of it the firmware runs, as <<ring, metadata>>
          queueRec    \* process -> hardwareQueues: what the connection knows of them

transportVars == <<device, conn, driverBO, mapped, hwQueue, queueRec>>

Unopened == [state |-> "unclaimed", port |-> FALSE, at |-> "none", join |-> FALSE]

TransportInit ==
    /\ device = [stage |-> 0, clients |-> {}, blocked |-> FALSE]
    /\ conn = [p \in Processes |-> Unopened]
    /\ driverBO = [p \in Processes |-> {}] /\ mapped = [p \in Processes |-> {}]
    /\ hwQueue = [p \in Processes |-> {}] /\ queueRec = [p \in Processes |-> {}]

\* Stages, grouped: nothing, reset, discovered (0..4), firmware running (5..7), complete (15).
Complete == 4

Set(p, state, at) == conn' = [conn EXCEPT ![p].state = state, ![p].at = at]
Faults(p) == Set(p, "faulted", "none")
SameMemory == UNCHANGED <<driverBO, mapped, hwQueue, queueRec>>

-----------------------------------------------------------------------------
(* ensureReady and initializeDevice                                        *)

\* ensureReady, of any call that needs the device: the port, then the identity of the driver build.
EnsureReady(p, join) ==
    /\ conn[p].state = "unclaimed" /\ conn[p].at = (IF join THEN "import" ELSE "none")
    /\ conn' = [conn EXCEPT ![p] = [state |-> "initializing", port |-> TRUE, at |-> "claim", join |-> join]]
    /\ UNCHANGED device /\ SameMemory

\* No FinishStop has begun: it runs on the queue of the RPCs, so the driver does nothing else meanwhile.
DriverFree == \A p \in Processes : conn[p].state # "stopped"

\* GetIdentity claims the device.  A refused client closes its port: an idle client must not keep
\* the host from stopping the driver.
Claim(p) ==
    /\ conn[p].at = "claim"
    /\ \/ /\ DriverFree /\ ~device.blocked
          /\ device.clients = {} \/ device.stage = Complete
          /\ device' = [device EXCEPT !.clients = @ \cup {p}]
          /\ Set(p, "initializing", "stage")
       \/ conn' = [conn EXCEPT ![p] = Unopened] /\ UNCHANGED device
    /\ SameMemory

\* Mutant: any client brings up a device it does not find complete, the import of a token too.
ReadStageAlways(p) ==
    /\ conn[p].at = "stage"
    /\ Set(p, "initializing", IF device.stage = Complete THEN "accounting" ELSE "prepare")
    /\ UNCHANGED device /\ SameMemory

\* A complete device is joined: no reset, no firmware.  Only one that is down is brought up, and
\* never by the import of a token.
ReadStage(p) ==
    /\ conn[p].at = "stage"
    /\ \/ device.stage = Complete /\ Set(p, "initializing", "accounting")
       \/ device.stage = 0 /\ ~conn[p].join /\ Set(p, "initializing", "prepare")
       \/ ~(device.stage = Complete \/ (device.stage = 0 /\ ~conn[p].join)) /\ Faults(p)
    /\ UNCHANGED device /\ SameMemory

\* Every firmware file is resolved, and the DMA buffer allocated, before the device is reset.
PrepareFirmware(p) ==
    /\ conn[p].at = "prepare"
    /\ Set(p, "initializing", "reset") \/ Faults(p)
    /\ UNCHANGED device /\ SameMemory

\* Reset, then the ladder: discovery, firmware uploads, completion.  A step that fails leaves the
\* device where it is and the connection faulted.
AdvanceBringUp(p) ==
    /\ conn[p].at = "reset"
    /\ \/ /\ device' = [device EXCEPT !.stage = @ + 1]
          /\ Set(p, "initializing", IF device.stage + 1 = Complete THEN "accounting" ELSE "reset")
       \/ Faults(p) /\ UNCHANGED device
    /\ SameMemory

\* The memory the driver accounts for: none of it is an error.
ReadAccounting(p) ==
    /\ conn[p].at = "accounting"
    /\ Set(p, "ready", "none") \/ Faults(p)
    /\ UNCHANGED device /\ SameMemory

\* importBuffer, first half: a short connection of its own asks for the stage; a stale token must
\* not claim, let alone initialize, the device.
ImportProbe(p) ==
    /\ conn[p].state = "unclaimed" /\ conn[p].at = "none" /\ device.stage = Complete
    /\ conn' = [conn EXCEPT ![p].at = "import"]
    /\ UNCHANGED device /\ SameMemory

\* The process holds its connection: its producers can write to the rings.
Connected(p) == conn[p].state \in {"unclaimed", "initializing", "ready", "faulted"}

\* ~IOKitConnection, or the death of the process: it begins when nobody holds the connection, ...
BeginClose(p) ==
    /\ Connected(p) /\ conn[p].port
    /\ Set(p, "closing", "none")
    /\ UNCHANGED device /\ SameMemory

\* ... unmaps the shared buffers one after the other ...
UnmapShared(p) ==
    /\ conn[p].state = "closing"
    /\ \E b \in mapped[p] : mapped' = [mapped EXCEPT ![p] = @ \ {b}]
    /\ UNCHANGED <<device, conn, driverBO, hwQueue, queueRec>>

\* ... and then closes the port.  The driver has not been told anything so far.
ClosePort(p) ==
    /\ conn[p].state = "closing" /\ mapped[p] = {}
    /\ conn' = [conn EXCEPT ![p].state = "closed", ![p].port = FALSE]
    /\ queueRec' = [queueRec EXCEPT ![p] = {}]
    /\ UNCHANGED <<device, driverBO, mapped, hwQueue>>

LastClient(p) == device.clients = {p}

\* FinishStop of the client, first half: the last client's resets the GPU, which stops every queue;
\* another's removes its own, unless the session is blocked.  If some queue may be left, everything
\* the client holds is quarantined and the session blocked.
StopQueues(p) ==
    /\ conn[p].state = "closed" /\ DriverFree
    /\ \/ /\ (p \in device.clients /\ ~LastClient(p)) => ~device.blocked
          /\ Set(p, "stopped", "none")
          /\ hwQueue' = IF LastClient(p) THEN [q \in Processes |-> {}] ELSE [hwQueue EXCEPT ![p] = {}]
          /\ UNCHANGED device
       \/ /\ p \in device.clients
          /\ Set(p, "quarantined", "none")
          /\ \E left \in SUBSET hwQueue[p] : hwQueue' = [hwQueue EXCEPT ![p] = left]
          /\ device' = [device EXCEPT !.clients = @ \ {p}, !.blocked = TRUE]
    /\ UNCHANGED <<driverBO, mapped, queueRec>>

\* The buffers of these clients are released, and nothing is left of their connections.
ReleaseStorage(S) ==
    /\ driverBO' = [q \in Processes |-> IF q \in S THEN {} ELSE driverBO[q]]
    /\ conn' = [q \in Processes |-> IF q \in S THEN Unopened ELSE conn[q]]

Quarantined == {q \in Processes : conn[q].state = "quarantined"}
DeviceDown == [stage |-> 0, clients |-> {}, blocked |-> FALSE]

\* FinishStop, second half: the buffers go; after a reset the quarantined ones and the device too.
FinishStop(p) ==
    /\ conn[p].state = "stopped"
    /\ ReleaseStorage({p} \cup IF LastClient(p) THEN Quarantined ELSE {})
    /\ device' = IF LastClient(p) THEN DeviceDown ELSE [device EXCEPT !.clients = @ \ {p}]
    /\ UNCHANGED <<mapped, hwQueue, queueRec>>

\* ShutdownGPU, called by a tool once no client is left: the reset the last one's close could not do.
ShutdownGPU ==
    /\ device.blocked /\ device.clients = {} /\ DriverFree
    /\ hwQueue' = [q \in Processes |-> {}]
    /\ ReleaseStorage(Quarantined)
    /\ device' = DeviceDown
    /\ UNCHANGED <<mapped, queueRec>>

-----------------------------------------------------------------------------
(* Shared buffers and queues                                               *)

Ready(p) == conn[p].state = "ready"
\* An RPC that is answered as it should be: none is on a blocked session but those that only read.
Answered == ~device.blocked /\ UNCHANGED <<device, conn>>
\* One whose answer says nothing of what happened: the connection is faulted, and if the driver
\* could not tell either it has blocked the session.
Unknown(p) == Faults(p) /\ device' \in {device, [device EXCEPT !.blocked = TRUE]}

\* allocateSharedBuffer: a buffer in the host window, mapped at its GPU address or, if that
\* collides, given back; a malformed answer, or a buffer that cannot be given back, faults.
AllocateShared(p, b) ==
    /\ Ready(p) /\ b \notin driverBO[p]
    /\ \/ /\ driverBO' = [driverBO EXCEPT ![p] = @ \cup {b}]
          /\ mapped' = [mapped EXCEPT ![p] = @ \cup {b}] /\ Answered
       \/ /\ driverBO' = [driverBO EXCEPT ![p] = @ \cup {b}]
          /\ Unknown(p) /\ UNCHANGED mapped
    /\ UNCHANGED <<hwQueue, queueRec>>

InQueue(p, b) == \E q \in queueRec[p] : b \in {q[1], q[2]}

\* Mutant: trusts the driver to refuse a buffer that a queue uses.
FreeSharedAlways(p, b) ==
    /\ Ready(p) /\ b \in mapped[p]
    /\ mapped' = [mapped EXCEPT ![p] = @ \ {b}]
    /\ \/ driverBO' = [driverBO EXCEPT ![p] = @ \ {b}] /\ Answered
       \/ \E kept \in BOOLEAN :
              /\ driverBO' = IF kept THEN driverBO ELSE [driverBO EXCEPT ![p] = @ \ {b}]
              /\ Unknown(p)
    /\ UNCHANGED <<hwQueue, queueRec>>

\* freeSharedBuffer: refused for a buffer of a queue; the mapping goes first, then the buffer.
FreeShared(p, b) ==
    /\ Ready(p) /\ b \in mapped[p] /\ ~InQueue(p, b)
    /\ mapped' = [mapped EXCEPT ![p] = @ \ {b}]
    /\ \/ driverBO' = [driverBO EXCEPT ![p] = @ \ {b}] /\ Answered
       \/ \E kept \in BOOLEAN :
              /\ driverBO' = IF kept THEN driverBO ELSE [driverBO EXCEPT ![p] = @ \ {b}]
              /\ Unknown(p)
    /\ UNCHANGED <<hwQueue, queueRec>>

\* createQueue: recorded before the firmware can own the buffers.  Refusals that come before any
\* queue is mapped take the record back; any other failure leaves it, and faults the connection.
CreateQueue(p, r, m) ==
    /\ Ready(p) /\ r # m /\ {r, m} \subseteq mapped[p]
    /\ queueRec' = [queueRec EXCEPT ![p] = @ \cup {<<r, m>>}]
    /\ \/ hwQueue' = [hwQueue EXCEPT ![p] = @ \cup {<<r, m>>}] /\ Answered
       \/ \E ran \in BOOLEAN :
              /\ hwQueue' = IF ran THEN [hwQueue EXCEPT ![p] = @ \cup {<<r, m>>}] ELSE hwQueue
              /\ Unknown(p)
    /\ UNCHANGED <<driverBO, mapped>>

\* destroyQueue: the record goes only with a confirmed removal.
DestroyQueue(p) ==
    /\ Ready(p)
    /\ \E q \in queueRec[p] :
        \/ /\ hwQueue' = [hwQueue EXCEPT ![p] = @ \ {q}] /\ queueRec' = [queueRec EXCEPT ![p] = @ \ {q}]
           /\ Answered
        \/ \E gone \in BOOLEAN :
               /\ hwQueue' = IF gone THEN [hwQueue EXCEPT ![p] = @ \ {q}] ELSE hwQueue
               /\ Unknown(p) /\ UNCHANGED queueRec
    /\ UNCHANGED <<driverBO, mapped>>

\* kickQueue, serviceQueue, dispatch, dispatchAQL, copyBuffers and the staging copies: an answer
\* that does not prove completion faults the connection; the driver keeps what the call named.
CallFails(p) ==
    /\ Ready(p) /\ driverBO[p] # {}
    /\ Unknown(p) /\ SameMemory

TransportNext ==
    \E p \in Processes :
        \/ EnsureReady(p, FALSE) \/ EnsureReady(p, TRUE) \/ Claim(p) \/ ReadStage(p) \/ PrepareFirmware(p)
        \/ AdvanceBringUp(p) \/ ReadAccounting(p) \/ ImportProbe(p)
        \/ BeginClose(p) \/ UnmapShared(p) \/ ClosePort(p) \/ StopQueues(p) \/ FinishStop(p)
        \/ \E b \in SharedHandles : AllocateShared(p, b) \/ FreeShared(p, b)
        \/ \E r, m \in SharedHandles : CreateQueue(p, r, m)
        \/ DestroyQueue(p) \/ CallFails(p)
        \/ ShutdownGPU

TransportSpec == TransportInit /\ [][TransportNext]_transportVars

-----------------------------------------------------------------------------
(* Properties                                                              *)

\* Processes that share the GPU: a ready connection has a complete device under it, whoever
\* brought it up and whoever leaves; only a client that is alone resets and advances it; and a
\* connection that is not claimed holds no port.
OneInitializer ==
    \A p \in Processes :
        /\ Ready(p) => p \in device.clients /\ device.stage = Complete
        /\ conn[p].at \in {"prepare", "reset"} => device.clients = {p} /\ ~conn[p].join
        /\ conn[p].state = "unclaimed" => ~conn[p].port /\ p \notin device.clients

\* As long as the firmware may run a queue, the driver holds its ring and metadata, and they are
\* mapped where producers write them until nobody holds the connection any more: through every RPC
\* whose outcome is unknown, the destructor that unmaps them first, and a FinishStop that fails.
QueueBackingMapped ==
    \A p \in Processes : \A q \in hwQueue[p] :
        /\ {q[1], q[2]} \subseteq driverBO[p]
        /\ Connected(p) => {q[1], q[2]} \subseteq mapped[p]

=============================================================================
