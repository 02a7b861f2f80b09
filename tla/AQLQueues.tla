----------------------------- MODULE AQLQueues -----------------------------
(***************************************************************************)
(* A persistent AQL queue of the driver (dext/amdgpu/amdgpu_aql.cpp) with  *)
(* the producers that fill its ring and the command processor (CP) that    *)
(* empties it.  The driver's calls are serialized by its dispatch queue    *)
(* and are single steps; producers and CP work on the shared ring and      *)
(* metadata all the time.                                                  *)
(*                                                                         *)
(* A packet is described by the scratch it needs (0, 1 or 2; a barrier is  *)
(* one that needs none).  The CP is external and modelled from what the    *)
(* driver relies on: it takes packets in order up to the doorbell's index, *)
(* waits at a slot whose header is invalid, and before it asks for more    *)
(* scratch lets every packet that uses scratch retire.                     *)
(***************************************************************************)
EXTENDS Naturals, FiniteSets

CONSTANTS Producers,  \* threads that submit packets
          Packets,    \* slots of the ring
          MaxIndex    \* bound on packets submitted

ASSUME AQLAssumption == Packets \in Nat \ {0} /\ MaxIndex \in Nat

VARIABLES aql,         \* the driver's PersistentAQLQueue
          hw,        \* the firmware's view: mapped or not
          ring,      \* slot -> packet
          write,     \* metadata.write_dispatch_id
          read,      \* metadata.read_dispatch_id
          fetch,     \* next packet the CP takes
          running,   \* scratch packets in flight: <<index, scratch they were given>>
          inactive,  \* the queue's inactive signal: 0, 1 (scratch wanted) or 2 (any other error)
          producer,  \* what each producer is doing
          wptr,      \* the CP's write pointer: one past the index last written to the doorbell
          launch,    \* one-shot launches: "idle" or "retained" with their storage
          owned      \* one-shot launches whose storage the GPU may still use

aqlVars == <<aql, hw, ring, write, read, fetch, running, inactive, producer, wptr, launch, owned>>

\* One-shot launches: an AQL packet on a queue of its own, and a PM4 dispatch on the graphics ring.
Kinds == {"aql", "compute"}

Invalid == [index |-> 0, need |-> 0, valid |-> FALSE]
Closed == [st |-> "closed", storage |-> FALSE, scratch |-> 0, published |-> FALSE, lastDoorbell |-> 0, error |-> FALSE]

AQLInit ==
    /\ aql = Closed /\ hw = "unmapped"
    /\ ring = [s \in 0 .. Packets - 1 |-> Invalid]
    /\ write = 0 /\ read = 0 /\ fetch = 0
    /\ running = {} /\ inactive = 0 /\ wptr = 0
    /\ producer = [p \in Producers |-> [at |-> "idle", index |-> 0]]
    /\ launch = [k \in Kinds |-> "idle"] /\ owned = {}

Slot(i) == i % Packets

-----------------------------------------------------------------------------
(* The driver                                                              *)

\* The firmware owns the storage from the moment the mapping is attempted; without its acknowledgement
\* the queue stays retained until a device reset.
OpenQueue ==
    /\ aql.st = "closed" /\ write = 0
    /\ \E scratch \in {0, 1}, acknowledged \in BOOLEAN :
          /\ aql' = [Closed EXCEPT !.st = IF acknowledged THEN "mapped" ELSE "retained",
                                 !.storage = TRUE, !.scratch = scratch]
          /\ hw' \in {"mapped"} \union (IF acknowledged THEN {} ELSE {"unmapped"})
    /\ UNCHANGED <<ring, write, read, fetch, running, inactive, producer, wptr, launch, owned>>

\* Mutant: every doorbell is written through.
KickAlways(lastPacket) ==
    /\ aql.st = "mapped" /\ lastPacket < write
    /\ wptr' = lastPacket + 1
    /\ aql' = [aql EXCEPT !.lastDoorbell = lastPacket, !.published = TRUE]

\* Mutant: the comparison with the last doorbell is off by one.
KickStrict(lastPacket) ==
    /\ aql.st = "mapped" /\ lastPacket < write
    /\ IF lastPacket <= aql.lastDoorbell + 1
       THEN UNCHANGED <<aql, wptr>>
       ELSE /\ wptr' = lastPacket + 1
            /\ aql' = [aql EXCEPT !.lastDoorbell = lastPacket, !.published = TRUE]

\* aql_queue_kick: an index not reserved is refused, a stale one is ignored.
Kick(lastPacket) ==
    /\ aql.st = "mapped" /\ lastPacket < write
    /\ IF aql.published /\ lastPacket <= aql.lastDoorbell
       THEN UNCHANGED <<aql, wptr>>
       ELSE /\ wptr' = lastPacket + 1
            /\ aql' = [aql EXCEPT !.lastDoorbell = lastPacket, !.published = TRUE]

\* Packets published between read and write, at most a ring full, up to the first unpublished slot.
Visible ==
    LET available == IF write - read < Packets THEN write - read ELSE Packets
    IN  {i \in read .. read + available - 1 : \A j \in read .. i : ring[Slot(j)].valid}

Needy == {i \in Visible : ring[Slot(i)].need > 0}

\* The first packet in the ring that wants scratch decides.
Required == ring[Slot(CHOOSE i \in Needy : \A j \in Needy : i <= j)].need

\* aql_queue_service: new scratch replaces the old one, which is freed, and the signal is cleared
\* last.  Any other error, an empty ring or a shortage of memory fails the queue.
ServiceQueue ==
    /\ aql.st = "mapped" /\ ~aql.error /\ inactive # 0
    /\ \/ /\ inactive = 1 /\ write > read /\ Needy # {}
          /\ aql' = [aql EXCEPT !.scratch = Required]
          /\ inactive' = 0
       \/ /\ inactive = 2 \/ write <= read \/ Needy = {}
          /\ aql' = [aql EXCEPT !.error = TRUE]
          /\ UNCHANGED inactive
    /\ UNCHANGED <<hw, ring, write, read, fetch, running, producer, wptr, launch, owned>>

\* No scratch of any size in steps of 32 waves is to be had.
ServiceNoMemory ==
    /\ aql.st = "mapped" /\ ~aql.error /\ inactive = 1 /\ Needy # {}
    /\ aql' = [aql EXCEPT !.error = TRUE]
    /\ UNCHANGED <<hw, ring, write, read, fetch, running, inactive, producer, wptr, launch, owned>>

\* Mutant: the storage is freed before the firmware has confirmed.
CloseQueueEarly ==
    /\ aql.st = "mapped"
    /\ aql' = Closed
    /\ hw' \in {"mapped", "unmapped"}
    /\ UNCHANGED <<ring, write, read, fetch, running, inactive, producer, wptr, launch, owned>>

\* aql_queue_close: the queue is retained until the firmware confirms that it is unmapped.
CloseQueue ==
    /\ aql.st = "mapped"
    /\ \/ /\ hw' = "unmapped" /\ aql' = Closed
          /\ running' = {}
       \/ /\ aql' = [aql EXCEPT !.st = "retained"]
          /\ hw' \in {"mapped", "unmapped"}
          /\ UNCHANGED running
    /\ UNCHANGED <<ring, write, read, fetch, inactive, producer, wptr, launch, owned>>

Launched(k, outcome, busy) ==
    /\ launch[k] = "idle"
    /\ launch' = [launch EXCEPT ![k] = outcome]
    /\ owned' = IF busy THEN owned \union {k} ELSE owned
    /\ UNCHANGED <<aql, hw, ring, write, read, fetch, running, inactive, producer, wptr>>

\* aql_launch: refused, not uploaded, or mapped, completed, unmapped and its read index found: the
\* storage is free again.  From the attempt to map it on, any other end (map or unmap not
\* acknowledged, timeout, fault) retains it.
AQLLaunch ==
    \/ Launched("aql", "idle", FALSE)
    \/ \E busy \in BOOLEAN : Launched("aql", "retained", busy)

\* compute_launch: free again unless it failed with the ring's write pointer moved.
ComputeLaunch ==
    \/ Launched("compute", "idle", FALSE)
    \/ \E busy \in BOOLEAN : Launched("compute", "retained", busy)

-----------------------------------------------------------------------------
(* Producers                                                               *)

Producing(p, at, i) == producer' = [producer EXCEPT ![p] = [at |-> at, index |-> i]]

\* hsa_queue_add_write_index: a slot is reserved before there is room for it.
Reserve(p) ==
    /\ producer[p].at = "idle" /\ aql.st = "mapped" /\ write < MaxIndex
    /\ write' = write + 1
    /\ Producing(p, "reserved", write)
    /\ UNCHANGED <<aql, hw, ring, read, fetch, running, inactive, wptr, launch, owned>>

\* Room in the ring: the packet is written and its header published.
PublishPacket(p) ==
    /\ producer[p].at = "reserved" /\ producer[p].index < read + Packets
    /\ \E need \in 0 .. 2 :
          ring' = [ring EXCEPT ![Slot(producer[p].index)] = [index |-> producer[p].index, need |-> need, valid |-> TRUE]]
    /\ Producing(p, "published", producer[p].index)
    /\ UNCHANGED <<aql, hw, write, read, fetch, running, inactive, wptr, launch, owned>>

\* The doorbell, with the index of the producer's own packet; a queue gone meanwhile refuses it.
RingDoorbell(p) ==
    /\ producer[p].at = "published"
    /\ IF aql.st = "mapped" THEN Kick(producer[p].index) ELSE UNCHANGED <<aql, wptr>>
    /\ Producing(p, "idle", 0)
    /\ UNCHANGED <<hw, ring, write, read, fetch, running, inactive, launch, owned>>

-----------------------------------------------------------------------------
(* The command processor                                                   *)

NextPacket == ring[Slot(fetch)]
Ready == hw = "mapped" /\ inactive = 0 /\ fetch < wptr /\ NextPacket.valid /\ NextPacket.index = fetch

\* A packet whose needs are met is taken.
CPFetch ==
    /\ Ready /\ NextPacket.need <= aql.scratch
    /\ running' = IF NextPacket.need > 0 THEN running \union {<<fetch, aql.scratch>>} ELSE running
    /\ fetch' = fetch + 1
    /\ UNCHANGED <<aql, hw, ring, write, read, inactive, producer, wptr, launch, owned>>

CPRetire ==
    /\ hw = "mapped"
    /\ \E r \in running : running' = running \ {r}
    /\ UNCHANGED <<aql, hw, ring, write, read, fetch, inactive, producer, wptr, launch, owned>>

\* The read index follows; the slot is free for the next round.
CPAdvance ==
    /\ hw = "mapped" /\ read < fetch /\ \A r \in running : r[1] # read
    /\ read' = read + 1
    /\ ring' = [ring EXCEPT ![Slot(read)] = Invalid]
    /\ UNCHANGED <<aql, hw, write, fetch, running, inactive, producer, wptr, launch, owned>>

\* More scratch is wanted, once nobody on the queue uses the scratch there is.
CPWantsScratch ==
    /\ Ready /\ NextPacket.need > aql.scratch
    /\ running = {} /\ \A i \in read .. fetch - 1 : ring[Slot(i)].need = 0
    /\ inactive' = 1
    /\ UNCHANGED <<aql, hw, ring, write, read, fetch, running, producer, wptr, launch, owned>>

\* A fault of another kind.
CPFaults ==
    /\ hw = "mapped" /\ inactive = 0 /\ fetch > 0
    /\ inactive' = 2
    /\ UNCHANGED <<aql, hw, ring, write, read, fetch, running, producer, wptr, launch, owned>>

CPStep == CPFetch \/ CPRetire \/ CPAdvance \/ CPWantsScratch

AQLNext ==
    \/ OpenQueue \/ ServiceQueue \/ ServiceNoMemory \/ CloseQueue \/ AQLLaunch \/ ComputeLaunch
    \/ \E p \in Producers : Reserve(p) \/ PublishPacket(p) \/ RingDoorbell(p)
    \/ CPStep \/ CPFaults

AQLSpec == AQLInit /\ [][AQLNext]_aqlVars

\* The CP runs, the runtime's service thread polls every millisecond, and a producer that has
\* reserved a slot goes on to publish and ring.
AQLFairness ==
    /\ WF_aqlVars(CPStep) /\ WF_aqlVars(ServiceQueue)
    /\ \A p \in Producers : WF_aqlVars(PublishPacket(p) \/ RingDoorbell(p))

-----------------------------------------------------------------------------
(* Properties                                                              *)

\* While the firmware may have the queue, the driver keeps its storage and the scratch its running
\* packets were given: neither a lost acknowledgement, nor a close or launch that is not confirmed,
\* nor a service call frees memory the GPU still uses (amdgpu_aql.cpp:37-40, 80-104, 157-162, 224-233).
QueueMemoryHeld ==
    /\ hw = "mapped" => aql.storage
    /\ \A k \in owned : launch[k] = "retained"
    /\ (hw = "mapped" /\ aql.st = "mapped") => \A r \in running : r[2] = aql.scratch

\* A doorbell never moves the CP's write pointer back, and never beyond a reserved packet
\* (amdgpu_aql.cpp:178-180).
WritePointerAdvances == [][wptr' >= wptr /\ wptr' <= write']_aqlVars

\* Every packet reserved is executed, unless the queue is closed or fails: no order of publications
\* and doorbells, scratch requests included, leaves the queue standing with work in it.
PacketsExecuted == []<>(fetch = write \/ aql.st # "mapped" \/ aql.error)

====
