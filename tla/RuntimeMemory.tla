--------------------------- MODULE RuntimeMemory ---------------------------
(***************************************************************************)
(* Memory of the HSA runtime: pool and shared allocations, asynchronous    *)
(* copies (hsa/src/memory.cpp), host virtual memory (virtual_memory.cpp),  *)
(* buffers imported from another process (ipc_memory.cpp), and what        *)
(* hsa_shut_down does to them.                                             *)
(*                                                                         *)
(* The driver is called outside runtimeMutex, so the session can end, and  *)
(* the next one begin, between the request for storage and its             *)
(* publication.  An Allocation is shared: the map, every call and copy job *)
(* using it and the retired map of hsa_shut_down hold a reference, and the *)
(* storage goes with the last of them.  A section under runtimeMutex is    *)
(* one step.  Addresses are pages.                                         *)
(***************************************************************************)
EXTENDS Naturals, FiniteSets

CONSTANTS Callers,      \* application threads
          Objects,      \* names for Allocation objects, 1 .. n; a released one is used again
          Jobs,         \* copy jobs; all of them listed is the limit of 64
          Pages,        \* addresses, 1 .. n
          Reservable,   \* sets of pages a reservation may cover
          Kinds,        \* pools to allocate from, of "host", "device", "shared"
          GPUs,         \* connections; two of them may use the same addresses
          MaxSessions   \* bound on calls of hsa_init

ASSUME MemoryAssumption == Pages \subseteq Nat /\ Objects \subseteq Nat /\ MaxSessions \in Nat /\ "host" \notin GPUs

VARIABLES session,      \* sessions begun
          up,           \* references > 0
          allocations,  \* the map `allocations`
          object,       \* each Allocation
          reservation,  \* page -> held by a vmem address reservation
          job,          \* each CopyJob
          caller        \* what each thread is doing

memoryVars == <<session, up, allocations, object, reservation, job, caller>>

NoObject == [st |-> "unborn", kind |-> "none", on |-> "host", base |-> 0, size |-> 0, session |-> 0,
          imports |-> 0, access |-> TRUE]
NoJob == [at |-> "none", uses |-> {}, listed |-> FALSE, stop |-> FALSE]
Resting == [at |-> "rest", uses |-> {}, kind |-> "none", on |-> "host", session |-> 0, joins |-> {}]

MemoryInit ==
    /\ session = 0 /\ up = FALSE
    /\ allocations = {}
    /\ object = [o \in Objects |-> NoObject]
    /\ reservation = {}
    /\ job = [j \in Jobs |-> NoJob]
    /\ caller = [t \in Callers |-> Resting]

\* The name the next object gets.
Unused(o) == object[o].st = "unborn" /\ \A x \in Objects : x < o => object[x].st # "unborn"

Extent(o) == object[o].base .. object[o].base + object[o].size - 1

\* References held outside the map by calls and jobs (the captures of a job last until its thread ends).
Pinned(cl, jb, o) == (\E t \in Callers : o \in cl[t].uses) \/ (\E j \in Jobs : o \in jb[j].uses)

\* Mutant: taking an allocation out of the map releases its storage at once.
SettleStorageAtOnce(tab, cl, jb, ob) ==
    /\ allocations' = tab /\ caller' = cl /\ job' = jb
    /\ object' = [o \in Objects |->
          IF ob[o].st = "made" /\ o \notin tab /\ (o \in allocations \/ ~Pinned(cl, jb, o))
          THEN NoObject ELSE ob[o]]

\* ~Allocation: objects left without any reference return their storage.
SettleStorage(tab, cl, jb, ob) ==
    /\ allocations' = tab /\ caller' = cl /\ job' = jb
    /\ object' = [o \in Objects |->
          IF ob[o].st = "made" /\ o \notin tab /\ ~Pinned(cl, jb, o)
          THEN NoObject ELSE ob[o]]

Now(t, r) == [caller EXCEPT ![t] = r]

-----------------------------------------------------------------------------
(* Sessions                                                                *)

MemoryInitialize(t) ==
    /\ caller[t].at = "rest" /\ ~up /\ session < MaxSessions
    /\ up' = TRUE /\ session' = session + 1
    /\ UNCHANGED <<allocations, object, reservation, job, caller>>

\* hsa_shut_down, last reference: jobs are told to stop, the maps change hands under runtimeMutex.
MemoryShutDown(t) ==
    /\ caller[t].at = "rest" /\ up
    /\ up' = FALSE
    /\ reservation' = {}
    /\ allocations' = {}
    /\ LET listed == {j \in Jobs : job[j].listed}
       IN  /\ job' = [j \in Jobs |-> IF j \in listed THEN [job[j] EXCEPT !.stop = TRUE, !.listed = FALSE] ELSE job[j]]
           /\ caller' = Now(t, [Resting EXCEPT !.at = "shut", !.uses = allocations, !.joins = listed])
    /\ UNCHANGED <<session, object>>

\* retiredJobs.clear() joins the workers; the retired allocations go when the call returns.
MemoryShutDownReturns(t) ==
    /\ caller[t].at = "shut"
    /\ \A j \in caller[t].joins : job[j].at \in {"none", "ended"}
    /\ SettleStorage(allocations, Now(t, Resting), job, object)
    /\ UNCHANGED <<session, up, reservation>>

-----------------------------------------------------------------------------
(* Allocation and import                                                   *)

\* poolSnapshot (or the agent lookup of mac_hsa_memory_allocate_shared): copy the pool under the lock.
AllocateBegin(t, kind, on) ==
    /\ caller[t].at = "rest" /\ up
    /\ (kind = "host") <=> (on = "host")
    /\ caller' = Now(t, [Resting EXCEPT !.at = "storage", !.kind = kind, !.on = on, !.session = session])
    /\ UNCHANGED <<session, up, allocations, object, reservation, job>>

\* hsa_amd_ipc_memory_attach: a token attached before is counted, otherwise it has to be imported.
ImportBegin(t, on) ==
    /\ caller[t].at = "rest" /\ up /\ on \in GPUs
    /\ LET known == {o \in allocations : object[o].kind = "ipc" /\ object[o].on = on}
       IN  IF known = {}
           THEN /\ caller' = Now(t, [Resting EXCEPT !.at = "storage", !.kind = "ipc", !.on = on, !.session = session])
                /\ UNCHANGED object
           ELSE \E o \in known :
                   /\ object[o].imports < 2   \* bound on the attachments of one token
                   /\ object' = [object EXCEPT ![o].imports = @ + 1]
                   /\ UNCHANGED caller
    /\ UNCHANGED <<session, up, allocations, reservation, job>>

\* The driver or the C library provides storage, never two live buffers of one GPU at one address,
\* nor two host objects; the same token always names the same address.  Or it fails.
ObtainStorage(t) ==
    /\ caller[t].at = "storage"
    /\ \/ caller' = Now(t, Resting) /\ UNCHANGED object
       \/ \E o \in Objects, base \in Pages, size \in {1, 2} :
             /\ Unused(o)
             /\ base + size - 1 \in Pages
             /\ LET c     == caller[t]
                    alike(x) == object[x].on = c.on \/ (c.kind = "shared" /\ object[x].on = "host")
                    clash == {x \in Objects : object[x].st = "made" /\ alike(x)
                                /\ ~(object[x].kind = "ipc" /\ c.kind = "ipc" /\ object[x].base = base /\ object[x].size = size)
                                /\ Extent(x) \cap (base .. base + size - 1) # {}}
                IN  /\ clash = {}
                    /\ c.on = "host" \/ c.kind = "shared" => reservation \cap (base .. base + size - 1) = {}
                    /\ object' = [object EXCEPT ![o] = [st |-> "made", kind |-> c.kind, on |-> c.on, base |-> base,
                                     size |-> size, session |-> c.session, imports |-> 1, access |-> TRUE]]
                    /\ caller' = Now(t, [c EXCEPT !.at = "publish", !.uses = {o}])
    /\ UNCHANGED <<session, up, allocations, reservation, job>>

\* findAllocation(base), or the next allocation beginning inside the new one.
Overlaps(o) ==
    LET below == {x \in allocations : object[x].base <= object[o].base}
        it    == {x \in below : \A y \in below : object[y].base <= object[x].base}
    IN  \/ \E x \in it : object[o].base - object[x].base < object[x].size
        \/ \E x \in allocations : object[x].base >= object[o].base /\ object[x].base - object[o].base < object[o].size

\* Mutant: only references is looked at again, not the pool.
PublishAnySession(t) ==
    /\ caller[t].at = "publish"
    /\ LET new == {o \in caller[t].uses : up /\ ~Overlaps(o)}
       IN  SettleStorage(allocations \union new, Now(t, Resting), job, object)
    /\ UNCHANGED <<session, up, reservation>>

\* Under runtimeMutex: the runtime still up, the pool (its handle is of one session) still there, no
\* overlap.  Otherwise the object goes out of scope with its storage.
PublishAllocation(t) ==
    /\ caller[t].at = "publish"
    /\ LET new == {o \in caller[t].uses : up /\ caller[t].session = session /\ ~Overlaps(o)}
       IN  SettleStorage(allocations \union new, Now(t, Resting), job, object)
    /\ UNCHANGED <<session, up, reservation>>

\* hsa_memory_free: out of the map; the storage waits for the last reference.
MemoryFree(t, o) ==
    /\ caller[t].at = "rest" /\ up /\ o \in allocations
    /\ object[o].kind \in {"host", "device", "shared"}
    /\ SettleStorage(allocations \ {o}, caller, job, object)
    /\ UNCHANGED <<session, up, reservation>>

\* hsa_amd_ipc_memory_detach: the last attachment takes the object out of the map.
IPCMemoryDetach(t, o) ==
    /\ caller[t].at = "rest" /\ up /\ o \in allocations /\ object[o].kind = "ipc"
    /\ LET fewer == [object EXCEPT ![o].imports = @ - 1]
       IN  SettleStorage(IF fewer[o].imports = 0 THEN allocations \ {o} ELSE allocations, caller, job, fewer)
    /\ UNCHANGED <<session, up, reservation>>

-----------------------------------------------------------------------------
(* Host virtual memory                                                     *)

\* hsa_amd_vmem_address_reserve_align: mmap finds pages no other host object has; an address the
\* map knows (a GPU's) is refused.
AddressReserve(t, pages) ==
    /\ caller[t].at = "rest" /\ up
    /\ pages \cap reservation = {}
    /\ \A o \in Objects : (object[o].st = "made" /\ (object[o].on = "host" \/ o \in allocations)) => Extent(o) \cap pages = {}
    /\ reservation' = reservation \union pages
    /\ UNCHANGED <<session, up, allocations, object, job, caller>>

\* hsa_amd_vmem_address_free: only a reservation no mapping refers to.
AddressFree(t, pages) ==
    /\ caller[t].at = "rest" /\ up /\ pages \subseteq reservation
    /\ \A o \in Objects : (object[o].st = "made" /\ object[o].kind = "vmem") => Extent(o) \cap pages = {}
    /\ reservation' = reservation \ pages
    /\ UNCHANGED <<session, up, allocations, object, job, caller>>

\* hsa_amd_vmem_handle_create and _map: an inaccessible mapping inside a reservation, in both maps.
VmemMap(t, o, base) ==
    /\ caller[t].at = "rest" /\ up /\ Unused(o)
    /\ base \in reservation
    /\ \A x \in allocations : base \notin Extent(x)
    /\ object' = [object EXCEPT ![o] = [st |-> "made", kind |-> "vmem", on |-> "host", base |-> base, size |-> 1,
                                        session |-> session, imports |-> 0, access |-> FALSE]]
    /\ allocations' = allocations \union {o}
    /\ UNCHANGED <<session, up, reservation, job, caller>>

\* hsa_amd_vmem_unmap after the reaping: refused (use_count is not 2) while a copy pins the mapping.
VmemUnmap(t, o) ==
    /\ caller[t].at = "unmap" /\ caller[t].joins = {}
    /\ IF up /\ o \in allocations /\ object[o].kind = "vmem" /\ ~Pinned(caller, job, o)
       THEN /\ object' = [object EXCEPT ![o] = NoObject]
            /\ allocations' = allocations \ {o}
       ELSE UNCHANGED <<object, allocations>>
    /\ caller' = Now(t, Resting)
    /\ UNCHANGED <<session, up, reservation, job>>

\* hsa_amd_vmem_set_access, with the same refusal.
VmemSetAccess(t, o, access) ==
    /\ caller[t].at = "unmap" /\ caller[t].joins = {}
    /\ up /\ o \in allocations /\ object[o].kind = "vmem"
    /\ object' = IF Pinned(caller, job, o) THEN object ELSE [object EXCEPT ![o].access = access]
    /\ caller' = Now(t, Resting)
    /\ UNCHANGED <<session, up, allocations, reservation, job>>

-----------------------------------------------------------------------------
(* Copies                                                                  *)

\* hsa_memory_copy (and _fill): look both ends up under the lock, copy without it.
CopyBegin(t, ends) ==
    /\ caller[t].at = "rest" /\ up
    /\ ends \subseteq allocations /\ \A o \in ends : object[o].access
    /\ caller' = Now(t, [Resting EXCEPT !.at = "copy", !.uses = ends])
    /\ UNCHANGED <<session, up, allocations, object, reservation, job>>

CopyReturns(t) ==
    /\ caller[t].at = "copy"
    /\ SettleStorage(allocations, Now(t, Resting), job, object)
    /\ UNCHANGED <<session, up, reservation>>

\* reapCopyJobs, first thing in hsa_amd_memory_async_copy, _vmem_unmap and _vmem_set_access: jobs
\* that are done leave the list and are joined outside the lock.
ReapCopyJobs(t, next) ==
    /\ caller[t].at = "rest"
    /\ LET done == {j \in Jobs : job[j].listed /\ job[j].at \in {"done", "ended"}}
       IN  /\ job' = [j \in Jobs |-> IF j \in done THEN [job[j] EXCEPT !.listed = FALSE] ELSE job[j]]
           /\ caller' = Now(t, [Resting EXCEPT !.at = next, !.joins = done])
    /\ UNCHANGED <<session, up, allocations, object, reservation>>

Joined(t) ==
    /\ caller[t].at \in {"async", "unmap"} /\ caller[t].joins # {}
    /\ \A j \in caller[t].joins : job[j].at \in {"none", "ended"}
    /\ caller' = Now(t, [caller[t] EXCEPT !.joins = {}])
    /\ UNCHANGED <<session, up, allocations, object, reservation, job>>

\* hsa_amd_memory_async_copy: refused with all jobs listed; otherwise a worker takes its references.
AsyncCopy(t, ends) ==
    /\ caller[t].at = "async" /\ caller[t].joins = {}
    /\ caller' = Now(t, Resting)
    /\ LET idle == {j \in Jobs : job[j].at = "none"}
       IN  IF up /\ ends \subseteq allocations /\ (\A o \in ends : object[o].access) /\ idle # {}
           THEN \E j \in idle : job' = [job EXCEPT ![j] = [at |-> "wait", uses |-> ends, listed |-> TRUE, stop |-> FALSE]]
           ELSE UNCHANGED job
    /\ UNCHANGED <<session, up, allocations, object, reservation>>

\* The dependencies reach zero, or the wait is given up: the session stops the job, or one of the
\* signals has died.
JobWaitEnds(j) ==
    /\ job[j].at = "wait"
    /\ \E next \in IF job[j].stop THEN {"failed"} ELSE {"copy", "failed"} : job' = [job EXCEPT ![j].at = next]
    /\ UNCHANGED <<session, up, allocations, object, reservation, caller>>

\* The completion signal is decremented, or set to -1 after a failure; then `done`.
JobCompletes(j) ==
    /\ job[j].at \in {"copy", "failed"}
    /\ job' = [job EXCEPT ![j].at = "done"]
    /\ UNCHANGED <<session, up, allocations, object, reservation, caller>>

\* The worker's captures are destroyed, then the thread can be joined and the job object goes.
JobEnds(j) ==
    /\ job[j].at = "done"
    /\ SettleStorage(allocations, caller, [job EXCEPT ![j].at = "ended", ![j].uses = {}], object)
    /\ UNCHANGED <<session, up, reservation>>

JobForgotten(j) ==
    /\ job[j].at = "ended" /\ ~job[j].listed
    /\ \A t \in Callers : j \notin caller[t].joins
    /\ job' = [job EXCEPT ![j] = NoJob]
    /\ UNCHANGED <<session, up, allocations, object, reservation, caller>>

-----------------------------------------------------------------------------

CallSteps(t) ==
    \/ MemoryShutDownReturns(t) \/ ObtainStorage(t) \/ PublishAllocation(t) \/ CopyReturns(t) \/ Joined(t)
    \/ \E o \in Objects : VmemUnmap(t, o)
    \/ \E ends \in {{o} : o \in Objects} : AsyncCopy(t, ends)

Calls(t) ==
    \/ MemoryInitialize(t) \/ MemoryShutDown(t)
    \/ \E kind \in Kinds, on \in GPUs \union {"host"} : AllocateBegin(t, kind, on)
    \/ \E on \in GPUs : ImportBegin(t, on)
    \/ \E o \in Objects : MemoryFree(t, o) \/ IPCMemoryDetach(t, o) \/ CopyBegin(t, {o})
    \/ \E pages \in Reservable : AddressReserve(t, pages) \/ AddressFree(t, pages)
    \/ \E p \in Pages, o \in Objects : VmemMap(t, o, p)
    \/ \E next \in {"async", "unmap"} : ReapCopyJobs(t, next)

MemoryNext ==
    \/ \E t \in Callers : Calls(t) \/ CallSteps(t)
    \/ \E t \in Callers, o \in Objects, access \in BOOLEAN : VmemSetAccess(t, o, access)
    \/ \E j \in Jobs : JobWaitEnds(j) \/ JobCompletes(j) \/ JobEnds(j) \/ JobForgotten(j)

MemorySpec == MemoryInit /\ [][MemoryNext]_memoryVars

-----------------------------------------------------------------------------
(* Properties                                                              *)

\* No copy, synchronous or queued, ever touches storage that has been returned to the driver, the C
\* library or the operating system, whatever is freed, detached, unmapped or shut down meanwhile;
\* and storage nobody refers to any more has been returned (memory.cpp:371-384, 536-539,
\* virtual_memory.cpp:178, runtime.cpp:119-161).
CopyPinsStorage ==
    \A o \in Objects :
        /\ Pinned(caller, job, o) => object[o].st = "made"
        /\ object[o].st = "made" => o \in allocations \/ Pinned(caller, job, o)

\* Every published allocation belongs to the session that is running: storage requested in one
\* session is never published in the next (memory.cpp:118-129), and none survives hsa_shut_down.
SessionsSeparate ==
    /\ ~up => allocations = {}
    /\ \A o \in allocations : object[o].session = session

\* An address names one allocation: two GPUs that use the same addresses, imports and host mappings
\* never alias in the map findAllocation searches.
AddressNamesOne == \A o, x \in allocations : o # x => Extent(o) \cap Extent(x) = {}

\* A pointer an application holds names one allocation, and one of the running session: the two
\* facts every lookup by address relies on.
AllocationsKnown == SessionsSeparate /\ AddressNamesOne

====
