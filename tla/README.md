# Verification of mac-amdgpu

mac-amdgpu is a user-space macOS driver for discrete AMD GPUs: a DriverKit
extension (`dext/`) that owns the PCI device, brings the firmware up and serves
several client processes, and an HSA runtime (`hsa/`) that applications link and
that talks to the extension through IOKit calls. This directory holds TLA+ models
of the parts of it that are hard to test, the TLC runs that check them on small
instances, and TLAPS proofs of the most important results for every instance.

## 1. The system

| Component | State it keeps | Operations | Talks to |
|---|---|---|---|
| Driver sessions (`dext/MacAMDGPU.cpp`, `amdgpu_client_lifecycle.h`) | PCI open, session owners and participants, per-client buffer tables, queue slots, one raw submission, blocked flag, quarantine list | client open, RPC admission, InitDevice, buffers, queues, raw submissions, requester experiment, ShutdownGPU, client Stop, driver Stop, free | PCI, firmware, GART, bring-up |
| GART (`amdgpu_gart*.{h,cpp}`) | reserved address intervals, page-table entries | reserve, bind, unbind, flush | GMC |
| Buffers and sharing (`amdgpu_shared_buffers.h`, `amdgpu_vram*.h`) | shared-buffer table with reference counts, VRAM reservations | alloc, export, import, free, map | GART, sessions |
| AQL queues (`amdgpu_aql.cpp`) | ring pointers, retained flag, scratch | open, kick, service, close | MES, sessions |
| SQ slot (`MacAMDGPU.cpp`) | the registered buffer of a workload process | register, read, clear | client processes |
| Interrupts (`MacAMDGPU.cpp`, `ih_v7_0.cpp`) | IH ring pointers, pending bits, one waiting completion | dispatch, wait, mask | client processes |
| Bring-up (`amdgpu_init.cpp` and the engine files) | stage reached, rings, fences, firmware | run_stage for 15 stages | PSP, SMU, MES, CP, SDMA |
| Firmware files and discovery (`amdgpu_ucode_extract.cpp`, `amdgpu_discovery.cpp`) | none; they fill the payload list and the IP table | extract, parse | bring-up |
| Signal service (`hsa/src/gpu_signal_service.cpp`, `signal_mailbox*.`) | shared mailbox words, sequence numbers, resident kernel | execute, await, retire, reclaim, shutdown | transport, GPU |
| Signals (`gpu_signals.cpp`, `signal_state.h`, `runtime.cpp`) | signal table, slots of a context, fault flags | create, destroy, operate, wait, fail | signal service, queues |
| Runtime queues (`hsa/src/queues.cpp`) | ring indices, service thread, error callback | create, doorbell, service, inactivate, destroy | transport, signal service |
| Runtime memory (`memory.cpp`, `virtual_memory.cpp`, `ipc_memory.cpp`, `host_services.cpp`) | init count, allocations, reservations, copy jobs, locked pages | init, shutdown, allocate, free, copy, map, attach, lock | transport |
| Executables (`executable.cpp`, `code_object.cpp`) | executables, images, symbols | create, load, freeze, query, traverse, destroy | transport, GPU |
| Shared signals (`ipc_signal.cpp`) | a file of one page per signal and its locks | create, attach, detach | other processes |
| Transport (`hsa/src/transport_iokit.cpp`, `device_init.cpp`) | connection state, shared buffers, queues, staging buffer | open, join, initialise, transfer, fault, close | driver |

What is hard in it:

- *Several actors on one device.* Client processes attach, fail and disappear in
  any order. The extension runs their calls on one serial queue, but each call is
  a step of one client between steps of others, and some operations (reset)
  affect everybody.
- *A device that keeps going.* Page tables and firmware queues outlive the calls
  that created them. A call that fails half way leaves the device in a state the
  driver does not know.
- *Teardown.* Client Stop is asynchronous (interrupt sources drain first); driver
  Stop may overtake it.
- *Two processors, one protocol.* The mailbox is written by the CPU and by a GPU
  wave without locks, and the CPU may give up at any point of it.
- *Locks that are given up.* The runtime calls the driver, application callbacks
  and joins without its mutex, so sessions end and objects go away in between.
- *Inputs with lengths in them.* Firmware files, discovery tables and code objects
  say themselves where their parts are.

## 2. Modules

| Module | Models |
|---|---|
| `DriverSession` | lifecycle core of the extension |
| `DriverSessionProofs` | TLAPS proofs about `DriverSession` |
| `AtomicUpdates` | what the signal path promises its callers |
| `SignalOperations` | the nine word operations of the service kernel |
| `SignalMailbox` | mailbox client, service, resident kernel and fallback; refines `AtomicUpdates` |
| `SignalMailboxProofs` | TLAPS proofs about `SignalMailbox`, the refinement included |
| `VRAMAllocator` | first-fit allocator of a VRAM pool, its node reserve and accounting |
| `ClientBuffers` | buffer tables of the clients, sharing, reference counts, the shared SQ slot |
| `CommandStreams` | command streams, the raw submission in flight, fences |
| `CommandStreamsProofs` | TLAPS proofs about `CommandStreams` |
| `GARTAperture` | allocator of GART address ranges |
| `GARTMapping` | bind, unbind, host window and host-memory test against hubs that walk the page table; extends `GARTAperture` |
| `GARTMappingProofs` | TLAPS proofs about `GARTMapping` and `GARTAperture` |
| `BringUp` | InitDevice, LoadFirmware and the ladder of stages against PSP, SMU, MES, CP and SDMA firmware |
| `BringUpProofs` | TLAPS proofs about `BringUp` |
| `FirmwareFiles` | the parts of a firmware file that go to the PSP, and in which order |
| `Discovery` | the walk over the IP discovery binary |
| `AQLQueues` | a persistent AQL queue: producers, doorbell, service, command processor |
| `Interrupts` | IH ring, handler, pending bits and the client that waits |
| `SQSlot` | the slot by which one process reads what another publishes |
| `RuntimeQueues` | queues of the runtime, their service threads and callbacks, init and shutdown |
| `RuntimeSignals` | signals, their slots, waiters and the failure of a context |
| `EventPathProofs` | TLAPS proofs about `AQLQueues`, `Interrupts`, `RuntimeSignals` and `RuntimeQueues` |
| `RuntimeMemory` | allocations, reservations and mappings, IPC buffers, synchronous and queued copies |
| `RuntimeCopy` | how a copy or fill is cut into driver calls |
| `HostLocks` | locking of host pages by overlapping ranges |
| `Executables` | loading, freezing, dispatch, queries and destruction of executables |
| `CodeObjects` | decoding of code-object metadata and the layout of an image |
| `IPCSignals` | signals shared between processes through files and locks |
| `HSATransport` | connections of several processes to one driver |
| `StagedTransfer` | byte transfers through a staging buffer with dword copies |
| `HostSideProofs` | TLAPS proofs about `HSATransport`, `IPCSignals`, `SQSlot`, `HostLocks`, `RuntimeMemory`, `Executables` and `VRAMAllocator` |
| `DataPathProofs` | TLAPS proofs about `StagedTransfer`, `RuntimeCopy`, `Discovery`, `ClientBuffers`, `FirmwareFiles` and `CodeObjects` |
| `MCQueues`, `MCDeviceEvents`, `MCSubmissions`, `MCProgress`, `MCMemory` | several components in one instance; `focus` says which one runs |
| `MC...` | the other instances TLC checks |

Operators whose comment starts with "Mutant:" are deliberately wrong variants of
the definition below them. No specification uses them; they record, for each
property, a mistake in the code that the property would catch.

### DriverSession

State is split into what the driver believes (`pciOpen`, `blocked` for
`shutdownBlocked`, `reached` for the bring-up stage, the four fields of
`ClientSessions`, the experiment's owner, the raw submission, the queue slots,
each client's buffer table) and what the device may still do (`busMaster`,
`reach`: buffers a page-table entry may name, `bringupReach`, `fwQueues`). The
second kind is never read by the code; the properties relate the two.

One action is one RPC, callback or completion, because all of them run on the
driver's serial dispatch queue. Outcomes the code does not control are
parameters: whether PCI Open, a firmware map or unmap, a page-table unbind, a
reset succeeded; how far bring-up came; which interrupt sources accepted
cancellation. `EnsureOpen`, `Mutates` and `ShutdownAdmits` are the admission
gates (`ExternalMethod`, `mac_amdgpu_admit_external`, `mac_amdgpu_ensure_open`):
a refused call changes nothing and is not an action.

`FinishStop` is split by the branch it takes: last participant
(`FinishStopLast`), uncertain work with others attached
(`FinishStopQuarantines`), ordinary retirement (`FinishStopRetires`, which may
stop at any queue or buffer), observer or closed device
(`FinishStopDetached`).

Abstractions: bring-up stages are None, Partial, SDMAInit, the three the
lifecycle code distinguishes; a buffer is a slot with a state; fence values are
the states of one submission.

### SignalMailbox

The CPU side is one process (`pc`) because callers and the idle worker hold one
mutex; the kernel is the other (`gpc`). Each acquire load, release store and
atomic read-modify-write is a step. Relaxed accesses belong to the step of the
release that publishes them or of the acquire that precedes them. Time is
nondeterministic: a deadline may pass whenever it is looked at. The kernel may
stall forever at any instruction, and a timed-out kernel may continue at any
later time.

`AtomicUpdates` states the promise: each update of a call takes effect at most
once, in order; a successful call reports exactly the old values; after a
failure no call is accepted and what was not applied may be applied once. The
refinement maps the variables of the same name; `olds` is a history variable
that records the old values of applied updates.

### VRAMAllocator

The sorted list of free nodes is the set of its ranges; the neighbours `prev` and
`cur` of the code are the ranges that end or begin at a range's border. Units are
the smallest alignment (16 KiB). `Alloc` is one successful call: first fit,
carving, and the extra node a split in the middle takes from the pool of nodes.
`Free` is a call on a range that `alloc` returned; a range that `free` rejects is
forgotten by its caller, so a rejection would show as lost memory. `Snapshot` and
`ValidSnapshot` are the accounting QueryInfo returns and the check it applies.

### ClientBuffers

A client's table is pages of slots that appear and disappear (`boPages`); a
handle is a slot and a generation. A VRAM range is an abstract block, since
`VRAMAllocator` shows that live ranges are disjoint. `BOAlloc` is split by domain;
`BOExport`, `BOImport` and `BOFree` are whole calls; `FinishStop` is split as in
`DriverSession` and says what happens to each table. Quarantined tables keep
their entries until a reset, and a reset forgets clients, ranges and references
together.

### CommandStreams

Only the client with exclusive ownership submits raw streams, so there is one
client. Handles are the integers the code builds, because two kinds of handle
share one argument. `hw` is the work an engine may be executing; the driver sees
only the fence words `wb`. `SubmitSDMA`, `SubmitGFX` and `SubmitLegacy` are
SubmitIB by branch, with the failure of each step after the submission began as a
parameter. `WaitFence` and the admission of any call poll; that is `Poll`, and
`Signalled` is what WaitFence reports.

### GARTAperture and GARTMapping

`GARTAperture` is the table of reservations in pages, with the bounded search of
`find` as a recursive function over its passes. `GARTMapping` splits bind and
unbind at every point where the device can see a change: each page-table entry,
each hub's invalidation, the end of the DMA mapping. `Walk` lets a hub cache an
entry between any two of these. Every step may fail; what a failing step has
already done is a parameter. A page-table entry is written in one step, although
the code writes two words: no job uses the address before the binding is ready or
after its jobs have retired, which is the caller's duty.

### BringUp

A call is a program: the functions it still has to run, in `call.prog`. One step
runs one function of the source (the names are the same), which continues,
inserts the functions it calls, or ends the call with an error. So a call stops
at every point where the code returns early, and firmware can answer between any
two functions and between calls. `StageOps` is `run_stage`; `bringup_to` is one
turn of the loop.

The driver's state is the flags of `BringupContext`: `loaded` holds the
`microcode_loaded` flags, the CP files and the MES package; `smu.pending` and
`mes.pending` are the latches that remember an unanswered command. What the code
cannot see is `acked` (what firmware acknowledged since the last reset), `out`
(commands published and not answered), `refused` and `maps`. The properties
relate the two kinds. `Blocks` is the rule at the end of both calls; MES and SMU
commands are not part of it, their latches protect them instead.

Abstractions: an image is a name and takes one slot of the firmware buffer; a
function that only programs registers or allocates is `Hardware`, with the errors
it may return; acknowledgements no property asks for are not recorded
(`Untracked`). A failed ShutdownGPU may or may not have reset the device.

### FirmwareFiles and Discovery

Both parse what a client or the device supplies. `FirmwareFiles` takes a file of
any length with any values in its fields, in every header version, and extracts the
parts in the code's order; `Within` is its bounds check on sums that wrap, `Kept` the
loop that fills the table of payloads. TLC starts from the files of `FirmwareTried`
(`MCMemory`), which have at most two unusual fields.
`Discovery` chooses a field when the walk first reads it, so one behaviour is one
binary; `touched` collects the bytes read. The IP table changes at the end only.

### AQLQueues

Driver calls are single steps (serial queue); producers and the command processor
use ring and metadata at any time. `Kick` accepts a doorbell, `ServiceQueue` is the
periodic call that grants scratch. `hw` is what firmware has, `aql` what the driver
believes; a close or launch without acknowledgement makes them differ. The command
processor is external: it takes packets in order up to the write pointer and waits
at a slot that is not published. `AQLLaunch` and `ComputeLaunch` are the one-shot
dispatches, whose memory must outlive an unanswered unmap.

### Interrupts

The handler runs in steps (`InterruptOccurred`, `Reread`, `Recover`,
`DrainAndWake`), between which the GPU writes entries and the client clears bits in
the shared page. RPCs and both Stops share the driver's serial queue with the handler and
never run in the middle of it. `InterruptDropped` is the message a client has
masked, or one that meets a client that stops. When the driver itself is stopping,
`InterruptOccurred` raises the vector's bit and returns: nothing is drained and nobody is
woken, so the client sleeps on a pending bit. `NoLostWakeup` allows exactly that, and
`StoppedWaitEnds`, a part of `InterruptsLive`, says that the wait ends all the same, aborted by
the client's own stop.

### SQSlot

`ReadSqSlot` loads the words one at a time, each a step, and the sequence word
before and after them; the profiler of the workload process stores its words in between. Register, free and
Stop follow the code's order.

### RuntimeQueues

A thread is a stack of frames, since a service thread calls the application, which
may call the runtime again. References (`shared_ptr`) are frames with `ref`,
members of the registry and of shutdown's retired set; dropping the last one pushes
the destructor on the stack of whoever dropped it, possibly the service thread.
`lifecycle` is `executableLifecycleMutex`, which queue creation holds across driver
calls and shutdown needs to begin; the short-lived mutexes are the steps. A call that has to
wait for that mutex begins when it is free. An error callback may
make any calls, about its own queue or another, before it returns. A join is a step enabled when
the joined thread has ended, so a thread that waits for itself never returns, nor do two
that wait for each other. The second does happen: of two error callbacks that destroy each
other's queues (directly, by a shutdown, or by dropping a last reference) each joins the service
thread of the other (`JoinCycle`), and `stopService` only looks for the thread's own identity. The comment at
`queues.cpp:52` promises a callback its own queue only, so this is no finding;
`RuntimeCallsReturn` names it as the one exception.

### RuntimeSignals

A context owns slots; creation claims one, fills it and publishes it under
`slotsMutex`, where it looks at the fault flag a last time. `Fail` takes the
references, `Kill` marks the signals one at a time outside the mutex. Destroying a
signal leaves its slot to the last holder. What an operation computes is left to
`SignalMailbox`. `Reclaim` takes the operations mutex for a public queue creation and retires the
service; `EndLease` gives it back.

### RuntimeMemory and RuntimeCopy

Requests go to the driver outside the mutex; `PublishAllocation` is the check that
the session is still the one that asked. Storage goes with the last reference
(`SettleStorage`): the map, a call in progress, a queued job, the retired map of
shutdown. Objects are named and reused, addresses are pages, and two connections
may place buffers at the same addresses. `RuntimeCopy` has the bytes: pieces of the
staging size, the direction for overlaps, host mappings, copies between two GPUs,
and a failure after any piece.

### HostLocks, IPCSignals

`lockedPages` counts the ranges that cover a page, `wired` is what the system holds;
`LockHostFails` stops at any page. In `IPCSignals` each system call is a step and a
process may die between any two, which drops its lock and its descriptor; only the last leaver's
store of the retired
flag, unlink and close are one step, for it holds the exclusive lock throughout.

### Executables and CodeObjects

Storage of an image, its publication, the instruction cache (external: it keeps
what it has run until it is invalidated) and the tables tools traverse. Load is
split at every driver call and may fail at each. The lifecycle mutex is recursive: while a thread is in
the callback of a traversal it may make every call of the module, traversals of something else
included (`traversals`, innermost first). A traversal of code objects holds its executable, so images that
the callback destroys keep their storage until it returns. A callback may not create or destroy executables
under `iterate_executables` (its documentation excludes it), and to traverse again what is being
traversed adds nothing. A callback that loads into the executable whose list is being read moves that list:
this is a finding (`TraversedListStands`). What the loop reads from then on is undefined, and nothing is
said of it. `CodeObjects` has the recursive
decoder as a function of the levels of nesting left (`Parse`): from each position and
number of values read so far, where it ends or that it refuses. Against it stands a grammar
of MessagePack without a reader (`ValuesIn`): which bytes are one value of how many
values, whatever came before. Images have any segments, a kernel and relocations, at
addresses below `Limit` so that sums can wrap. TLC starts from the metadata and images of
`CodeTried` (`MCMemory`).

### HSATransport and StagedTransfer

Each process has a connection; bring-up is split where other processes can come
between (read the stage, claim, read again, reset, advance). An RPC of unknown
outcome faults the connection and may have happened, hence `mapped` (the process),
`driverBO` (the driver) and `hwQueue` (firmware). A close follows the destructor: it
begins when nobody holds the connection, unmaps buffer by buffer and then closes the port, while
firmware still runs the queues; the driver's FinishStop comes later, with other processes in
between. It removes the queues first (a reset, for the last client), and the storage after
them, or quarantines all of it and blocks the session; `ShutdownGPU` is the later way out.
`StagedTransfer` follows one transfer chunk by chunk, with prefix and tail. A copy that is reported as failed may
still run (the comment at `transport_iokit.cpp:704` says so): `CopyRunsOn` moves its dwords, any of
them, in any order, now or later.

## 3. Runs

| Run | Configuration | Shows |
|---|---|---|
| `session_safety` | 3 clients, 2 buffers, 2 queues, at most 2 participants, symmetric | `SessionInv` (ownership, raw access, DMA, storage) and `ResetsRecover` (who may reset, and that only a reset recovers) |
| `progress` | 2 clients, 2 buffers, 1 queue; 1 signal; fairness | `StopsComplete`: client Stop and driver removal complete; `MailboxLive`: every call, reclaim and shutdown returns although the GPU may stall, and a kernel that is told to stop ends if its wave is scheduled |
| `submissions` | 2 signals of 2 bits, 2 operations, batches up to 2, 2 sequence numbers; 2 streams, 1 buffer, handle fields of 3 values, 3 fence values | mailbox: `MailboxSafe` (hand-over of the words, sequence agreement, retained backing), refinement of `AtomicUpdates`; command streams: `CompletionHonest` (WaitFence reports work only when it is done; running work holds everything off), `ResultsLatched` |
| `device_events` | an IH ring of 4 entries, 2 events, 5 entries written; 2 producers, a ring of 2 packets, 3 indices; fairness | interrupts: `NoLostWakeup` and `InterruptsLive` (entries are reported, a wait ends), through stops of client and driver; AQL queues: `WritePointerAdvances`, `QueueMemoryHeld`, `PacketsExecuted` |
| `client_buffers` | 2 clients, 2 pages of 2 slots, 3 generations, 2 ranges, 2 tokens, 2 shared entries, at most 3 references, symmetric | `StorageExact` (references, ranges, pages, owners, the SQ slot), `HandlesFresh` |
| `gart_mapping` | 5 pages at base 1 or 4, 2 buffers and the test, 3 bus ranges, 3 slots, 4 identifiers, requests and alignments of 1 and 2, 2 hubs, symmetric | `MappingsExact` (no translation outlives the memory or the reservation it leads to; addresses lead to their buffer; reservations are disjoint and owned), `FindExact` (the bounded search is an exact first fit) |
| `bring_up` | 6 firmware files, 2 SOS packages, 8 staging slots, targets TMRSetup and SDMAInit, 2 SDMA engines | `LadderHonest` (stage and flags mean what was acknowledged, through failures, late answers and repeated calls), `CommandsOrdered` (no unit gets a command over an unanswered one), `StagingIntact` |
| `queues_and_events` | 2 threads and 1 queue; 1 thread and 2 queues in service; 2 clients, 2 signals, 1 slot; fairness | runtime queues: one error report, safe destruction, and `RuntimeCallsReturn`: a circle of service threads that join one another is the only way in which a call does not return; signals: a fault kills all of them, waiters are released |
| `memory_and_data` | `Memory.cfg`; symmetric in callers and GPUs | one invariant or two for each of twelve components: `PoolExact`, `CopyPinsStorage`, `AllocationsKnown`, `QueriesUnambiguous`, `RunsOwnCode`, `CopyIsMemmove`, `WiredExactly`, `TransferExact`, `RetiredStaysRetired`, `OneInitializer`, `QueueBackingMapped`, `CodeObjectsSound`, `SampleNotTorn`, `PayloadsExact`, `DiscoveryInBounds` |
| `stream_handle_alias`, `signal_revival`, `code_object_traversal` | as above; 2 processes; 1 thread, 2 images | counterexamples to what two comments and a header say, see "Findings" |

A type invariant is the first conjunct of the main invariant of a module where it
has one. `submissions`, `progress`, `queues_and_events`, `device_events` and `memory_and_data`
combine components that share no state in these models: `focus`, chosen at the start, says which of
them runs, and the others keep an initial state. So a run explores the sum of their state spaces,
not the product. No fair action of a resting component is enabled in its initial state, hence
its fairness asks for nothing. The runtime queues have two cases in `queues_and_events`: two
threads with one queue (`FirstQueue`), from the start of the runtime, and one thread (`FirstUser`)
with both queues in service.

Why the bounds are enough to be interesting. Three clients give an owner, a
second participant and one that is refused at the participant limit or observes;
two buffers are the ring and metadata of a queue; two queues allow one retained
and one closed. Two sequence numbers reach the exhaustion of the 64-bit counter
(`MaxSequence`), and the restart that resets it; batches of two separate "some
updates applied" from "all applied". The increment wraps and the
compare-and-swap misses on two-bit words.

The VRAM pool starts at an odd address so that
alignment skips units, and is large enough that allocations at the limit of four
leave free ranges between them.

Two clients are enough for one to export and one to import, and for one to be
quarantined while the other goes on; three references reach the limit of the
count. Generations run out (the code refuses instead of wrapping). Three fence
values reach the value below the reserved all-ones pattern. In `gart_mapping` the
three slots of the table fill up, alignment skips pages on both sides of a
reservation, and a bus range that was unmapped is mapped again
for another binding.

In `bring_up` the eight slots are exactly enough for a complete bring-up with a
trusted application and the SMU table, so every repeated or refused upload leads
to the exhaustion of the buffer later on. The files are one of each kind the code
treats differently; MES comes complete (two images for the four of the code) and
as the legacy file that lacks one. TMRSetup is the stage clients must stop at to
upload firmware, SDMAInit the last one; the other stops are reached by failures.

For queues, two threads and the service thread are the caller of destroy, a second
caller or a shutdown, and the callback. The case of two queues has two service threads, whose
callbacks can meet each other, a thread of the application and a shutdown; it starts where both
queues are in service, which the other case shows can be reached for one. One signal slot for
two signals makes creation wait for the
return of a slot. A ring of two packets with three indices wraps; the packets need
no, some and more scratch. Five entries in a ring of four wrap and overflow it, and
leave one to arrive after the recovery. Memory has two objects, two pages and two
sessions: enough for an address to be given out again, to another connection or in
another session, while a copy of the old one runs. Copies have overlaps of every
distance across pieces of two bytes; transfers have prefixes and tails of every
length in dwords of three bytes and chunks of two dwords. Three
processes share a signal: one that leaves, one that dies and one that attaches.

Firmware fields take eight values and files up to six bytes, so offset plus size
passes the end of the file and of the field. Discovery binaries have up to eight
bytes, two dies, two records with two bases. Metadata has up to four bytes (`MaxBytes`), and
maps of two pairs more, so duplicate keys, arrays and nesting beyond the limit, truncated everywhere, occur.

Deadlock checking is off where the system may stop: a removed driver, a dead
signal context, a mailbox whose service is gone, clients that have all closed, and a parser or
copy that has ended have nothing left to do. It is on in `bring_up` and `gart_mapping`.

Findings. Two comments and a header disagree with the code.

- `dext/MacAMDGPU.cpp:4531` says that buffer handles are accepted by SubmitIB. The
  lookup as a command stream comes first and ignores the upper half of the handle,
  so a buffer in slot 1 is taken for the stream in slot 0 with generation 1
  (`BOHandlesFallBack`).
- `hsa/src/ipc_signal.cpp:119` says that attaching never revives a shared signal
  whose participants have all died. The probe for a live participant and the
  attacher's own lock are two calls; all participants may die in between, and the
  flag that is checked afterwards is set only by an orderly close (`NoRevival`).
- `hsa_ven_amd_loader.h:248` describes the traversal of the code objects of an executable
  with a callback "on every iteration", and excludes no call from it (as it does at lines 508 to 510
  for the traversal of executables). The loop at `hsa/src/executable.cpp:478` reads a vector that
  `hsa_executable_load_agent_code_object`, called from the callback for the same executable, moves;
  the mutex does not prevent it, being recursive (`TraversedListStands`).

Fairness. For the session `progress` assumes what the platform provides: an accepted
`Cancel` calls back, a block on the serial queue runs, IOKit stops the clients
of a terminated service and frees objects nobody retains. Nothing is assumed of
applications, of the GPU or of the outcome of any request. For the mailbox it
assumes that the thread holding the mutex runs and that its clock passes every
deadline: strong fairness of `AwaitFails`, since the wait alternates between
loading and looking. Of `MailboxLive`, the part about
the kernel has its own premise, that a resident wave which has started is scheduled;
the part about calls does without it.

In `queues_and_events` and `device_events` threads of the application and service
threads run: a call that has begun goes on, and an application's callback returns some time. That is
strong fairness of `CallbackReturns`, since a callback may make any number of calls first. No call has to
be made. `PacketsExecuted` assumes in addition what a queue is for: a producer that
has reserved a packet publishes it and rings the doorbell, the service thread calls
the driver, and the command processor takes packets it can see. Of `InterruptsLive`, `EntriesReported`
assumes that a message of the GPU leads to the handler, and that the handler runs; `StoppedWaitEnds`
that IOKit stops the clients of a stopping service, and that a stop's last block runs on the queue.

## 4. Proofs

`DriverSessionProofs` proves for every finite set of clients, every set of
buffers and queues and every participant limit:

| Theorem | Result |
|---|---|
| `SessionSafe` | `SessionInv` is invariant |
| `TypeCorrect` | every variable keeps its type |
| `SessionExact` | the participants counter is exact; owners are attached and alone |
| `RawAccessSafe` | raw hardware access implies exclusive ownership |
| `DMASafe` | no DMA to memory that was given back |
| `StorageSafe` | storage of closed clients is never lost |
| `ResetsEntitled` | `ResetsRecover`: only a verified reset recovers a session, and none takes the device from another client |

Assumptions: `NoClient` is not a client, `Clients` is finite, the participant
limit is positive. The inductive invariant `SessionInv` adds to the properties
`OpenDiscipline`: bus mastering needs an open device, a stopping driver has
closed it, and clients are attached to a closed device only when the session is
blocked or the driver is stopping. Without it `NoDMAToFreed` is not inductive:
`FinishStopDetached` releases buffers without a reset and is safe only because
the device it releases them from is closed. `BackingHeld` is kept while the
driver is not stopping even with bus mastering off, because the next open turns
it on again. The counting argument (`participants = Cardinality(claimed)`) is in
two lemmas about adding and removing one client. There is one lemma per action.
For the action property, every action but the resets and the removal of the driver
is shown `Ordinary`: it unblocks nothing, gives no quarantined storage back and
does not take the stage back to the start, so only those need an argument.

`SignalMailboxProofs` proves for every arena, set of values and operations, batch size and
length of the sequence words:

| Theorem | Result |
|---|---|
| `MailboxInductive` | the inductive invariant `MailboxInv` holds |
| `MailboxSafety` | `MailboxSafe` |
| `MailboxRefines` | `ImplementsAtomicUpdates`: the mailbox, its service and the fallback implement `AtomicUpdates` |

The argument is ownership. A request is pending from the release of its sequence number to
the kernel's completion word. While one is, the CPU writes no request word and starts no
kernel, because the call that published it either still waits or has failed and faulted the
service for good (`RequestState`). So the kernel's registers, the result words and the
history of applied updates agree word by word (`ResultState`), the sequence words are at
most one apart (`SequenceState`), and a late kernel or a late fallback has at most the rest
of one call left to apply (`FallbackState`). For the refinement `KernelApply` and
`OneShotApply` are `Apply`, `Collect` and `OneShotReturn` are `Return`, and each way a call can
fail is the abstract failure; everything else stutters. The operations are the parameters
`Ops` and `Effect`; `SignalOperations`, which has the nine of the kernel with bitwise
operators, gives them their values in TLC's instance.

The last part of `HostSideProofs` is about `VRAMAllocator`, for every pool size, base, set of
requests and alignments and every limit on allocations:

| Theorem | Result |
|---|---|
| `PoolSafe` | the inductive invariant `PoolInv` holds |
| `PoolDisjoint` | ranges never overlap and stay inside the pool |
| `PoolKeepsAll` | every unit is live or free |
| `PoolNodes` | free ranges are at most one more than live ones |
| `PoolAccounted` | the account is exact and what QueryInfo reports passes its check |
| `PoolIsExact` | `PoolExact`, all of these together, as `memory_and_data` checks it |

The class comment claims the last one; it needs all of the others. `NodeBound`
maps each free range but the last to the live range that begins where it ends,
which exists because the ranges tile the pool (`NothingLost`, `Disjoint`) and no
two free ranges touch (`Coalesced`). From it follows that `free` never rejects a
range `alloc` returned (`FreeAccepted`), which keeps the tiling. `CarveTiling` and
`MergeTiling` are the two facts about splitting and merging a tiling. For the account,
`LiveBound` bounds the number of allocations by the units in use (every range has a
unit of its own), and `LargestBound` the largest free range by the free units.

`GARTMappingProofs` proves for every aperture size and base, table size, set of
requests, alignments, buffers and bindings and every number of hubs:

| Theorem | Result |
|---|---|
| `MappingSafe` | the inductive invariant `MappingInv` holds |
| `TranslationsSafe` | no cached or walkable entry outlives the mapping or the reservation it leads to |
| `AddressesSafe` | the address of a ready binding leads to its buffer on every hub |
| `ReservationsSafe` | reservations stay inside the aperture and disjoint |
| `ReservationsExact` | the reservations are exactly those of the bindings |
| `MappingsSafe` | `MappingsExact`, all of these together, as `gart_mapping` checks it |
| `SearchExact` | `FindExact`: `find()` returns the lowest aligned hole, and fails only when there is none, while the table and the identifiers last |

`MappingInv` adds how far the call in progress has come (`CallProgress`): which
entries are written, which table and which hubs are clean. `Complete` may unmap
because by then no table holds an entry for the binding's pages, and those pages
belong to no other binding (`SpansDisjoint`, from `ReservationsDisjoint`,
`ReservationsOwned` and unique identifiers). `Walk` keeps this since it can only
copy what the page table holds. `MappingInv` needs only the tests at the end of
`find`; `SearchExact` is about its loop. `Reached` says what holds after each pass: no
hole lies below the candidate, and the candidate is a hole or at least as many
reservations as passes end at or below it ("each collision advances past at least one
reservation"). After `Capacity` passes over a table with a free slot it must be a hole.

`CommandStreamsProofs` proves for any number of streams and buffers, any handle
radix and any fence limit that `FenceInv` is invariant (`FencesSafe`), from it
`CompletionsHonest` and the action property `ResultsStay` (`ResultsLatched`).
`FenceInv` adds to the types that fence values are not reused between resets
(`FencesBounded`), that a pending submission expects a value above all that were
latched (`ExpectedFresh`), and that what an engine may run is the pending
submission's and has not written its fence word (`WorkIsPending`). Two counters
make this delicate: SDMA engines share the submission's, the graphics queue has the
driver's, and both write the same array of words.

`EventPathProofs`:

| Theorem | Result |
|---|---|
| `AQLQueueSafe` | `AQLInv` is invariant, for every ring size, set of producers and index limit |
| `QueueMemorySafe` | `QueueMemoryHeld` |
| `DoorbellsMonotone` | `WritePointerAdvances`, an action property |
| `InterruptsSafe` | `IrqInv` is invariant, for every ring of two entries or more and every non-empty set of events |
| `WakeupsKept` | `NoLostWakeup` |
| `SignalsSafe` | `SigInv` is invariant, for any clients and contexts, a finite set of signals and any slots |
| `FaultsDelivered` | `FaultKillsSignals` |
| `QueuesSafe` | `QueuesInv` is invariant, for any users, queues and number of `hsa_init` calls |
| `ErrorsReportedOnce` | `ErrorReportedOnce` |
| `DestructionSafe` | `DestroyedQueuesSafe` |

`AQLInv` adds to the types, which bound the write pointer by the reserved indices,
the links between what the driver believes and what firmware has (`AQLLinks`): a
closed queue is unmapped and runs nothing, the packets that run have the scratch the
driver granted, and the latched doorbell agrees with the write pointer.
`IrqInv` adds that a page implies its queue and that, when no handler runs and the driver is not
stopping, a waiting client has none of its bits pending. `SigInv` is stated of four values rather than of
the variables (`SigConsistent`), because a step first does its own work and
then destroys what lost its last reference (`Settle`): every action is shown to
reach a consistent state, and `SettleInv` does the rest once.

`QueuesInv` speaks of all frames of all stacks. Its parts: what a frame at each
place looks like (`Shaped`); a queue that is destroyed, or whose destructor is
running, has no reference left (`Unreferenced`); a queue that was not created is mentioned by nobody
(`Unborn`); creation holds the lifecycle mutex and nobody else has the queue until its
service starts (`InCreation`, `Started`); whoever takes a queue over to stop it has
removed it from the registry, and there is one such frame at most (`Claimed`); what was
joined has an empty stack (`Joined`); the driver's queue behind an object (`Backed`);
an error is latched before it is reported (`Latched`). The destructor may run on any
stack, the service thread's own included, which is why the invariant cannot be
stated of the top frame alone. A step of a thread puts some new frames on
the rest of its stack (`StepOf`); `StepKeeps` reduces an action to three obligations: the
data changes only as allowed (`Onward`), the new frames fit (`FitsIn`), and the data keep their types.

`HostSideProofs` proves for any set of processes, peers, workloads and any finite set of pages:

| Theorem | Result |
|---|---|
| `TransportSafe`, `InitializerAlone`, `BackingKeptMapped` | `TransportInv`, `OneInitializer`, `QueueBackingMapped` |
| `SharedSignalSafe`, `RetiredForGood` | `IPCInv`, `RetiredStaysRetired` |
| `SampleSlotSafe`, `SamplesWhole` | `SQInv`, `SampleNotTorn` |
| `HostLocksSafe`, `PagesWiredExactly` | `LocksInv`, `WiredExactly` |

`TransportInv` says that an incomplete device has one client at most
(`OneClientBelow`), where a process stands with the driver at each step of its bring-up
(`Standing`), that firmware's queues have their buffers in the driver, and are known
ones with mapped buffers while somebody holds the connection (`Backing`), that the stop under way is
the only one (`OneStop`), and that a client whose queues may still run is quarantined with all it holds.
`IPCInv` relates steps to locks (`LocksHeld`) and keeps the creator alone until the token is
handed out (`OneCreator`); a retired page needs both. `SQInv` says what the words of a
buffer are at each step of the profiler (`BufferWords`), and that what a reader has
so far belongs to one publication if the sequence word is still the one it began with
(`ReadingConsistent`). `LocksInv` is the count itself, over ranges that may occur several
times.

The second half of `HostSideProofs` is about the storage of the runtime, for any objects, pages,
GPUs, callers, jobs, images, threads and sessions:

| Theorem | Result |
|---|---|
| `MemorySafe`, `CopiesPinStorage`, `LookupsUnambiguous` | `MemoryInv`, `CopyPinsStorage`, `AllocationsKnown` |
| `ExecutablesSafe`, `AddressQueriesSound`, `DispatchesOwnCode` | `LoaderInv`, `QueriesUnambiguous`, `RunsOwnCode` |

`MemoryInv` adds to the two properties which calls hold references (`HoldsNothing`,
`MapMade`) and that a call about to publish has an object of the session it asked in
(`RequestsOwnSession`): shutdown may end that session between the driver's answer and
the publication. In `LoaderInv` an image is being loaded by the holder of the
lifecycle mutex (`LoadsSound`), loaded (`LoadedSound`), held by a traversal whose callback has
destroyed its executable (`HeldSound`) or being released (`ReleasesSound`). `LoadedSound` says of
the instruction cache that it has the image's own code
or nothing, which holds because a load invalidates after its upload and before it publishes.

`DataPathProofs` proves for every length, offset, staging size, piece size and dword size,
and for any finite set of clients and any pages, ranges, tokens and limits:

| Theorem | Result |
|---|---|
| `TransferSafe`, `TransfersExact` | `TransferInv`, `TransferExact` |
| `CopySafe`, `CopiesAreMemmove` | `CopyInv`, `CopyIsMemmove` |
| `DiscoverySafe`, `WalkStaysInside` | `DiscoveryInv`, `DiscoveryInBounds` |
| `BuffersSafe`, `StorageAgrees`, `HandlesNotReused` | `BuffersInv`, `StorageExact`, `HandlesFresh`, an action property |
| `PayloadsSafe` | `PayloadsExact`, for every file and request |
| `CodeObjectsSafe` | `CodeObjectsSound`, for all metadata and images and every limit on depth, values and addresses |

The first two are about progress: after each piece exactly the bytes moved so far are in
place (`MovedSoFar`, `Reached`), everything else is as it was (`OutsideKept`), and, for
overlaps, the source of the pieces still to come has not been written. After
a failed copy out of the staging buffer one piece is the exception: what may still reach it is what
the caller asked for (`FailedPieceStaged`). `DiscoveryInv`
says how far each step of the walk may read, given only what earlier steps have checked
(`WalkInside`).

`BuffersInv` is in two halves, because a call changes its own client's tables and meets
the others only in the shared entries. `SharesExact` has the references counted exactly, every
range with one owner, and unique tokens. `ClientsExact` has each client's pages and the sample
slot. Both need strengthening. A shared buffer with references has a real token
(`SharesNamed`), or an import could find an entry nobody exported. The owner of the sample slot is
attached (`SlotAttached`), or
another client's reset could take the buffer from under it. A client that is gone leaves no
page (`AbsentEmpty`), or its successor would start with one. `ReleaseFacts` counts what is left of
the references when a whole set of entries is released at once, which is how an exit, a reset and a
single `BOFree` all come to the same lemma, `ReleaseKeepsShares`.

The state machines of the two parsers have one or two steps; the theorems are about what their
functions compute. For a firmware file, `KeptHolds` says what the loop over the parts keeps,
`PartsOnce` that no format names a part twice, that RLC_G is last and that all fit in the
table, and `WithinExact` that the bounds check is exact although offset plus size may pass
the width of the field. For code objects, `Agree` says that a reader and a set of values match wherever the
reader starts and however many values it has read. `ElementsSound` and `ElementsComplete`
follow the loop over the elements of an array or map, which must find the same cuts as the
grammar and no key twice; the second also shows that the two early refusals (more elements
than bytes left, or than values allowed) refuse nothing well formed, since every element has
a byte and is a value. `LevelAgrees` adds one level of nesting and `DecodeExact` is the last level. For
the image, `LayoutBounds` shows that no end of a segment wraps once `SegmentFits`, so what lies in
a segment lies in the image (`LoadedInImage`), and `FixupsClear` that an evaluated relocation
misses the descriptor.

These inductions, like that of `SearchExact`, are by the least counterexample (`LeastNumber`, from the
library's `WFMin`): the induction theorems of the library take a predicate as a parameter,
which the provers cannot instantiate.

`BringUpProofs` proves for any firmware files and packages, any number of staging slots, any
stages a client may ask for and any SDMA engines:

| Theorem | Result |
|---|---|
| `BringUpSafe` | the inductive invariant `BringUpInv` holds |
| `LadderTrue` | `LadderHonest` |
| `CommandsInOrder` | `CommandsOrdered` |
| `StagingKept` | `StagingIntact` |

None of the three properties is inductive: what `stage_done` may claim was brought about by
functions that have run and are gone from the program. `BringUpInv` therefore speaks of facts
about driver and device (`Holds`) and says of each function what it brings about (`Gives`), what it may
undo (`Takes`) and what it counts on (`Needs`). `NeedsMet`: each need of each function still to
run is true now and not taken before, or given on the way. A stage's end needs what the
stage promises. A step replaces the head of the program by what it calls; `NeedsStayMet` and
`ShapeStays` show once what such a replacement must satisfy, and one lemma per action shows that
it does. `StageSound` is the same for `StageOps`, the fifteen stages of `run_stage`. The rest of the
invariant is the order of stages (`OneStage`, `StageRises`, `StageEnds`), what an open session may rely on
(`OpenSound`: promises kept, the flags of the uploads backed), and the latches against the commands in the air
(`CommandsSound`). Two points are delicate. `mes_enable` forgets what the pipes acknowledged, which is
sound only because the stage above it has not been reached. And `psp_parse_ta_microcode`
replaces the trusted application behind `firmwareLoadComplete`, which `LoadFirmware` has cleared by
then (the fact `Is("incomplete")`).

Assumptions. Every constant is a parameter; the modules' ASSUMEs ask for
no more than that special values ("nobody", "none", "host", "free") are not names of
clients, queues or GPUs, that sizes and limits are natural numbers, and positive where
the code divides by them or the device has at least one. Finiteness is assumed only
of what is counted: clients, signals, host pages. A ring of the interrupt handler has at least two
entries, or it could not tell empty from full; context numbers are positive,
zero being no context. The names `BringUp` uses for images, commands and engines
are told apart (`NamesAssumption`: in the code they are codes of different enumerations), and a file
lists RLC_G, which starts the autoload, last (`LastAssumption`: `extract_rlc` pushes it last).
The table of payloads has room for the eleven parts an RLC file can have (sixteen in the code).

Model-checked only:

- liveness and everything under fairness (outside the prover's reach):
  `StopsComplete`, `MailboxLive`, `RuntimeCallsReturn`, `WaitersReleased`,
  `PacketsExecuted`, `InterruptsLive`.

Every other property of a passing run, invariants, action properties and the refinement alike, is
stated by a theorem. What the nine operations of `SignalOperations` compute on a word is an
assumption of the proofs (`Effect` maps values to values) and a definition for TLC.

## 5. Not modelled

- Register programming of the memory controller, the graphics core and the engines:
  sequences of writes without decisions, one step that works or fails in `BringUp`.
- Packet encoding, ring padding and the contents of PSP and MES frames.
- Metrics and statistics, and the queries that report fixed properties of agents,
  pools and regions: nothing in the driver or the runtime depends on them.
- The debugging calls of the driver (register windows, its client DMA buffer).
- The host application and the monitors, which only observe; vendored headers,
  patches and firmware images.
- The 16-bit generation in a command-stream handle: `CommandStreams` has it with
  three values, but the return of an old handle after 65535 creations is not stated as a
  property.

## 6. Next steps

1. An abstract specification of a runtime queue (packets in, completions out) that
   `RuntimeQueues` and `AQLQueues` together implement.
2. Wrap and fences of the CP, MES and SDMA rings.
