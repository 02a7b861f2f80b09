--------------------------- MODULE RuntimeQueues ---------------------------
(***************************************************************************)
(* Queues of the HSA runtime (hsa/src/queues.cpp) together with runtime    *)
(* initialisation and shutdown (hsa/src/runtime.cpp).  A queue object is   *)
(* shared: the registry, every API call in progress, the retired set of    *)
(* hsa_shut_down and the queue's own service thread hold a reference, and  *)
(* whoever drops the last one runs the destructor.  The service thread     *)
(* polls the driver, reports a fault through the application's callback,   *)
(* and that callback may make any call: destroy this queue or another,     *)
(* create one, or shut the runtime down.                                   *)
(*                                                                         *)
(* A section of code under runtimeMutex or under a queue's mutex is one    *)
(* step (neither is held across a callback or a join).  A thread is a      *)
(* stack of frames, innermost first; a frame with ref = TRUE holds a       *)
(* shared_ptr to its queue.  A queue's service thread is named by the      *)
(* queue.                                                                  *)
(***************************************************************************)
EXTENDS Naturals, Sequences

CONSTANTS Users,      \* application threads
          Queues,     \* queue objects, each created at most once
          MaxInits    \* bound on calls of hsa_init

ASSUME RuntimeAssumption ==
    /\ Users \cap Queues = {}
    /\ MaxInits \in Nat \ {0}
    /\ "free" \notin Users \union Queues /\ "none" \notin Queues

VARIABLES references,  \* runtime reference count
          inits,       \* calls of hsa_init so far, bounded by MaxInits
          registry,    \* the global map `queues` (and the doorbells in `signals`)
          queue,       \* state of each RuntimeQueue
          backend,          \* the driver's queue behind it
          lifecycle,   \* holder of executableLifecycleMutex across steps, or "free"
          stack,       \* frames of every thread
          reported,    \* error callbacks made per queue
          retiredOK    \* queues whose destruction has been confirmed to a caller

queueVars == <<references, inits, registry, queue, backend, lifecycle, stack, reported, retiredOK>>

Threads == Users \union Queues

None == "none"

Fresh == [st |-> "unborn", soft |-> FALSE, active |-> TRUE, handle |-> FALSE, err |-> FALSE,
          kicked |-> FALSE, profiled |-> FALSE, stop |-> FALSE, thread |-> "none", backing |-> "none"]

Frame(at, q, ref) == [at |-> at, q |-> q, ref |-> ref, todo |-> {}, retired |-> {}]

\* Every variable keeps its type.
QueuesTypeOK ==
    /\ references \in 0 .. MaxInits
    /\ inits \in 0 .. MaxInits
    /\ registry \subseteq Queues
    /\ queue \in [Queues -> [st : {"unborn", "live", "gone"}, soft : BOOLEAN, active : BOOLEAN,
                             handle : BOOLEAN, err : BOOLEAN, kicked : BOOLEAN, profiled : BOOLEAN,
                             stop : BOOLEAN, thread : {"none", "held", "moved"},
                             backing : {"none", "held", "freed", "retained"}]]
    /\ backend \in [Queues -> {"none", "running", "destroyed"}]
    /\ lifecycle \in Threads \union {"free"}
    /\ \A t \in Threads : \A i \in DOMAIN stack[t] :
          stack[t][i].q \in Queues \union {None} /\ stack[t][i].ref \in BOOLEAN
    /\ reported \in [Queues -> Nat]
    /\ retiredOK \subseteq Queues

QueuesInit ==
    /\ references = 0 /\ inits = 0
    /\ registry = {}
    /\ queue = [q \in Queues |-> Fresh]
    /\ backend = [q \in Queues |-> "none"]
    /\ lifecycle = "free"
    /\ stack = [t \in Threads |-> <<>>]
    /\ reported = [q \in Queues |-> 0]
    /\ retiredOK = {}

Top(t) == stack[t][1]
Rest(t) == Tail(stack[t])
At(t, where) == stack[t] # <<>> /\ Top(t).at = where

\* A frame that holds a reference to q, its own or one of hsa_shut_down's retired set.
Holds(frame, q) == (frame.ref /\ frame.q = q) \/ q \in frame.retired

\* Some frame of the stacks s holds one.
Held(s, q) == \E t \in Threads : \E i \in DOMAIN s[t] : Holds(s[t][i], q)

Referenced(q) == q \in registry \/ Held(stack, q)

-----------------------------------------------------------------------------
(* Frames                                                                  *)

Goto(t, frame) == stack' = [stack EXCEPT ![t] = <<frame>> \o Rest(t)]

\* Dropping a shared_ptr: the holder of the last one becomes the destructor.
Drop(t, reg, below) ==
    LET q    == Top(t).q
        left == [stack EXCEPT ![t] = below]
        last == q \notin reg /\ ~Held(left, q)
    IN  stack' = IF last THEN [left EXCEPT ![t] = <<Frame("x_stop", q, FALSE)>> \o below] ELSE left

\* An application thread may start a call when idle, any thread from inside a callback.
MayCall(t) == IF stack[t] = <<>> THEN t \in Users ELSE Top(t).at = "callback"

\* Nobody has the queue's address before its service thread runs or hsa_queue_create returns.
Known(q) == \A u \in Threads : At(u, "c_start") => Top(u).q # q

\* findQueue (and the lock of a doorbell's weak reference): a call takes its own reference.
Pin(t, q, at) ==
    /\ MayCall(t) /\ Known(q)
    /\ references > 0 /\ q \in registry
    /\ stack' = [stack EXCEPT ![t] = <<Frame(at, q, TRUE)>> \o stack[t]]

-----------------------------------------------------------------------------
(* hsa_init and hsa_shut_down                                              *)

\* hsa_init: the first reference discovers the devices, later ones count.
HsaInit(t) ==
    /\ MayCall(t) /\ inits < MaxInits
    /\ inits' = inits + 1
    /\ references' = references + 1
    /\ UNCHANGED <<registry, queue, backend, lifecycle, stack, reported, retiredOK>>

\* hsa_shut_down: the last reference takes the registry over; the mutexes are released before any
\* thread is joined.
HsaShutDown(t) ==
    /\ MayCall(t) /\ references > 0 /\ lifecycle = "free"
    /\ references' = references - 1
    /\ registry' = IF references = 1 THEN {} ELSE registry
    /\ stack' = [stack EXCEPT ![t] = IF references = 1
                    THEN <<[Frame("s_stop", None, FALSE) EXCEPT !.todo = registry, !.retired = registry]>> \o stack[t]
                    ELSE stack[t]]
    /\ UNCHANGED <<inits, queue, backend, lifecycle, reported, retiredOK>>

\* Mutant: the service thread is joined by whoever stops it, itself included.
StopServiceJoinAlways(t, q, joining, after) ==
    /\ queue' = [queue EXCEPT ![q].stop = @ \/ queue[q].thread # "none",
                              ![q].thread = IF @ = "held" THEN "moved" ELSE @]
    /\ IF queue[q].thread = "held" THEN joining ELSE after

\* RuntimeQueue::stopService: request the stop, take the thread object, then join it, or detach it
\* when it is the calling thread.  `joining` and `after` say what the caller does next.
StopService(t, q, joining, after) ==
    /\ queue' = [queue EXCEPT ![q].stop = @ \/ queue[q].thread # "none",
                              ![q].thread = IF @ = "held" THEN "moved" ELSE @]
    /\ IF queue[q].thread = "held" /\ t # q THEN joining ELSE after

\* stopQueueServices: the next retired queue.
ShutDownStop(t) ==
    /\ At(t, "s_stop")
    /\ \E q \in Top(t).todo :
          LET next == [Top(t) EXCEPT !.todo = @ \ {q}]
          IN  StopService(t, q, Goto(t, [next EXCEPT !.at = "s_join", !.q = q]), Goto(t, next))
    /\ UNCHANGED <<references, inits, registry, backend, lifecycle, reported, retiredOK>>

ShutDownJoin(t) ==
    /\ At(t, "s_join")
    /\ stack[Top(t).q] = <<>>
    /\ Goto(t, [Top(t) EXCEPT !.at = "s_stop", !.q = None])
    /\ UNCHANGED <<references, inits, registry, queue, backend, lifecycle, reported, retiredOK>>

\* retiredQueues.clear(): drop one queue, running its destructor if that was the last reference.
ShutDownClear(t) ==
    /\ At(t, "s_stop") /\ Top(t).todo = {}
    /\ IF Top(t).retired = {}
       THEN stack' = [stack EXCEPT ![t] = Tail(@)] /\ UNCHANGED retiredOK
       ELSE \E q \in Top(t).retired :
              LET kept == <<[Top(t) EXCEPT !.retired = @ \ {q}]>> \o Rest(t)
                  left == [stack EXCEPT ![t] = kept]
              IN  /\ stack' = IF q \notin registry /\ ~Held(left, q)
                              THEN [stack EXCEPT ![t] = <<Frame("x_stop", q, FALSE)>> \o kept]
                              ELSE left
                  /\ retiredOK' = IF t = q THEN retiredOK ELSE retiredOK \union {q}
    /\ UNCHANGED <<references, inits, registry, queue, backend, lifecycle, reported>>

-----------------------------------------------------------------------------
(* Creation                                                                *)

\* hsa_queue_create up to publication: ring, metadata and the driver's queue exist before anyone
\* else can reach the object.  A failure before that leaves no trace.
QueueCreate(t, q) ==
    /\ MayCall(t) /\ references > 0 /\ lifecycle = "free"
    /\ queue[q].st = "unborn"
    /\ queue' = [queue EXCEPT ![q].st = "live", ![q].handle = TRUE, ![q].backing = "held"]
    /\ backend' = [backend EXCEPT ![q] = "running"]
    /\ registry' = registry \union {q}
    /\ lifecycle' = t
    /\ stack' = [stack EXCEPT ![t] = <<Frame("c_start", q, TRUE)>> \o stack[t]]
    /\ UNCHANGED <<references, inits, reported, retiredOK>>

\* startService: the thread object is published before the new thread may be stopped.  A driver
\* without queue resources gets no service thread.
StartService(t) ==
    /\ At(t, "c_start")
    /\ \/ /\ queue' = [queue EXCEPT ![Top(t).q].thread = "held"]
          /\ stack' = [stack EXCEPT ![t] = <<Frame("c_done", Top(t).q, TRUE)>> \o Rest(t),
                                    ![Top(t).q] = <<Frame("loop", Top(t).q, FALSE)>>]
       \/ Goto(t, Frame("c_done", Top(t).q, TRUE)) /\ UNCHANGED queue
    /\ UNCHANGED <<references, inits, registry, backend, lifecycle, reported, retiredOK>>

\* The thread could not be started: the queue is withdrawn again.
StartServiceFails(t) ==
    /\ At(t, "c_start")
    /\ registry' = registry \ {Top(t).q}
    /\ Goto(t, Frame("c_done", Top(t).q, TRUE))
    /\ UNCHANGED <<references, inits, queue, backend, lifecycle, reported, retiredOK>>

\* hsa_queue_create returns: the local reference goes first, then the lifecycle mutex.
QueueCreateReturns(t) ==
    /\ At(t, "c_done")
    /\ Drop(t, registry, <<Frame("c_unlock", None, FALSE)>> \o Rest(t))
    /\ UNCHANGED <<references, inits, registry, queue, backend, lifecycle, reported, retiredOK>>

LifecycleUnlock(t) ==
    /\ At(t, "c_unlock")
    /\ lifecycle' = "free"
    /\ stack' = [stack EXCEPT ![t] = Rest(t)]
    /\ UNCHANGED <<references, inits, registry, queue, backend, reported, retiredOK>>

\* hsa_soft_queue_create: host memory only, no driver queue and no service thread.
SoftQueueCreate(t, q) ==
    /\ MayCall(t) /\ references > 0
    /\ queue[q].st = "unborn"
    /\ queue' = [queue EXCEPT ![q].st = "live", ![q].soft = TRUE, ![q].backing = "held"]
    /\ registry' = registry \union {q}
    /\ UNCHANGED <<references, inits, backend, lifecycle, stack, reported, retiredOK>>

-----------------------------------------------------------------------------
(* The service thread                                                      *)

Usable(q) == queue[q].active /\ queue[q].handle /\ ~queue[q].err

\* Top of the loop: leave when stopped or when the queue object has expired, else lock it.
ServiceLoop(q) ==
    /\ At(q, "loop")
    /\ stack' = [stack EXCEPT ![q] = IF queue[q].stop \/ ~Referenced(q) THEN <<>>
                                     ELSE <<Frame("service", q, TRUE)>>]
    /\ UNCHANGED <<references, inits, registry, queue, backend, lifecycle, reported, retiredOK>>

\* RuntimeQueue::service under the queue's mutex: ask the driver; a failure is latched.
Service(q) ==
    /\ At(q, "service")
    /\ \/ /\ Goto(q, Frame("release", q, TRUE))
          /\ UNCHANGED <<queue, reported>>
       \/ /\ Usable(q)
          /\ queue' = [queue EXCEPT ![q].err = TRUE]
          /\ Goto(q, Frame("notify", q, TRUE))
          /\ UNCHANGED reported
    /\ UNCHANGED <<references, inits, registry, backend, lifecycle, retiredOK>>

\* The mutex is released: stop the service, invalidate the connection's signals, call back.
Notify(q) ==
    /\ At(q, "notify")
    /\ queue' = [queue EXCEPT ![q].stop = TRUE]
    /\ reported' = [reported EXCEPT ![q] = @ + 1]
    /\ stack' = [stack EXCEPT ![q] = <<Frame("callback", q, FALSE), Frame("release", q, TRUE)>>]
    /\ UNCHANGED <<references, inits, registry, backend, lifecycle, retiredOK>>

\* The application's callback returns.
CallbackReturns(t) ==
    /\ At(t, "callback")
    /\ stack' = [stack EXCEPT ![t] = Tail(@)]
    /\ UNCHANGED <<references, inits, registry, queue, backend, lifecycle, reported, retiredOK>>

\* The loop's reference is dropped; then up to a millisecond of waiting.
ServiceRelease(q) ==
    /\ At(q, "release") /\ q \in Queues
    /\ Drop(q, registry, <<Frame("loop", q, FALSE)>> \o Rest(q))
    /\ UNCHANGED <<references, inits, registry, queue, backend, lifecycle, reported, retiredOK>>

-----------------------------------------------------------------------------
(* Calls on a published queue                                              *)

\* RuntimeQueue::inactivate under the queue's mutex.  A driver that cannot unmap the queue leaves it
\* active.  `done` is TRUE when it succeeded.
Inactivate(q, done) ==
    /\ done \/ (queue[q].active /\ queue[q].handle)
    /\ backend' = IF done /\ queue[q].active /\ queue[q].handle THEN [backend EXCEPT ![q] = "destroyed"] ELSE backend
    /\ queue' = IF done
                THEN [queue EXCEPT ![q].handle = FALSE, ![q].active = FALSE,
                                   ![q].stop = @ \/ (queue[q].active /\ queue[q].thread # "none")]
                ELSE queue

\* Mutant: the doorbell path forgets that the error has been delivered.
RingUnlatched(t) ==
    /\ At(t, "ring")
    /\ LET q == Top(t).q
       IN  \/ /\ Drop(t, registry, Rest(t))
              /\ queue' = [queue EXCEPT ![q].kicked = @ \/ Usable(q)]
              /\ UNCHANGED reported
           \/ /\ queue[q].active /\ queue[q].handle
              /\ queue' = [queue EXCEPT ![q].kicked = TRUE, ![q].err = TRUE]
              /\ reported' = [reported EXCEPT ![q] = @ + 1]
              /\ stack' = [stack EXCEPT ![t] = <<Frame("callback", q, FALSE), Frame("unpin", q, TRUE)>> \o Rest(t)]
    /\ UNCHANGED <<references, inits, registry, backend, lifecycle, retiredOK>>

\* hsa_signal_store on the doorbell: the store hook pins the queue and rings under its mutex.
Ring(t) ==
    /\ At(t, "ring")
    /\ LET q == Top(t).q
       IN  \/ /\ Drop(t, registry, Rest(t))
              /\ queue' = [queue EXCEPT ![q].kicked = @ \/ Usable(q)]
              /\ UNCHANGED reported
           \/ /\ Usable(q)
              /\ queue' = [queue EXCEPT ![q].kicked = TRUE, ![q].err = TRUE]
              /\ reported' = [reported EXCEPT ![q] = @ + 1]
              /\ stack' = [stack EXCEPT ![t] = <<Frame("callback", q, FALSE), Frame("unpin", q, TRUE)>> \o Rest(t)]
    /\ UNCHANGED <<references, inits, registry, backend, lifecycle, retiredOK>>

\* A call that only pinned the queue returns.
Unpin(t) ==
    /\ At(t, "unpin")
    /\ Drop(t, registry, Rest(t))
    /\ UNCHANGED <<references, inits, registry, queue, backend, lifecycle, reported, retiredOK>>

\* hsa_amd_profiling_set_profiler_enabled: only before the first doorbell of a hardware queue.
SetProfilerEnabled(t) ==
    /\ At(t, "profile")
    /\ LET q == Top(t).q
       IN  queue' = [queue EXCEPT ![q].profiled =
                        IF queue[q].active /\ ~queue[q].err /\ (queue[q].soft \/ (queue[q].handle /\ ~queue[q].kicked))
                        THEN ~@ ELSE @]
    /\ Drop(t, registry, Rest(t))
    /\ UNCHANGED <<references, inits, registry, backend, lifecycle, reported, retiredOK>>

\* hsa_queue_destroy, first part: take the queue out of service.
DestroyInactivate(t) ==
    /\ At(t, "d_inactivate")
    /\ \E done \in BOOLEAN :
          /\ Inactivate(Top(t).q, done)
          /\ IF done THEN Goto(t, Frame("d_erase", Top(t).q, TRUE)) ELSE Drop(t, registry, Rest(t))
    /\ UNCHANGED <<references, inits, registry, lifecycle, reported, retiredOK>>

\* Second part, under runtimeMutex: of two destroyers one erases the entry, the other is told so.
DestroyErase(t) ==
    /\ At(t, "d_erase")
    /\ registry' = registry \ {Top(t).q}
    /\ IF Top(t).q \in registry THEN Goto(t, Frame("d_stop", Top(t).q, TRUE)) ELSE Drop(t, registry, Rest(t))
    /\ UNCHANGED <<references, inits, queue, backend, lifecycle, reported, retiredOK>>

\* The service has been stopped: hsa_queue_destroy returns success.
Confirmed(t, q) == retiredOK' = IF t = q THEN retiredOK ELSE retiredOK \union {q}

\* Third part: stop the service thread.
DestroyStop(t) ==
    /\ At(t, "d_stop")
    /\ LET q == Top(t).q
       IN  StopService(t, q, Goto(t, Frame("d_join", q, TRUE)) /\ UNCHANGED retiredOK,
                             Drop(t, registry, Rest(t)) /\ Confirmed(t, q))
    /\ UNCHANGED <<references, inits, registry, backend, lifecycle, reported>>

DestroyJoin(t) ==
    /\ At(t, "d_join")
    /\ stack[Top(t).q] = <<>>
    /\ Drop(t, registry, Rest(t))
    /\ Confirmed(t, Top(t).q)
    /\ UNCHANGED <<references, inits, registry, queue, backend, lifecycle, reported>>

\* hsa_queue_inactivate.
QueueInactivate(t) ==
    /\ At(t, "inactivate")
    /\ \E done \in BOOLEAN : Inactivate(Top(t).q, done)
    /\ Drop(t, registry, Rest(t))
    /\ UNCHANGED <<references, inits, registry, lifecycle, reported, retiredOK>>

-----------------------------------------------------------------------------
(* The destructor                                                          *)

DtorStop(t) ==
    /\ At(t, "x_stop")
    /\ LET q == Top(t).q
       IN  StopService(t, q, Goto(t, Frame("x_join", q, FALSE)), Goto(t, Frame("x_free", q, FALSE)))
    /\ UNCHANGED <<references, inits, registry, backend, lifecycle, reported, retiredOK>>

DtorJoin(t) ==
    /\ At(t, "x_join")
    /\ stack[Top(t).q] = <<>>
    /\ Goto(t, Frame("x_free", Top(t).q, FALSE))
    /\ UNCHANGED <<references, inits, registry, queue, backend, lifecycle, reported, retiredOK>>

\* Mutant: ring and metadata are freed although the driver could not unmap the queue.
DtorFreeAlways(t) ==
    /\ At(t, "x_free")
    /\ LET q == Top(t).q
       IN  \E done \in BOOLEAN :
              /\ done \/ (queue[q].active /\ queue[q].handle)
              /\ backend' = IF done /\ queue[q].active /\ queue[q].handle THEN [backend EXCEPT ![q] = "destroyed"] ELSE backend
              /\ queue' = [queue EXCEPT ![q].st = "gone", ![q].handle = @ /\ ~done,
                                        ![q].active = @ /\ ~done, ![q].backing = "freed"]
    /\ stack' = [stack EXCEPT ![t] = Tail(@)]
    /\ UNCHANGED <<references, inits, registry, lifecycle, reported, retiredOK>>

\* ~RuntimeQueue: a hardware queue the driver cannot unmap keeps its ring and metadata until reset.
DtorFree(t) ==
    /\ At(t, "x_free")
    /\ LET q == Top(t).q
       IN  \E done \in BOOLEAN :
              /\ done \/ (queue[q].active /\ queue[q].handle)
              /\ backend' = IF done /\ queue[q].active /\ queue[q].handle THEN [backend EXCEPT ![q] = "destroyed"] ELSE backend
              /\ queue' = [queue EXCEPT ![q].st = "gone", ![q].handle = @ /\ ~done, ![q].active = @ /\ ~done,
                                        ![q].backing = IF done THEN "freed" ELSE "retained"]
    /\ stack' = [stack EXCEPT ![t] = Tail(@)]
    /\ UNCHANGED <<references, inits, registry, lifecycle, reported, retiredOK>>

-----------------------------------------------------------------------------

\* What an application thread may call at any time, and an error callback too.
Call(t) ==
    \/ HsaInit(t) \/ HsaShutDown(t)
    \/ \E q \in Queues :
          \/ QueueCreate(t, q)
          \/ SoftQueueCreate(t, q)
          \/ /\ \E at \in {"ring", "profile", "unpin", "d_inactivate", "inactivate"} :
                   (at = "ring" => ~queue[q].soft) /\ Pin(t, q, at)
             /\ UNCHANGED <<references, inits, registry, queue, backend, lifecycle, reported, retiredOK>>

\* The next step of the code a thread is in.
ThreadStep(t) ==
    \/ ShutDownStop(t) \/ ShutDownJoin(t) \/ ShutDownClear(t)
    \/ StartService(t) \/ StartServiceFails(t) \/ QueueCreateReturns(t) \/ LifecycleUnlock(t)
    \/ Ring(t) \/ SetProfilerEnabled(t) \/ Unpin(t)
    \/ DestroyInactivate(t) \/ DestroyErase(t) \/ DestroyStop(t) \/ DestroyJoin(t)
    \/ QueueInactivate(t)
    \/ DtorStop(t) \/ DtorJoin(t) \/ DtorFree(t)

ServiceStep(q) == ServiceLoop(q) \/ Service(q) \/ Notify(q) \/ ServiceRelease(q)

QueuesNext ==
    \/ \E t \in Threads : Call(t) \/ ThreadStep(t) \/ CallbackReturns(t)
    \/ \E q \in Queues : ServiceStep(q)

\* Threads are scheduled: a thread that is inside the runtime keeps running.  Nobody has to make
\* another call; a callback may make any number, but has to return some time.
QueuesFairness ==
    /\ \A t \in Threads : WF_queueVars(ThreadStep(t)) /\ SF_queueVars(CallbackReturns(t))
    /\ \A q \in Queues : WF_queueVars(ServiceStep(q))

QueuesSpec == QueuesInit /\ [][QueuesNext]_queueVars

-----------------------------------------------------------------------------
(* Properties                                                              *)

\* A queue's error callback is made at most once, whether the service thread finds the fault or a
\* producer's doorbell does (errorDelivered in queues.cpp:19), however the two race.
ErrorReportedOnce == \A q \in Queues : reported[q] <= 1

\* Ring and metadata are returned to the driver only when its queue no longer runs and no thread
\* still holds the object (queues.cpp:101-107: "driver retains backing until reset").
RingOutlivesQueue ==
    \A q \in Queues : queue[q].backing = "freed" =>
        /\ backend[q] # "running"
        /\ q \notin registry
        /\ ~Held(stack, q)

\* When hsa_queue_destroy or hsa_shut_down has returned success to a thread other than the queue's
\* own service thread, that service thread has ended: it makes no further driver call or callback.
QuietAfterDestroy == \A q \in retiredOK : stack[q] = <<>>

\* Destruction is safe for the driver's side and for the application's: the ring outlives the
\* hardware queue, and a confirmed destruction is the end of callbacks.
DestroyedQueuesSafe == QueuesTypeOK /\ RingOutlivesQueue /\ QuietAfterDestroy

\* The service thread of q is inside a call that joins the service thread of r.
Joins(q, r) == stack[q] # <<>> /\ Top(q).at \in {"s_join", "d_join", "x_join"} /\ Top(q).q = r

\* Error callbacks of several queues have destroyed one another's queues, directly or by shutting
\* down: their service threads join each other in a circle.
JoinCycle == \E S \in SUBSET Queues \ {{}} : \A q \in S : \E r \in S \ {q} : Joins(q, r)

\* Every call into the runtime returns, and the service thread of a queue that was destroyed or
\* retired ends, unless service threads join each other in a circle, which queues.cpp does not
\* prevent.  No thread joins itself and no other wait is for ever, whatever the callbacks call.
RuntimeCallsReturn ==
    \/ <>JoinCycle
    \/ /\ \A u \in Users : []<>(stack[u] = <<>>)
       /\ \A q \in Queues : []<>(q \notin registry => stack[q] = <<>>)

====
