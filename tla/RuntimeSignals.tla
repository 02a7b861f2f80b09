--------------------------- MODULE RuntimeSignals --------------------------
(***************************************************************************)
(* GPU-backed HSA signals: hsa_signal_create, _destroy, the atomic         *)
(* operations and the waits of hsa/src/runtime.cpp and signal_state.h, and *)
(* the GPUSignalContext of hsa/src/gpu_signals.cpp that owns the slots of  *)
(* one connection.  A context fails as a whole: when the GPU executor, the *)
(* mailbox service or a queue of the connection fails, every signal of it  *)
(* must die so that nobody waits for a value that will not come.           *)
(*                                                                         *)
(* Sections under runtimeMutex, contextsMutex and slotsMutex are one step. *)
(* operationsMutex is a variable: it is held across driver calls and while *)
(* fail() runs.  What the executor computes is SignalMailbox's subject;    *)
(* here an operation changes the value, fails, or finds the context dead.  *)
(***************************************************************************)
EXTENDS Naturals, FiniteSets

CONSTANTS Clients,   \* application threads and queue service threads
          Signals,   \* signal objects, each created at most once
          Contexts,  \* contexts the connection may go through, 1 .. n
          Slots      \* slots of a context, 1 .. n (256 in the code)

ASSUME SignalsAssumption ==
    /\ IsFiniteSet(Signals) /\ "nobody" \notin Signals \cup Clients
    /\ Contexts \subseteq Nat \ {0} /\ Slots \subseteq Nat

VARIABLES table,    \* the global map `signals`
          signal,   \* each Signal object
          context,  \* each GPUSignalContext
          opLock,   \* holder of a context's operationsMutex, or Nobody
          client    \* what each thread is doing

signalVars == <<table, signal, context, opLock, client>>

Nobody == "nobody"
NoCtx == 0

Unmade == [st |-> "unborn", alive |-> TRUE, ctx |-> NoCtx, slot |-> 0, value |-> 1]
IdleClient == [at |-> "idle", sig |-> Nobody, ctx |-> NoCtx, hold |-> {}]

SignalsInit ==
    /\ table = {}
    /\ signal = [s \in Signals |-> Unmade]
    /\ context = [c \in Contexts |-> [st |-> "unborn", faulted |-> FALSE, used |-> {}, published |-> {}]]
    /\ opLock = [c \in Contexts |-> Nobody]
    /\ client = [t \in Clients |-> IdleClient]

\* A shared_ptr to s: the map, a call on it, or fail()'s array of affected signals.
PinnedBy(tab, cl, s) == s \in tab \/ \E t \in Clients : cl[t].sig = s \/ s \in cl[t].hold

\* Signals whose last reference disappears in this step: ~SignalSlot returns the slot and withdraws
\* the weak reference under slotsMutex; a context without signals is destroyed with its buffers.
Settle(tab, cl, sg, cx) ==
    LET dying == {s \in Signals : sg[s].st = "made" /\ ~PinnedBy(tab, cl, s)}
        sg2 == [s \in Signals |-> IF s \in dying THEN [sg[s] EXCEPT !.st = "gone"] ELSE sg[s]]
        cx2 == [c \in Contexts |-> [cx[c] EXCEPT
                   !.used = @ \ {sg[s].slot : s \in {d \in dying : sg[d].ctx = c}},
                   !.published = @ \ dying]]
        kept(c) == \/ \E s \in Signals : sg2[s].st = "made" /\ sg2[s].ctx = c
                   \/ \E t \in Clients : cl[t].ctx = c
    IN  /\ table' = tab
        /\ client' = cl
        /\ signal' = sg2
        /\ context' = [c \in Contexts |->
              IF cx[c].st = "live" /\ ~kept(c) THEN [cx2[c] EXCEPT !.st = "gone"] ELSE cx2[c]]

Become(t, r) == [client EXCEPT ![t] = r]

-----------------------------------------------------------------------------
(* Creation                                                                *)

\* The connection's context: the live one, or a new one, which initialize() may fail to set up.
SignalCreate(t, s) ==
    /\ client[t].at = "idle" /\ signal[s].st = "unborn"
    /\ \A other \in Clients : client[other].at \notin {"slot", "publish", "register"}  \* executableLifecycleMutex
    /\ LET live  == {c \in Contexts : context[c].st = "live"}
           fresh == {c \in Contexts : context[c].st = "unborn" /\ \A d \in Contexts : d < c => context[d].st # "unborn"}
       IN  \E c \in IF live # {} THEN live ELSE fresh :
             /\ context' = [context EXCEPT ![c].st = "live"]
             /\ client' = Become(t, [IdleClient EXCEPT !.at = "slot", !.sig = s, !.ctx = c])
    /\ UNCHANGED <<table, signal, opLock>>

\* Claim the first free slot; a faulted or full context refuses.
ClaimSlot(t) ==
    /\ client[t].at = "slot"
    /\ LET c    == client[t].ctx
           s    == client[t].sig
           free == Slots \ context[c].used
           slot == CHOOSE i \in free : \A j \in free : i <= j
       IN  IF context[c].faulted \/ free = {}
           THEN Settle(table, Become(t, IdleClient), signal, context)
           ELSE Settle(table, Become(t, [client[t] EXCEPT !.at = "publish"]),
                       [signal EXCEPT ![s].st = "made", ![s].ctx = c, ![s].slot = slot],
                       [context EXCEPT ![c].used = @ \union {slot}])
    /\ UNCHANGED opLock

\* Mutant: publication does not look at the fault again.
PublishUnchecked(t) ==
    /\ client[t].at = "publish"
    /\ LET c == client[t].ctx
           s == client[t].sig
       IN  Settle(table, Become(t, [client[t] EXCEPT !.at = "register", !.ctx = NoCtx]), signal,
                  [context EXCEPT ![c].published = @ \union {s}])
    /\ UNCHANGED opLock

\* Publish the weak reference, unless the context failed since the slot was claimed.
Publish(t) ==
    /\ client[t].at = "publish"
    /\ LET c == client[t].ctx
           s == client[t].sig
       IN  IF context[c].faulted
           THEN Settle(table, Become(t, IdleClient), [signal EXCEPT ![s].alive = FALSE], context)
           ELSE Settle(table, Become(t, [client[t] EXCEPT !.at = "register", !.ctx = NoCtx]), signal,
                       [context EXCEPT ![c].published = @ \union {s}])
    /\ UNCHANGED opLock

\* Under runtimeMutex the handle becomes public.
Register(t) ==
    /\ client[t].at = "register"
    /\ Settle(table \union {client[t].sig}, Become(t, IdleClient), signal, context)
    /\ UNCHANGED opLock

\* hsa_signal_destroy; hsa_shut_down does this to every signal at once.
SignalDestroy(t, doomed) ==
    /\ client[t].at = "idle"
    /\ doomed # {} /\ doomed \subseteq table
    /\ Settle(table \ doomed, client,
              [s \in Signals |-> IF s \in doomed THEN [signal[s] EXCEPT !.alive = FALSE] ELSE signal[s]], context)
    /\ UNCHANGED opLock

-----------------------------------------------------------------------------
(* Operations                                                              *)

\* findSignal for an atomic operation or a wait.
Begin(t, s, at) ==
    /\ client[t].at = "idle" /\ s \in table
    /\ client' = Become(t, [IdleClient EXCEPT !.at = at, !.sig = s])
    /\ UNCHANGED <<table, signal, context, opLock>>

\* AtomicValue::gpu: a dead signal is refused, else the executor is entered under operationsMutex.
Enter(t) ==
    /\ client[t].at = "operate"
    /\ LET s == client[t].sig
       IN  \/ /\ ~signal[s].alive
              /\ Settle(table, Become(t, IdleClient), signal, context)
              /\ UNCHANGED opLock
           \/ /\ signal[s].alive /\ opLock[signal[s].ctx] = Nobody
              /\ opLock' = [opLock EXCEPT ![signal[s].ctx] = t]
              /\ client' = Become(t, [client[t] EXCEPT !.at = "execute", !.ctx = signal[s].ctx])
              /\ UNCHANGED <<table, signal, context>>

\* GPUSignalContext::execute: refuse when faulted, run the operation, or fail the context.
Execute(t) ==
    /\ client[t].at = "execute"
    /\ LET s == client[t].sig
           c == client[t].ctx
           free == [opLock EXCEPT ![c] = Nobody]
       IN  \/ /\ context[c].faulted
              /\ opLock' = free
              /\ Settle(table, Become(t, IdleClient), [signal EXCEPT ![s].alive = FALSE], context)
           \/ /\ ~context[c].faulted
              /\ opLock' = free
              /\ \E v \in {0, 1} : Settle(table, Become(t, IdleClient), [signal EXCEPT ![s].value = v], context)
           \/ /\ ~context[c].faulted
              /\ client' = Become(t, [client[t] EXCEPT !.at = "fail"])
              /\ UNCHANGED <<table, signal, context, opLock>>

\* reclaimGPUSignalService for hsa_queue_create: takes operationsMutex, fails the context when the
\* mailbox service cannot be retired, else keeps the lease until the queue has been created.
Reclaim(t) ==
    /\ client[t].at = "idle"
    /\ \E c \in Contexts :
          /\ context[c].st = "live" /\ opLock[c] = Nobody
          /\ opLock' = [opLock EXCEPT ![c] = t]
          /\ \E at \in {"lease", "fail"} : client' = Become(t, [IdleClient EXCEPT !.at = at, !.ctx = c])
    /\ UNCHANGED <<table, signal, context>>

EndLease(t) ==
    /\ client[t].at = "lease"
    /\ opLock' = [opLock EXCEPT ![client[t].ctx] = Nobody]
    /\ Settle(table, Become(t, IdleClient), signal, context)

\* invalidateGPUSignals: a queue of the connection has failed.  operationsMutex is not taken.
Invalidate(t) ==
    /\ client[t].at = "idle"
    /\ \E c \in Contexts :
          /\ context[c].st = "live"
          /\ client' = Become(t, [IdleClient EXCEPT !.at = "fail", !.ctx = c])
    /\ UNCHANGED <<table, signal, context, opLock>>

\* fail(), under slotsMutex: latch the fault and take strong references to the published signals.
Fail(t) ==
    /\ client[t].at = "fail"
    /\ LET c == client[t].ctx
       IN  /\ context' = [context EXCEPT ![c].faulted = TRUE]
           /\ client' = Become(t, [client[t] EXCEPT !.at = "kill", !.hold =
                {s \in context[c].published : PinnedBy(table, client, s)}])
    /\ UNCHANGED <<table, signal, opLock>>

\* Outside slotsMutex: kill them, then drop the references, possibly the last ones.
Kill(t) ==
    /\ client[t].at = "kill"
    /\ LET c    == client[t].ctx
           s    == client[t].sig
           dead == [x \in Signals |->
                      IF x \in client[t].hold \/ x = s THEN [signal[x] EXCEPT !.alive = FALSE] ELSE signal[x]]
       IN  /\ Settle(table, Become(t, IdleClient), dead, context)
           /\ opLock' = [opLock EXCEPT ![c] = IF @ = t THEN Nobody ELSE @]

-----------------------------------------------------------------------------
(* Waiting                                                                 *)

\* Mutant: the loop tests the value and the timeout only.
WaitReturnsValueOnly(t) ==
    /\ client[t].at = "wait"
    /\ signal[client[t].sig].value = 0
    /\ Settle(table, Become(t, IdleClient), signal, context)
    /\ UNCHANGED opLock

\* waitSignal returns: the condition holds, or the signal is dead.
WaitReturns(t) ==
    /\ client[t].at = "wait"
    /\ signal[client[t].sig].value = 0 \/ ~signal[client[t].sig].alive
    /\ Settle(table, Become(t, IdleClient), signal, context)
    /\ UNCHANGED opLock

\* A poll of the wait (signal_state.h:52-57): load() notices an unhealthy context and marks the
\* signal dead.
Poll(t) ==
    /\ client[t].at = "wait"
    /\ LET s == client[t].sig
       IN  /\ signal[s].alive /\ context[signal[s].ctx].faulted
           /\ signal' = [signal EXCEPT ![s].alive = FALSE]
    /\ UNCHANGED <<table, context, opLock, client>>

\* The packet processor's own decrement of a completion signal.
GPUWrites(s) ==
    /\ signal[s].st = "made" /\ s \in table /\ signal[s].value # 0
    /\ signal' = [signal EXCEPT ![s].value = 0]
    /\ UNCHANGED <<table, context, opLock, client>>

-----------------------------------------------------------------------------

ClientStep(t) ==
    \/ ClaimSlot(t) \/ Publish(t) \/ Register(t)
    \/ Enter(t) \/ Execute(t) \/ EndLease(t)
    \/ Fail(t) \/ Kill(t)
    \/ WaitReturns(t) \/ Poll(t)

ClientCall(t) ==
    \/ \E s \in Signals : SignalCreate(t, s) \/ \E at \in {"operate", "wait"} : Begin(t, s, at)
    \/ \E doomed \in {{s} : s \in table} \union {table} : SignalDestroy(t, doomed)
    \/ Reclaim(t) \/ Invalidate(t)

SignalsNext ==
    \/ \E t \in Clients : ClientStep(t) \/ ClientCall(t)
    \/ \E s \in Signals : GPUWrites(s)

SignalsSpec == SignalsInit /\ [][SignalsNext]_signalVars

\* Threads inside the runtime are scheduled, a blocked wait polls every 32 us;
\* nobody has to call.
SignalsFairness == \A t \in Clients : WF_signalVars(ClientStep(t))

-----------------------------------------------------------------------------
(* Properties                                                              *)

\* When a context has failed and no fail() is still delivering, every signal that was published in
\* it is dead, whatever the order of creation, publication and failure (gpu_signals.cpp:63-76,
\* 179-183).  A signal missed here would let an operation be accepted on a dead executor.  And no two
\* signals share a slot, and no slot is lost, when a creation is refused, a signal is destroyed under
\* a waiter, or fail() drops the last reference.
FaultKillsSignals ==
    \A c \in Contexts :
        LET owners == {s \in Signals : signal[s].st = "made" /\ signal[s].ctx = c}
        IN  /\ (context[c].faulted /\ \A t \in Clients : ~(client[t].at = "kill" /\ client[t].ctx = c)) =>
                   \A s \in Signals : (signal[s].ctx = c /\ s \in table) => ~signal[s].alive
            /\ context[c].used = {signal[s].slot : s \in owners}
            /\ Cardinality(owners) = Cardinality(context[c].used)
            /\ owners # {} => context[c].st = "live"

\* A wait without timeout ends once its signal has been destroyed or its context has failed, even if
\* no value ever arrives (signal_state.h:98-118).
WaitersReleased ==
    \A t \in Clients :
        []<>(client[t].at = "wait" =>
                LET s == signal[client[t].sig] IN s.alive /\ ~context[s.ctx].faulted)

====
