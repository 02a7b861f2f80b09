------------------------------ MODULE MCQueues ------------------------------
(***************************************************************************)
(* Queues and signals of the runtime.  The two share no state in these     *)
(* models, so their product would only interleave independent steps:       *)
(* `focus` says which of them runs.  The other stays in its initial state, *)
(* in which none of its fair actions is enabled.                           *)
(*                                                                         *)
(* Queues run twice: one queue from the start with all threads, and all    *)
(* queues with one thread, for error callbacks that call into the runtime  *)
(* about one another.  The second begins where every queue has been        *)
(* created and had its doorbell rung, a state QueuesSpec reaches by one    *)
(* thread creating them in turn, with no fault yet.  What is left out is   *)
(* calls, of which none has to be made.                                    *)
(***************************************************************************)
EXTENDS RuntimeQueues, RuntimeSignals

CONSTANTS FirstQueue,  \* the queue that is created in the first case
          FirstUser    \* the thread that makes calls in the second

VARIABLE focus

mcVars == <<focus, queueVars, signalVars>>

\* A hardware queue in service.
InService == [Fresh EXCEPT !.st = "live", !.handle = TRUE, !.backing = "held", !.kicked = TRUE,
                           !.thread = "held"]

AllInService ==
    /\ references = MaxInits /\ inits = MaxInits
    /\ registry = Queues
    /\ queue = [q \in Queues |-> InService]
    /\ backend = [q \in Queues |-> "running"]
    /\ lifecycle = "free"
    /\ stack = [t \in Threads |-> IF t \in Queues THEN <<Frame("loop", t, FALSE)>> ELSE <<>>]
    /\ reported = [q \in Queues |-> 0]
    /\ retiredOK = {}

MCInit ==
    /\ focus \in {"queue", "queues", "signals"}
    /\ IF focus = "queues" THEN AllInService ELSE QueuesInit
    /\ SignalsInit

MCNext ==
    /\ UNCHANGED focus
    /\ \/ /\ focus = "queue" /\ QueuesNext /\ UNCHANGED signalVars
          /\ \A q \in Queues \ {FirstQueue} : queue'[q] = Fresh
       \/ /\ focus = "queues" /\ QueuesNext /\ UNCHANGED signalVars
          /\ \A u \in Users \ {FirstUser} : stack'[u] = <<>>
       \/ focus = "signals" /\ SignalsNext /\ UNCHANGED queueVars

MCSpec == MCInit /\ [][MCNext]_mcVars /\ QueuesFairness /\ SignalsFairness

=============================================================================
