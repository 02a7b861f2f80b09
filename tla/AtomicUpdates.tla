--------------------------- MODULE AtomicUpdates ---------------------------
(***************************************************************************)
(* What the GPU-backed signal path promises to its callers (the comment on *)
(* GPUSignalService in hsa/src/gpu_signal_service.h): a call is a batch of *)
(* atomic updates of one signal.  Each update takes effect at most once,   *)
(* in order, between the call and its return; a successful call returns    *)
(* exactly the old values.  A failed call ends the context: what was not   *)
(* applied may still be applied once, and no later call is accepted.       *)
(***************************************************************************)
EXTENDS Naturals, Sequences

CONSTANTS
    Signals,    \* slots of the signal arena
    Values,     \* values of a signal
    Ops,        \* update operations (operation, operand, compare)
    Effect,     \* Effect[op][v]: the value op leaves where it found v
    MaxBatch,   \* MAC_MAILBOX_CAPACITY
    NoCall      \* no call was ever accepted or the last one returned

VARIABLES
    value,      \* the signals
    call,       \* the batch being executed, or the failed one
    olds,       \* old values of its updates that took effect
    reply,      \* what the last call returned
    dead        \* a call failed

vars == <<value, call, olds, reply, dead>>

Batches == UNION {[1..n -> Ops] : n \in 1..MaxBatch}
Calls == [signal : Signals, batch : Batches]
Failed == [ok |-> FALSE]
Success(vs) == [ok |-> TRUE, olds |-> vs]

Init ==
    /\ value \in [Signals -> Values]
    /\ call = NoCall /\ olds = << >>
    /\ reply = Failed /\ dead = FALSE

Invoke(c) ==
    /\ call = NoCall /\ ~dead
    /\ call' = c /\ olds' = << >>
    /\ UNCHANGED <<value, reply, dead>>

\* The next update of the batch takes effect.
Apply ==
    /\ call # NoCall /\ Len(olds) < Len(call.batch)
    /\ LET v == value[call.signal] IN
         /\ value' = [value EXCEPT ![call.signal] =
                                      Effect[call.batch[Len(olds) + 1]][v]]
         /\ olds' = Append(olds, v)
    /\ UNCHANGED <<call, reply, dead>>

Return ==
    /\ call # NoCall /\ ~dead
    /\ Len(olds) = Len(call.batch)
    /\ reply' = Success(olds)
    /\ call' = NoCall
    /\ UNCHANGED <<value, olds, dead>>

\* The call is abandoned, or the path fails between calls.
Fail ==
    /\ ~dead
    /\ dead' = TRUE /\ reply' = Failed
    /\ UNCHANGED <<value, call, olds>>

Next == (\E c \in Calls : Invoke(c)) \/ Apply \/ Return \/ Fail

Spec == Init /\ [][Next]_vars
=============================================================================
