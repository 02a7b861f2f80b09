------------------------------- MODULE SQSlot -------------------------------
(***************************************************************************)
(* The shared SQ busy-cycle slot (MacAMDGPU.cpp): a workload process       *)
(* registers a buffer of its own, its profiler publishes samples there,    *)
(* and observers read them through the driver.  RPCs are serialized; the   *)
(* profiler (external) stores words while an observer's RPC loads them.    *)
(*                                                                         *)
(* A buffer holds [seq, busy, ref, clock]; sample n has n in each of its   *)
(* payload words.  A buffer's words live as long as its buffer object.     *)
(***************************************************************************)
EXTENDS Naturals

CONSTANTS Workloads,   \* user clients that may register a slot
          MaxSamples   \* bound on samples published per buffer

ASSUME SQAssumption == "none" \notin Workloads /\ MaxSamples \in Nat

VARIABLES sqSlot,    \* the driver's slot: owner and the buffer it points at
          bo,        \* client -> its buffer object: "none", "live"
          sample,    \* client -> the words of its buffer
          profiler,  \* client -> what its profiler stores next
          observer   \* the observer's ReadSqSlot

sqVars == <<sqSlot, bo, sample, profiler, observer>>

EmptySlot == [owner |-> "none", buffer |-> "none"]
NoSample == [seq |-> 0, busy |-> 0, ref |-> 0, clock |-> 0]
NotReading == [at |-> "idle", seq0 |-> 0, seq1 |-> 0, busy |-> 0, ref |-> 0, clock |-> 0, status |-> "none"]

SQInit ==
    /\ sqSlot = EmptySlot /\ observer = NotReading
    /\ bo = [c \in Workloads |-> "none"]
    /\ sample = [c \in Workloads |-> NoSample]
    /\ profiler = [c \in Workloads |-> "idle"]

QueueFree == observer.at = "idle"

-----------------------------------------------------------------------------
(* RPCs                                                                    *)

AllocateBO(c) ==
    /\ QueueFree /\ bo[c] = "none"
    /\ bo' = [bo EXCEPT ![c] = "live"] /\ sample' = [sample EXCEPT ![c] = NoSample]
    /\ UNCHANGED <<sqSlot, profiler, observer>>

\* RegisterSqSlot: refused while another client's slot is live.
RegisterSqSlot(c) ==
    /\ QueueFree /\ bo[c] = "live" /\ sqSlot.owner \in {"none", c}
    /\ sqSlot' = [owner |-> c, buffer |-> c]
    /\ UNCHANGED <<bo, sample, profiler, observer>>

\* BOFree of the buffer, and the client's Stop: both forget the slot.
ReleaseBO(c) ==
    /\ QueueFree /\ bo[c] = "live"
    /\ bo' = [bo EXCEPT ![c] = "none"] /\ profiler' = [profiler EXCEPT ![c] = "idle"]
    /\ sqSlot' = IF sqSlot.owner = c THEN EmptySlot ELSE sqSlot
    /\ UNCHANGED <<sample, observer>>

-----------------------------------------------------------------------------
(* ReadSqSlot                                                              *)

Answer(status) == [NotReading EXCEPT !.status = status]

\* No slot, or one whose buffer is gone (it is forgotten): "no source".  Otherwise the first load.
ReadBegin ==
    /\ QueueFree
    /\ LET current == sqSlot.buffer # "none" /\ bo[sqSlot.owner] = "live"
       IN  /\ sqSlot' = IF current THEN sqSlot ELSE EmptySlot
           /\ observer' = IF current
                 THEN [NotReading EXCEPT !.at = "busy", !.seq0 = sample[sqSlot.buffer].seq]
                 ELSE Answer("unsupported")
    /\ UNCHANGED <<bo, sample, profiler>>

\* The three words of the payload, one load after the other.
ReadPayload ==
    /\ LET s == sample[sqSlot.buffer]
       IN  \/ observer.at = "busy" /\ observer' = [observer EXCEPT !.at = "ref", !.busy = s.busy]
           \/ observer.at = "ref" /\ observer' = [observer EXCEPT !.at = "clock", !.ref = s.ref]
           \/ observer.at = "clock" /\ observer' = [observer EXCEPT !.at = "seq1", !.clock = s.clock]
    /\ UNCHANGED <<sqSlot, bo, sample, profiler>>

\* Mutant: only the first sequence word is looked at.
ReadEndOnce ==
    /\ observer.at = "seq1"
    /\ observer' = IF observer.seq0 = 0 \/ observer.seq0 % 2 = 1 THEN Answer("notReady")
                   ELSE [observer EXCEPT !.at = "idle", !.seq1 = observer.seq0, !.status = "success"]
    /\ UNCHANGED <<sqSlot, bo, sample, profiler>>

\* The sequence word again: a sample under way, or one that changed, is "not ready".
ReadEnd ==
    /\ observer.at = "seq1"
    /\ LET seq1 == sample[sqSlot.buffer].seq
       IN  observer' = IF observer.seq0 = 0 \/ observer.seq0 % 2 = 1 \/ observer.seq0 # seq1
                           THEN Answer("notReady")
                           ELSE [observer EXCEPT !.at = "idle", !.seq1 = seq1, !.status = "success"]
    /\ UNCHANGED <<sqSlot, bo, sample, profiler>>

-----------------------------------------------------------------------------
(* The profiler (external)                                                 *)

\* Odd sequence, the three words, even sequence.
Publish(c) ==
    /\ bo[c] = "live"
    /\ LET n == (sample[c].seq + 1) \div 2
       IN  \/ /\ profiler[c] = "idle" /\ n < MaxSamples
              /\ sample' = [sample EXCEPT ![c].seq = @ + 1]
              /\ profiler' = [profiler EXCEPT ![c] = "busy"]
           \/ /\ profiler[c] = "busy"
              /\ sample' = [sample EXCEPT ![c].busy = n] /\ profiler' = [profiler EXCEPT ![c] = "ref"]
           \/ /\ profiler[c] = "ref"
              /\ sample' = [sample EXCEPT ![c].ref = n] /\ profiler' = [profiler EXCEPT ![c] = "clock"]
           \/ /\ profiler[c] = "clock"
              /\ sample' = [sample EXCEPT ![c].clock = n] /\ profiler' = [profiler EXCEPT ![c] = "even"]
           \/ /\ profiler[c] = "even"
              /\ sample' = [sample EXCEPT ![c].seq = @ + 1]
              /\ profiler' = [profiler EXCEPT ![c] = "idle"]
    /\ UNCHANGED <<sqSlot, bo, observer>>

SQNext ==
    \/ \E c \in Workloads : AllocateBO(c) \/ RegisterSqSlot(c) \/ ReleaseBO(c) \/ Publish(c)
    \/ ReadBegin \/ ReadPayload \/ ReadEnd

SQSpec == SQInit /\ [][SQNext]_sqVars

-----------------------------------------------------------------------------
(* Properties                                                              *)

\* ReadSqSlot never returns a torn sample: what it answers with success is one publication,
\* though the profiler stores words between any two of its loads; and the slot never outlives the
\* buffer it points at, whichever of free, stop and re-registration comes first.
SampleNotTorn ==
    /\ observer.status = "success" =>
           LET n == observer.seq1 \div 2
           IN  n > 0 /\ observer.busy = n /\ observer.ref = n /\ observer.clock = n
    /\ sqSlot.owner # "none" => bo[sqSlot.owner] = "live"

=============================================================================
