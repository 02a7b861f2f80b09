--------------------------- MODULE MCDeviceEvents ---------------------------
(***************************************************************************)
(* Where a client waits for the GPU through the driver: interrupts and the *)
(* persistent AQL queues.  The two share no state in these models, so      *)
(* their product would only interleave independent steps: `focus` says     *)
(* which of them runs.  The other stays in its initial state, in which     *)
(* none of its fair actions is enabled.                                    *)
(***************************************************************************)
EXTENDS Interrupts, AQLQueues

VARIABLE focus

mcVars == <<focus, irqVars, aqlVars>>

MCInit == focus \in {"interrupts", "aql"} /\ InterruptsInit /\ AQLInit

MCNext ==
    /\ UNCHANGED focus
    /\ \/ focus = "interrupts" /\ InterruptsNext /\ UNCHANGED aqlVars
       \/ focus = "aql" /\ AQLNext /\ UNCHANGED irqVars

MCSpec == MCInit /\ [][MCNext]_mcVars /\ InterruptsFairness /\ AQLFairness

=============================================================================
