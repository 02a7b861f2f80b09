-------------------------- MODULE MCSignalMailbox --------------------------
(***************************************************************************)
(* SignalMailbox with two-bit words and two of the kernel's operations: an *)
(* increment that wraps and a compare-and-swap that may miss.              *)
(***************************************************************************)
EXTENDS SignalMailbox

Kernels == INSTANCE SignalOperations WITH Width <- 2

MCOps == {[code |-> 2, operand |-> 1, compare |-> 0],
          [code |-> 8, operand |-> 3, compare |-> 0]}
MCEffect == [op \in MCOps |-> [v \in Kernels!Words |->
                Kernels!NewWord(op.code, op.operand, op.compare, v)]]
=============================================================================
