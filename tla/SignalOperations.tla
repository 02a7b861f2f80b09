-------------------------- MODULE SignalOperations --------------------------
(***************************************************************************)
(* The nine signal operations of the service kernel                        *)
(* (hsa/src/signal_mailbox_service.cl), on words of Width bits.            *)
(***************************************************************************)
EXTENDS Integers, Bitwise

CONSTANT Width          \* 64 in the code

Words == 0 .. 2^Width - 1

\* The word left behind by operation code with operand and compare; every
\* operation returns the word it found.
NewWord(code, operand, compare, word) ==
    CASE code \in {1, 7} -> operand
      [] code = 2 -> (word + operand) % 2^Width
      [] code = 3 -> (word - operand) % 2^Width
      [] code = 4 -> word & operand
      [] code = 5 -> word | operand
      [] code = 6 -> word ^^ operand
      [] code = 8 -> IF word = compare THEN operand ELSE word
      [] code = 9 -> word
=============================================================================
