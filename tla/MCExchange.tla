----------------------------- MODULE MCExchange -----------------------------
(* Instances of module Exchange for TLC: the sizes of the blocks. *)
EXTENDS ExchangeInv

AllBlocks(n) == [w \in Worker |-> [j \in Worker |-> n]]
OnePiece == AllBlocks(1)

\* Blocks of different sizes, as an uneven graph has.
UnevenBlocks == [w \in Worker |-> [j \in Worker |-> 1 + ((w + 2 * j) % 3)]]

=============================================================================
