-------------------------- MODULE MCPrintProtocol --------------------------
(* Small instances of PrintProtocol for TLC. *)
EXTENDS PrintProtocol

T == INSTANCE TLC

CONSTANTS j1, j2, p1

OnePrinter == [j \in Jobs |-> p1]

(* The jobs go to one printer and nothing else tells them apart. *)
JobSymmetry == T!Permutations(Jobs)

=============================================================================
