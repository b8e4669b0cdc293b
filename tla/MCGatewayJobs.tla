--------------------------- MODULE MCGatewayJobs ---------------------------
(* Small instances of GatewayJobs for TLC. *)
EXTENDS GatewayJobs

CONSTANTS j1, j2, p1, p2

(* Which printer each job goes to. *)
OnePrinter == [j \in Jobs |-> p1]
TwoPrinters == [j \in Jobs |-> IF j = j1 THEN p1 ELSE p2]

=============================================================================
