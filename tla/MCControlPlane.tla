--------------------------- MODULE MCControlPlane ---------------------------
(* Small instances of ControlPlane for TLC. *)
EXTENDS ControlPlane

CONSTANTS a1, a2, p1, d1, d2

(* Each workload brings together requests that touch the same state. *)
Load(kinds, n, paired, installed) ==
  [kinds |-> kinds, requests |-> n, paired |-> paired, installed |-> installed]
AllWorkloads ==
  {Load({"pairing", "lifecycle"}, 5, <<>>, {}),
   Load({"lifecycle", "printers", "heartbeats"}, 4, <<a1>>, {p1}),
   Load({"heartbeats"}, 3, <<a1, a2>>, {}),
   Load({"lifecycle", "connections"}, 3, <<a1>>, {}),
   Load({"connections", "peer loss"}, 2, <<a1>>, {}),
   Load({"connections", "messages"}, 3, <<a1>>, {}),
   Load({"connections", "time"}, 2, <<a1, a2>>, {}),
   Load({"notifications"}, 0, <<>>, {}),
   Load({"discovery"}, 6, <<a1>>, {}),
   Load({"discovery", "lifecycle"}, 4, <<a1>>, {}),
   Load({"sign-ins", "managers", "time"}, 0, <<>>, {}),
   Load({"sign-ins", "wrong passwords", "time"}, 0, <<>>, {})}

LifecycleWorkload == {Load({"lifecycle", "printers"}, 3, <<a1>>, {p1})}

(* Locks of 1 and 4 ticks, shorter and longer than the window of 2: the    *)
(* longer can outlast the window of the failures that set it.              *)
Locks == <<1, 4>>

(* d1 and d2 are seen at one network address. *)
Addresses == [d \in Devices |-> "endpoint"]

=============================================================================
