---------------------------- MODULE PosPrinting ----------------------------
(***************************************************************************)
(* The clients of the outbox inside Odoo's web pages: the report           *)
(* interceptor (report_interceptor.js), receipts and kitchen tickets of    *)
(* the point of sale (pos_print_router.js), the sale details button        *)
(* (pos_sale_details_router.js), and the methods they call on the server   *)
(* (binding.py, print_router.py).                                          *)
(*                                                                         *)
(* A print action is taken over by the Gateway or left to Odoo's native    *)
(* printing; each of its calls may be answered, may fail, or may be given  *)
(* up by the client while the server goes on serving it.                   *)
(***************************************************************************)
EXTENDS Outbox

CONSTANTS
  Prints,       \* the print actions of the users, as numbers
  KindOf,       \* "report", "receipt", "kitchen" or "details"
  PrinterFor, DocumentFor,   \* what the binding of each action resolves to
  NoPrint,
  MaxTries,     \* bound: calls of one kitchen ticket
  MaxSwitches   \* bound: changes of the Gateway's configuration

ASSUME PosAssumption ==
  /\ Prints \subseteq Nat /\ MaxTries \in Nat \ {0} /\ NoPrint \notin Prints \X (1..MaxTries)
  /\ PrinterFor \in [Prints -> Printers] /\ DocumentFor \in [Prints -> Documents]

VARIABLES
  print,        \* each action, as its client sees it
  calls,        \* calls on their way to the server
  serving,      \* the call each web process serves
  gatewayOn,    \* the configuration is enabled (for a report: and a binding exists)
  switches

posVars == <<print, calls, serving, gatewayOn, switches>>

(* `ops` are the operations the server made or found for the action, and    *)
(* `retriedOff` says that a retry found the Gateway switched off.          *)
NotAsked == [step |-> "idle", try |-> 1, native |-> FALSE, ops |-> {}, retriedOff |-> FALSE]

PosInit ==
  /\ print = [k \in Prints |-> NotAsked]
  /\ calls = {} /\ serving = [s \in Web |-> NoPrint]
  /\ gatewayOn \in BOOLEAN /\ switches = 0

Step(k, step) == print' = [print EXCEPT ![k].step = step]
KeepServer == UNCHANGED <<calls, serving, gatewayOn, switches>> /\ UNCHANGED outboxVars

CallServer(k) ==
  /\ Step(k, "calling")
  /\ calls' = calls \cup {<<k, print[k].try>>}
  /\ UNCHANGED <<serving, gatewayOn, switches>> /\ UNCHANGED outboxVars

(* The user prints.  Only the interceptor asks nothing beforehand.          *)
StartPrint(k) ==
  /\ print[k].step = "idle"
  /\ \/ KindOf[k] = "report" /\ CallServer(k)
     \/ KindOf[k] # "report" /\ Step(k, "asking") /\ KeepServer

(* is_gateway_printing_enabled: off means native printing.  An error ends   *)
(* the action: in the receipt's try block with a message, in the others    *)
(* with an exception.                                                      *)
EnabledIsAnswered(k) ==
  /\ print[k].step = "asking"
  /\ \/ /\ ~gatewayOn
        /\ print' = [print EXCEPT ![k].step = "done", ![k].native = TRUE,
                                  ![k].retriedOff = print[k].try > 1]
        /\ KeepServer
     \/ gatewayOn /\ CallServer(k)
     \/ Step(k, "done") /\ KeepServer

(* An order without a server identifier: a receipt is refused, a kitchen   *)
(* ticket may be tried again.                                              *)
OrderUnknown(k) ==
  /\ print[k].step = "asking" /\ gatewayOn
  /\ \/ KindOf[k] = "receipt" /\ Step(k, "done")
     \/ KindOf[k] = "kitchen" /\ Step(k, "failed")
  /\ KeepServer

(* Slip: an error of the call is taken for "no binding". *)
StepAfterErrorNative(k) ==
  print' = [print EXCEPT ![k].step = IF KindOf[k] = "kitchen" THEN "failed" ELSE "done",
                         ![k].native = KindOf[k] = "report"]

(* What an error of the call does: the interceptor cancels the native      *)
(* dialog all the same, a kitchen ticket may be tried again.               *)
StepAfterError(k) ==
  Step(k, IF KindOf[k] = "kitchen" THEN "failed" ELSE "done")

(* The call fails or is given up, whatever the server makes of it.         *)
CallFails(k) ==
  /\ print[k].step = "calling"
  /\ StepAfterError(k)
  /\ KeepServer

(* Odoo's retry of a kitchen ticket: the same change, the same identifier, *)
(* beginning with the question whether the Gateway is enabled.             *)
RetryKitchen(k) ==
  /\ print[k].step = "failed"
  /\ print[k].try < MaxTries
  /\ print' = [print EXCEPT ![k].step = "asking", ![k].try = @ + 1]
  /\ KeepServer

(* An operator turns the Gateway on or off.                                *)
SwitchGateway ==
  /\ switches < MaxSwitches
  /\ gatewayOn' = ~gatewayOn /\ switches' = switches + 1
  /\ UNCHANGED <<print, calls, serving>> /\ UNCHANGED outboxVars

-----------------------------------------------------------------------------
(* The server                                                              *)

(* Only a kitchen ticket brings its own key: __gateway_print_id and the     *)
(* index of the receipt, made once per order change.                       *)
KeyFor(k) == IF KindOf[k] = "kitchen" THEN [kind |-> "kitchen", of |-> k, n |-> 0]
             ELSE Idem(Len(ops) + 1)

Waits(call) == print[call[1]].step = "calling" /\ print[call[1]].try = call[2]

(* The route is native, and nothing is printed here.  The interceptor then *)
(* leaves the report to Odoo; the others have no second way.               *)
ServeNative(call) ==
  /\ call \in calls /\ ~gatewayOn
  /\ calls' = calls \ {call}
  /\ print' = IF Waits(call)
              THEN [print EXCEPT ![call[1]].step = "done",
                                 ![call[1]].native = KindOf[call[1]] = "report"]
              ELSE print
  /\ UNCHANGED <<serving, gatewayOn, switches>> /\ UNCHANGED outboxVars

(* _submit_route: the operation is made durable, or found by its key.       *)
ServeRoute(s, call) ==
  /\ call \in calls /\ gatewayOn
  /\ serving[s] = NoPrint
  /\ Click(s, KeyFor(call[1]), PrinterFor[call[1]], DocumentFor[call[1]])
  /\ calls' = calls \ {call}
  /\ serving' = [serving EXCEPT ![s] = call]
  /\ print' = [print EXCEPT ![call[1]].ops = @ \cup {sub'[s].op}]
  /\ UNCHANGED <<gatewayOn, switches>>

(* No destination, no binding, a rendering that fails, or a key that is     *)
(* used for something else: nothing is stored.                             *)
ServeRaises(call) ==
  /\ call \in calls /\ gatewayOn
  /\ calls' = calls \ {call}
  /\ IF Waits(call) THEN StepAfterError(call[1]) ELSE UNCHANGED print
  /\ UNCHANGED <<serving, gatewayOn, switches>> /\ UNCHANGED outboxVars

(* The submission has ended.  It raised, or its status was returned: any   *)
(* status ends the action, the unknown one with a warning.                 *)
ServeAnswers(s) ==
  /\ serving[s] # NoPrint /\ sub[s] = Idle
  /\ serving' = [serving EXCEPT ![s] = NoPrint]
  /\ \/ Waits(serving[s]) /\ Step(serving[s][1], "done")
     \/ Waits(serving[s]) /\ StepAfterError(serving[s][1])
     \/ ~Waits(serving[s]) /\ UNCHANGED print
  /\ UNCHANGED <<calls, gatewayOn, switches>> /\ UNCHANGED outboxVars

-----------------------------------------------------------------------------
(* Properties                                                              *)

PosTypeOK ==
  /\ \A k \in Prints : /\ print[k].step \in {"idle", "asking", "calling", "failed", "done"}
                       /\ print[k].try \in 1..MaxTries
                       /\ print[k].ops \subseteq DOMAIN ops
  /\ calls \subseteq Prints \X (1..MaxTries)
  /\ \A s \in Web : serving[s] # NoPrint => serving[s] \in Prints \X (1..MaxTries)

(* A document leaves by one way: what the Gateway's outbox holds is never  *)
(* also printed natively, and a ticket whose call is repeated makes one     *)
(* operation, however calls are lost, late or repeated while the Gateway   *)
(* is switched on and off.  (The one exception the code has: a kitchen      *)
(* ticket whose first call failed is retried after the switch was turned.) *)
OneWayOut ==
  \A k \in Prints : /\ Cardinality(print[k].ops) <= 1
                    /\ print[k].native /\ print[k].ops # {} => print[k].retriedOff
=============================================================================
