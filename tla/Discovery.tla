----------------------------- MODULE Discovery -----------------------------
(***************************************************************************)
(* Printer discovery: a manager starts a session for an agent, the agent   *)
(* reports the devices it found and ends the session, the manager approves *)
(* a device and provisions it into a printer.                              *)
(*                                                                         *)
(* Starting, cancelling and reporting check a row they read earlier, so    *)
(* each is two steps.  Provisioning is one transaction, but not one step:  *)
(* it locks the device's row, looks for a printer at the same endpoint,    *)
(* and inserts; two of them on different devices run side by side.         *)
(***************************************************************************)
EXTENDS Agents

CONSTANTS
  Sessions, Devices, Endpoints,
  EndpointOf,      \* ip and port a device reports; NoEndpoint for a spooler queue
  Transports,      \* devices whose protocol protocolMap knows (lpr is not mapped)
                   \* and that have the address and port it needs
  NoEndpoint, NoDevice, NoSession, Unlocked

ASSUME DiscoveryAssumption ==
  NoDevice \notin Devices /\ Transports \subseteq Devices /\ Unlocked \notin Workers

VARIABLES
  sessions,        \* discovery_sessions
  devices,         \* discovered_devices
  rowLock,         \* the provisioning transaction holding a device's row
  target,          \* the session or device a worker's discovery request is about
  origin           \* the device each provisioned printer was made from

discoveryVars == <<sessions, devices, rowLock, target, origin>>

SessionStates == {"none", "running", "completed", "partial", "failed", "cancelled"}
DeviceRow == [status: {"absent", "discovered", "verified", "provisioned"},
              agent: Agents, printer: Printers \union {NoPrinter}]
Target == [session: Sessions \union {NoSession}, device: Devices \union {NoDevice}]
NoTarget == [session |-> NoSession, device |-> NoDevice]
AbsentSession == [status |-> "none", agent |-> AnyAgent]
AbsentDevice == [status |-> "absent", agent |-> AnyAgent, printer |-> NoPrinter]

DiscoveryTypeOK ==
  /\ sessions \in [Sessions -> [status: SessionStates, agent: Agents]]
  /\ devices \in [Devices -> DeviceRow]
  /\ rowLock \in [Devices -> Workers \union {Unlocked}]
  /\ target \in [Workers -> Target]
  /\ origin \in [Printers -> Devices \union {NoDevice}]

DiscoveryInit ==
  /\ sessions = [s \in Sessions |-> AbsentSession]
  /\ devices = [d \in Devices |-> AbsentDevice]
  /\ rowLock = [d \in Devices |-> Unlocked]
  /\ target = [w \in Workers |-> NoTarget]
  /\ origin = [p \in Printers |-> NoDevice]

Discovering(w, what) == Doing(w, "discovery") /\ work[w].next = what
BeginDiscovery(w, a, what, t) ==
  /\ Begin(w, [Idle EXCEPT !.op = "discovery", !.agent = a, !.next = what])
  /\ target' = [target EXCEPT ![w] = t]
Finish(w) == Done(w) /\ target' = [target EXCEPT ![w] = NoTarget]
OnlyDiscovery == UNCHANGED <<agents, minted, exchanged, notices,
                             socketVars, listenerVars, limitVars>>

(* POST agents/[id]/discovery: the agent must be active and no session of  *)
(* its running ...                                                         *)
StartDiscovery(w, a, s) ==
  /\ agents[a].lifecycle = "active"
  /\ sessions[s].status = "none"
  /\ \A r \in Sessions : sessions[r] # [status |-> "running", agent |-> a]
  /\ BeginDiscovery(w, a, "start", [NoTarget EXCEPT !.session = s])
  /\ UNCHANGED <<printers, sessions, devices, rowLock, origin>>
  /\ OnlyDiscovery

(* ... when the row is inserted (the agent's row is a foreign key).        *)
InsertSession(w) ==
  LET s == target[w].session
      a == work[w].agent
  IN /\ Discovering(w, "start")
     /\ sessions' = IF agents[a].lifecycle = "absent" \/ sessions[s].status # "none" THEN sessions
                    ELSE [sessions EXCEPT ![s] = [status |-> "running", agent |-> a]]
     /\ Finish(w)
     /\ UNCHANGED <<printers, devices, rowLock, origin>>
     /\ OnlyDiscovery

(* The cancel route and the agent's report both read a running session ... *)
ReadSession(w, s, what) ==
  /\ sessions[s].status = "running"
  /\ BeginDiscovery(w, sessions[s].agent, what, [NoTarget EXCEPT !.session = s])
  /\ UNCHANGED <<printers, sessions, devices, rowLock, origin>>
  /\ OnlyDiscovery

StartCancel(w, s) == ReadSession(w, s, "cancel")

StartReport(w, a, secret, s) ==
  /\ ValidateAgent(a, secret)
  /\ sessions[s].agent = a
  /\ ReadSession(w, s, "report")

(* ... and write its status by id.                                         *)
EndSession(w, status) ==
  LET s == target[w].session
  IN /\ \/ Discovering(w, "cancel") /\ status = "cancelled"
        \/ Discovering(w, "report")
     /\ sessions' = IF sessions[s].status = "none" THEN sessions
                    ELSE [sessions EXCEPT ![s].status = status]
     /\ Finish(w)
     /\ UNCHANGED <<printers, devices, rowLock, origin>>
     /\ OnlyDiscovery

(* The devices of a report are inserted one by one, each as a candidate;   *)
(* one already known is left alone (onConflictDoNothing), and a session or *)
(* an agent deleted meanwhile is a foreign key error.                      *)
InsertDevice(w, d) ==
  LET s == target[w].session
  IN /\ Discovering(w, "report")
     /\ devices[d].status = "absent"
     /\ sessions[s].status # "none" /\ agents[work[w].agent].lifecycle # "absent"
     /\ devices' = [devices EXCEPT ![d] =
          [status |-> "discovered", agent |-> work[w].agent, printer |-> NoPrinter]]
     /\ UNCHANGED <<printers, work, pending, sessions, rowLock, target, origin>>
     /\ OnlyDiscovery

(* The report fails, or ends without a final status.                       *)
EndReport(w) ==
  /\ Discovering(w, "report")
  /\ Finish(w)
  /\ UNCHANGED <<printers, sessions, devices, rowLock, origin>>
  /\ OnlyDiscovery

(* verify: the agent and the device are read, and the device approved only *)
(* if it is still "discovered" when written: one guarded step.             *)
Verify(w, d) ==
  /\ Free(w)
  /\ rowLock[d] = Unlocked
  /\ devices[d].status = "discovered"
  /\ agents[devices[d].agent].lifecycle = "active"
  /\ devices' = [devices EXCEPT ![d].status = "verified"]
  /\ pending' = pending - 1
  /\ UNCHANGED <<printers, work, sessions, rowLock, target, origin>>
  /\ OnlyDiscovery

(* provision: the agent is read ...                                        *)
StartProvision(w, d) ==
  /\ devices[d].status # "absent"
  /\ agents[devices[d].agent].lifecycle = "active"
  /\ BeginDiscovery(w, devices[d].agent, "provision", [NoTarget EXCEPT !.device = d])
  /\ UNCHANGED <<printers, sessions, devices, rowLock, origin>>
  /\ OnlyDiscovery

SameEndpoint(a, d) ==
  {p \in Printers : /\ EndpointOf[d] # NoEndpoint
                    /\ printers[p].lifecycle # "absent" /\ printers[p].owner = a
                    /\ origin[p] # NoDevice /\ EndpointOf[origin[p]] = EndpointOf[d]}

Approved(d, a) == devices[d].status = "verified" /\ devices[d].agent = a

(* Slip: the device's row is read without FOR UPDATE.                      *)
ProvisionReadUnlocked(w) ==
  LET d == target[w].device
      known == SameEndpoint(work[w].agent, d)
  IN /\ Discovering(w, "provision")
     /\ IF ~Approved(d, work[w].agent) \/ d \notin Transports THEN Finish(w) /\ UNCHANGED devices
        ELSE IF known # {}
          THEN /\ \E p \in known : devices' = [devices EXCEPT ![d].status = "provisioned", ![d].printer = p]
               /\ Finish(w)
        ELSE /\ Continue(w, [work[w] EXCEPT !.next = "insert"])
             /\ UNCHANGED <<devices, target>>
     /\ UNCHANGED <<printers, sessions, rowLock, origin>>
     /\ OnlyDiscovery

(* ... the device's row is locked (waiting for whoever holds it), refused  *)
(* unless it is the agent's, approved, of a known transport and not short  *)
(* of an endpoint, and linked if the agent has a printer at its endpoint   *)
(* ...                                                                     *)
ProvisionLock(w) ==
  LET d == target[w].device
      known == SameEndpoint(work[w].agent, d)
  IN /\ Discovering(w, "provision")
     /\ rowLock[d] = Unlocked
     /\ IF ~Approved(d, work[w].agent) \/ d \notin Transports
          THEN Finish(w) /\ UNCHANGED <<devices, rowLock>>
        ELSE IF known # {}
          THEN /\ \E p \in known : devices' = [devices EXCEPT ![d].status = "provisioned", ![d].printer = p]
               /\ Finish(w)
               /\ UNCHANGED rowLock
        ELSE /\ Continue(w, [work[w] EXCEPT !.next = "insert"])
             /\ rowLock' = [rowLock EXCEPT ![d] = w]
             /\ UNCHANGED <<devices, target>>
     /\ UNCHANGED <<printers, sessions, origin>>
     /\ OnlyDiscovery

(* ... or a printer is inserted for it, and the device marked; the commit  *)
(* frees the row.  An agent deleted meanwhile fails the transaction.       *)
ProvisionInsert(w, p) ==
  LET d == target[w].device
      a == work[w].agent
      alive == agents[a].lifecycle # "absent"
  IN /\ Discovering(w, "insert")
     /\ printers[p].lifecycle = "absent"
     /\ printers' = IF alive THEN [printers EXCEPT ![p] = [lifecycle |-> "active", owner |-> a]]
                    ELSE printers
     /\ origin' = IF alive THEN [origin EXCEPT ![p] = d] ELSE origin
     /\ devices' = IF alive THEN [devices EXCEPT ![d].status = "provisioned", ![d].printer = p]
                   ELSE devices
     /\ rowLock' = [rowLock EXCEPT ![d] = Unlocked]
     /\ Finish(w)
     /\ UNCHANGED sessions
     /\ OnlyDiscovery

(* deleteAgent deletes the agent's devices and sessions with it; a locked  *)
(* device makes it wait.                                                   *)
CommitDeleteWithDiscovery(w) ==
  LET a == work[w].agent
      gone == agents[a].lifecycle # "absent" /\ agents'[a].lifecycle = "absent"
  IN /\ CommitDelete(w)
     /\ \A d \in Devices : devices[d].agent = a => rowLock[d] = Unlocked
     /\ devices' = [d \in Devices |-> IF gone /\ devices[d].agent = a THEN AbsentDevice ELSE devices[d]]
     /\ sessions' = [s \in Sessions |-> IF gone /\ sessions[s].agent = a THEN AbsentSession ELSE sessions[s]]
     /\ origin' = [p \in Printers |-> IF printers'[p].lifecycle = "absent" THEN NoDevice ELSE origin[p]]
     /\ UNCHANGED <<rowLock, target>>

(***************************************************************************)
(* Properties                                                              *)
(***************************************************************************)

(* A device becomes at most one printer, however many provisioning         *)
(* requests, reports and approvals run together (provision's FOR UPDATE,   *)
(* the onConflictDoNothing of the report).                                 *)
OnePrinterPerDevice ==
  \A d \in Devices : Cardinality({p \in Printers : origin[p] = d}) <= 1

=============================================================================
