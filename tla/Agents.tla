------------------------------- MODULE Agents -------------------------------
(***************************************************************************)
(* The agents and printers tables of one tenant and the requests that      *)
(* change them: pairing and registration, lifecycle transitions, deletion, *)
(* heartbeats, manual printers.                                            *)
(*                                                                         *)
(* A request runs in a worker.  Most handlers read a row, decide, and      *)
(* write later by primary key; what a worker remembers between the two is  *)
(* in work, so the requests of two workers interleave at every await.      *)
(* Each SQL statement or transaction is one step.                          *)
(***************************************************************************)
EXTENDS Sockets, RateLimits, Lifecycle

CONSTANTS
  Printers,
  MaxAgents,       \* the tenant's max_agents entitlement
  MaxPrinters,     \* its max_printers entitlement
  MaxMint,         \* bound: pairing codes minted in a behaviour
  NoPrinter

ASSUME MintAssumption == MaxMint \in Nat

VARIABLES
  agents,          \* the agents rows
  printers,        \* the printers rows
  work,            \* the request each worker is serving
  minted,          \* pairing codes minted so far
  exchanged,       \* for each secret issued, the pairing code it was issued for
  notices,         \* session-close notifications on their way to this process
  pending          \* requests still to arrive

agentVars == <<agents, printers, work, minted, exchanged, notices, pending>>

AgentRow == [lifecycle: Lifecycles \union {"absent"}, secret: Nat, code: Nat,
             fresh: BOOLEAN, online: BOOLEAN]
PrinterRow == [lifecycle: Lifecycles \union {"absent"}, owner: Agents]
Ops == {"idle", "register", "upgrade", "transition", "teardown", "delete", "printer",
        "create_printer", "heartbeat", "lookup", "insert", "update", "discovery"}
(* What a request will write, or do next.                                  *)
Nexts == Lifecycles \union {"", "online", "offline", "start", "cancel", "report",
                            "provision", "insert"}
Request == [op: Ops, agent: Agents, printer: Printers \union {NoPrinter},
            next: Nexts, num: Nat]

AnyAgent == CHOOSE a \in Agents : TRUE
Idle == [op |-> "idle", agent |-> AnyAgent, printer |-> NoPrinter, next |-> "", num |-> 0]
AbsentAgent == [lifecycle |-> "absent", secret |-> 0, code |-> 0, fresh |-> FALSE, online |-> FALSE]
AbsentPrinter == [lifecycle |-> "absent", owner |-> AnyAgent]

AgentTypeOK ==
  /\ agents \in [Agents -> AgentRow]
  /\ printers \in [Printers -> PrinterRow]
  /\ work \in [Workers -> Request]
  /\ minted \in Nat
  /\ exchanged \in Seq(Nat)
  /\ notices \subseteq Agents

(* A tenant starts with some agents paired, in order, the first of them    *)
(* with some printers installed.                                           *)
AgentInit(paired, installed) ==
  /\ agents = [a \in Agents |->
       IF \E i \in 1..Len(paired) : paired[i] = a
         THEN [AbsentAgent EXCEPT !.lifecycle = "active", !.online = TRUE,
                                  !.secret = CHOOSE i \in 1..Len(paired) : paired[i] = a]
         ELSE AbsentAgent]
  /\ printers = [p \in Printers |->
       IF p \in installed THEN [lifecycle |-> "active", owner |-> Head(paired)]
       ELSE AbsentPrinter]
  /\ minted = Len(paired)
  /\ exchanged = [i \in 1..Len(paired) |-> i]
  /\ work = [w \in Workers |-> Idle]
  /\ notices = {}
  /\ pending \in Nat

Free(w) == work[w] = Idle /\ pending > 0
Begin(w, r) == /\ Free(w)
               /\ work' = [work EXCEPT ![w] = r]
               /\ pending' = pending - 1
Continue(w, r) == work' = [work EXCEPT ![w] = r] /\ UNCHANGED pending
Done(w) == Continue(w, Idle)
Doing(w, op) == work[w].op = op

(* generatePairingCode, retried until no pending code has its hash.        *)
Minted == minted + 1
MayMint == minted < MaxMint

(* validateAgent: the presented secret is the row's, and the agent active. *)
ValidateAgent(a, secret) ==
  secret # 0 /\ agents[a].secret = secret /\ agents[a].lifecycle = "active"

AgentQuotaUsed == Cardinality({a \in Agents : agents[a].lifecycle \in {"active", "disabled"}})
PrinterQuotaUsed == Cardinality({p \in Printers : printers[p].lifecycle \in {"active", "disabled"}})

(***************************************************************************)
(* Pairing                                                                 *)
(***************************************************************************)

(* createAgent: under the tenant's advisory lock, within max_agents.       *)
CreateAgent(w, a) ==
  /\ Free(w) /\ MayMint
  /\ agents[a].lifecycle = "absent"
  /\ AgentQuotaUsed < MaxAgents
  /\ agents' = [agents EXCEPT ![a] = [lifecycle |-> "active", secret |-> 0, code |-> Minted,
                                      fresh |-> TRUE, online |-> FALSE]]
  /\ minted' = Minted
  /\ pending' = pending - 1
  /\ UNCHANGED <<printers, work, exchanged, notices, socketVars, listenerVars, limitVars>>

(* Ten minutes pass.                                                       *)
CodeExpires(a) ==
  /\ agents[a].fresh
  /\ agents' = [agents EXCEPT ![a].fresh = FALSE]
  /\ UNCHANGED <<printers, work, minted, exchanged, notices, pending,
                 socketVars, listenerVars, limitVars>>

(* register: the address is inspected ...                                  *)
RegisterInspect(w) ==
  /\ Free(w)
  /\ Inspect(w, {PairingKey})
  /\ UNCHANGED <<agentVars, socketVars, listenerVars>>

Matches(a, code) ==
  agents[a].code = code /\ agents[a].fresh /\ agents[a].lifecycle = "active"

(* ... the code is resolved (a code nobody has pending is a failure) ...   *)
RegisterResolve(w, code) ==
  /\ Free(w) /\ attempt[w] = {PairingKey}
  /\ \/ \E a \in Agents :
          /\ Matches(a, code)
          /\ Begin(w, [Idle EXCEPT !.op = "register", !.agent = a, !.num = code])
          /\ UNCHANGED limitVars
     \/ /\ \A a \in Agents : ~Matches(a, code)
        /\ Fail(w, PairingKey)
        /\ pending' = pending - 1
        /\ UNCHANGED work
  /\ UNCHANGED <<agents, printers, minted, exchanged, notices, socketVars, listenerVars>>

(* Slip: the UPDATE that consumes the code selects the row by id only.     *)
RegisterCommitById(w) ==
  LET a == work[w].agent
  IN /\ Doing(w, "register")
     /\ agents' = [agents EXCEPT ![a].secret = Len(exchanged) + 1, ![a].code = 0,
                                 ![a].fresh = FALSE, ![a].online = TRUE]
     /\ exchanged' = Append(exchanged, work[w].num)
     /\ Succeed(w)
     /\ Done(w)
     /\ UNCHANGED <<printers, minted, notices, socketVars, listenerVars>>

(* ... and consumed: the UPDATE still requires the code, unexpired, on an  *)
(* active agent; if another request consumed it first this is a failure.   *)
RegisterCommit(w) ==
  LET a == work[w].agent
  IN /\ Doing(w, "register")
     /\ IF Matches(a, work[w].num)
          THEN /\ agents' = [agents EXCEPT ![a].secret = Len(exchanged) + 1, ![a].code = 0,
                                           ![a].fresh = FALSE, ![a].online = TRUE]
               /\ exchanged' = Append(exchanged, work[w].num)
               /\ Succeed(w)
          ELSE /\ Fail(w, PairingKey)
               /\ UNCHANGED <<agents, exchanged>>
     /\ Done(w)
     /\ UNCHANGED <<printers, minted, notices, socketVars, listenerVars>>

(***************************************************************************)
(* Lifecycle                                                               *)
(***************************************************************************)

(* transitionAgentLifecycle reads the row, refuses what the table forbids  *)
(* (a no-op is answered without writing) and mints a code for a re-enable. *)
StartTransition(w, a, next) ==
  LET reenable == agents[a].lifecycle = "disabled" /\ next = "active"
  IN /\ agents[a].lifecycle \notin {"absent", next}
     /\ CanTransitionLifecycle(agents[a].lifecycle, next)
     /\ reenable => MayMint
     /\ Begin(w, [Idle EXCEPT !.op = "transition", !.agent = a, !.next = next,
                              !.num = IF reenable THEN Minted ELSE 0])
     /\ minted' = IF reenable THEN Minted ELSE minted
     /\ UNCHANGED <<agents, printers, exchanged, notices, socketVars, listenerVars, limitVars>>

(* Slip: the pairing code survives the transition.                         *)
CommitTransitionKeepsCode(w) ==
  LET a == work[w].agent
      next == work[w].next
  IN /\ Doing(w, "transition")
     /\ agents' = [agents EXCEPT ![a].lifecycle = next, ![a].secret = 0,
                                 ![a].online = FALSE]
     /\ Continue(w, [work[w] EXCEPT !.op = "teardown"])
     /\ UNCHANGED <<printers, minted, exchanged, notices, socketVars, listenerVars, limitVars>>

(* Its transaction: the row, selected by id and tenant alone, gets the     *)
(* lifecycle, loses its secret and its code (or gets the new code); unless *)
(* the agent is enabled, all its printers, whatever their own lifecycle,   *)
(* are disabled.                                                           *)
CommitTransition(w) ==
  LET a == work[w].agent
      next == work[w].next
      found == agents[a].lifecycle # "absent"
  IN /\ Doing(w, "transition")
     /\ agents' = IF ~found THEN agents ELSE
          [agents EXCEPT ![a] = [lifecycle |-> next, secret |-> 0, code |-> work[w].num,
                                 fresh |-> work[w].num # 0, online |-> FALSE]]
     /\ printers' = [p \in Printers |->
          IF next # "active" /\ printers[p].owner = a /\ printers[p].lifecycle # "absent"
            THEN [printers[p] EXCEPT !.lifecycle = "disabled"] ELSE printers[p]]
     /\ Continue(w, [work[w] EXCEPT !.op = "teardown", !.next = "", !.num = 0])
     /\ UNCHANGED <<minted, exchanged, notices, socketVars, listenerVars, limitVars>>

(* deleteAgent asks this process's registry first ...                      *)
StartDelete(w, a) ==
  /\ ~HasOpenSocket(a)
  /\ Begin(w, [Idle EXCEPT !.op = "delete", !.agent = a])
  /\ UNCHANGED <<agents, printers, minted, exchanged, notices,
                 socketVars, listenerVars, limitVars>>

(* ... then locks the row and refuses an online or retired agent, or one   *)
(* with print history (not modelled: any agent may have some); its         *)
(* printers go with it.                                                    *)
CommitDelete(w) ==
  LET a == work[w].agent
      deletable == agents[a].lifecycle \in {"active", "disabled"} /\ ~agents[a].online
  IN /\ Doing(w, "delete")
     /\ IF deletable
          THEN /\ agents' = [agents EXCEPT ![a] = AbsentAgent]
               /\ printers' = [p \in Printers |->
                    IF printers[p].owner = a THEN AbsentPrinter ELSE printers[p]]
               /\ Continue(w, [Idle EXCEPT !.op = "teardown", !.agent = a])
          ELSE Done(w) /\ UNCHANGED <<agents, printers>>
     /\ UNCHANGED <<minted, exchanged, notices, socketVars, listenerVars, limitVars>>

RefuseDelete(w) ==
  /\ Doing(w, "delete")
  /\ Done(w)
  /\ UNCHANGED <<agents, printers, minted, exchanged, notices,
                 socketVars, listenerVars, limitVars>>

(* After a transition or a deletion, wherever it ran: this process's       *)
(* sockets are closed if it ran here, and a notification is published,     *)
(* which reaches this process if its listener is up (best effort).         *)
Teardown(w, here, delivered) ==
  LET a == work[w].agent
  IN /\ Doing(w, "teardown")
     /\ delivered => Listening
     /\ socket' = IF here THEN ClosedFor(a) ELSE socket
     /\ notices' = IF delivered THEN notices \union {a} ELSE notices
     /\ Done(w)
     /\ UNCHANGED <<agents, printers, minted, exchanged, sets, registry, bucket,
                    refills, handled, listenerVars, limitVars>>

(* handleNotification on the sessions channel; a listener that went down   *)
(* loses what it had not handled.                                          *)
SessionClose(a) ==
  /\ a \in notices
  /\ notices' = notices \ {a}
  /\ socket' = IF Listening THEN ClosedFor(a) ELSE socket
  /\ UNCHANGED <<agents, printers, work, minted, exchanged, pending, sets, registry,
                 bucket, refills, handled, listenerVars, limitVars>>

(***************************************************************************)
(* Connections                                                             *)
(***************************************************************************)

(* upgrade: the address is inspected, the secret validated ...             *)
UpgradeInspect(w) ==
  /\ Free(w)
  /\ Inspect(w, {UpgradeKey})
  /\ UNCHANGED <<agentVars, socketVars, listenerVars>>

UpgradeAuth(w, a, secret) ==
  /\ Free(w) /\ attempt[w] = {UpgradeKey}
  /\ IF ValidateAgent(a, secret)
       THEN /\ Begin(w, [Idle EXCEPT !.op = "upgrade", !.agent = a, !.num = secret])
            /\ UNCHANGED limitVars
       ELSE /\ Fail(w, UpgradeKey)
            /\ pending' = pending - 1
            /\ UNCHANGED work
  /\ UNCHANGED <<agents, printers, minted, exchanged, notices, socketVars, listenerVars>>

(* ... and the socket tracked when the query's answer is handled.          *)
UpgradeTrack(w, s) ==
  /\ Doing(w, "upgrade")
  /\ Track(s, work[w].agent, work[w].num)
  /\ Succeed(w)
  /\ Done(w)
  /\ UNCHANGED <<agents, printers, minted, exchanged, notices>>

(***************************************************************************)
(* Printers                                                                *)
(***************************************************************************)

(* setPrinterLifecycle and PATCH /api/printers/[id]: the row, and for an   *)
(* activation its owner's row, are read ...                                *)
StartPrinter(w, p, next) ==
  /\ printers[p].lifecycle \notin {"absent", next}
  /\ CanTransitionLifecycle(printers[p].lifecycle, next)
  /\ next = "active" => agents[printers[p].owner].lifecycle = "active"
  /\ Begin(w, [Idle EXCEPT !.op = "printer", !.printer = p, !.next = next])
  /\ UNCHANGED <<agents, printers, minted, exchanged, notices,
                 socketVars, listenerVars, limitVars>>

(* ... and the lifecycle is written by id.                                 *)
CommitPrinter(w) ==
  LET p == work[w].printer
  IN /\ Doing(w, "printer")
     /\ printers' = IF printers[p].lifecycle = "absent" THEN printers
                    ELSE [printers EXCEPT ![p].lifecycle = work[w].next]
     /\ Done(w)
     /\ UNCHANGED <<agents, minted, exchanged, notices, socketVars, listenerVars, limitVars>>

(* POST /api/printers: the agent is read, and refused unless active ...    *)
StartCreatePrinter(w, p, a) ==
  /\ agents[a].lifecycle = "active"
  /\ Begin(w, [Idle EXCEPT !.op = "create_printer", !.agent = a, !.printer = p])
  /\ UNCHANGED <<agents, printers, minted, exchanged, notices,
                 socketVars, listenerVars, limitVars>>

(* ... then the printer is inserted under the tenant's advisory lock if    *)
(* max_printers allows and its id and its agent's row still stand.         *)
CommitCreatePrinter(w) ==
  LET p == work[w].printer
      a == work[w].agent
      allowed == PrinterQuotaUsed < MaxPrinters /\ printers[p].lifecycle = "absent"
                   /\ agents[a].lifecycle # "absent"
  IN /\ Doing(w, "create_printer")
     /\ printers' = IF allowed THEN [printers EXCEPT ![p] = [lifecycle |-> "active", owner |-> a]]
                    ELSE printers
     /\ Done(w)
     /\ UNCHANGED <<agents, minted, exchanged, notices, socketVars, listenerVars, limitVars>>

(* heartbeat: the secret is validated ...                                  *)
HeartbeatAuth(w, a, secret, p, status) ==
  /\ ValidateAgent(a, secret)
  /\ Begin(w, [Idle EXCEPT !.op = "heartbeat", !.agent = a, !.printer = p, !.next = status])
  /\ UNCHANGED <<agents, printers, minted, exchanged, notices,
                 socketVars, listenerVars, limitVars>>

(* ... the agent's status written by id, whatever became of it since ...   *)
HeartbeatAgent(w) ==
  LET a == work[w].agent
  IN /\ Doing(w, "heartbeat")
     /\ agents' = IF agents[a].lifecycle = "absent" THEN agents
                  ELSE [agents EXCEPT ![a].online = work[w].next = "online"]
     /\ Continue(w, [work[w] EXCEPT !.op = "lookup", !.next = ""])
     /\ UNCHANGED <<printers, minted, exchanged, notices, socketVars, listenerVars, limitVars>>

(* ... and each reported printer looked up: one of another agent is        *)
(* skipped, one of this agent is updated (name, status, config ...: its    *)
(* lifecycle and owner stay), an unknown one inserted.                     *)
HeartbeatLookup(w) ==
  LET p == work[w].printer
  IN /\ Doing(w, "lookup")
     /\ IF printers[p].lifecycle = "absent"
          THEN Continue(w, [work[w] EXCEPT !.op = "insert"])
          ELSE Done(w)
     /\ UNCHANGED <<agents, printers, minted, exchanged, notices,
                    socketVars, listenerVars, limitVars>>

(* Slip: ON CONFLICT DO UPDATE.                                            *)
HeartbeatUpsert(w) ==
  LET p == work[w].printer
  IN /\ Doing(w, "insert")
     /\ printers' = [printers EXCEPT ![p] = [lifecycle |-> "active", owner |-> work[w].agent]]
     /\ Done(w)
     /\ UNCHANGED <<agents, minted, exchanged, notices, socketVars, listenerVars, limitVars>>

(* The insert does nothing on a conflict: the row that won the race is     *)
(* updated if it is this agent's, skipped otherwise.  The foreign key      *)
(* refuses the printer of an agent deleted meanwhile.                      *)
HeartbeatInsert(w) ==
  LET p == work[w].printer
      a == work[w].agent
      insert == printers[p].lifecycle = "absent" /\ agents[a].lifecycle # "absent"
  IN /\ Doing(w, "insert")
     /\ printers' = IF insert THEN [printers EXCEPT ![p] = [lifecycle |-> "active", owner |-> a]]
                    ELSE printers
     /\ Done(w)
     /\ UNCHANGED <<agents, minted, exchanged, notices, socketVars, listenerVars, limitVars>>

(***************************************************************************)
(* Properties                                                              *)
(***************************************************************************)

(* Only an active agent holds a credential: whatever registrations,        *)
(* transitions, deletions and heartbeats interleave, a disabled, retired   *)
(* or deleted agent has neither a secret nor a pending code, so it can     *)
(* authenticate nothing and be paired by nobody (the secret: null and      *)
(* pairingCodeHash of transitionAgentLifecycle, the guards of register).   *)
CredentialsOnlyWhenActive ==
  \A a \in Agents : agents[a].lifecycle # "active" =>
    agents[a].secret = 0 /\ agents[a].code = 0

(* A pairing code is single use: however many registrations resolved the   *)
(* same code before either consumed it, at most one is given a secret.     *)
OneSecretPerCode ==
  \A i, j \in 1..Len(exchanged) : exchanged[i] = exchanged[j] => i = j

(* No agent's report takes another agent's printer: a printer changes      *)
(* owner only by being deleted with its agent and registered anew          *)
(* (heartbeat's owned_by_another_agent and its ON CONFLICT DO NOTHING).    *)
PrintersKeepTheirOwner ==
  [][\A p \in Printers :
       printers[p].lifecycle # "absent" /\ printers'[p].lifecycle # "absent"
         => printers'[p].owner = printers[p].owner]_printers

(* "retired is terminal" (PRINTERS.md, Lifecycle): no request brings a     *)
(* retired printer or agent back.                                          *)
RetiredIsTerminal ==
  [][/\ \A p \in Printers : printers[p].lifecycle = "retired" =>
           printers'[p].lifecycle \in {"retired", "absent"}
     /\ \A a \in Agents : agents[a].lifecycle = "retired" =>
           agents'[a].lifecycle = "retired"]_<<agents, printers>>

=============================================================================
