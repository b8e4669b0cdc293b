---------------------------- MODULE ControlPlane ----------------------------
(***************************************************************************)
(* One tenant's control plane: its agents and printers (Agents), their     *)
(* connections to one Gateway process (Sockets, Listener), discovery       *)
(* (Discovery), and the people who manage them (ManagerAccess), over the   *)
(* failure counters they share (RateLimits).                               *)
(*                                                                         *)
(* In one behaviour only the kinds of requests of its workload arrive, and *)
(* so many of them; the workload is chosen at the start.  Everything a     *)
(* kind of request can touch is in every behaviour in which it arrives.    *)
(***************************************************************************)
EXTENDS Discovery, ManagerAccess

CONSTANT Workloads     \* the kinds and numbers of requests to explore, and the
                       \* agents paired and printers installed when they begin

ASSUME WorkloadsAssumption ==
  \A load \in Workloads : /\ load.paired \in Seq(Agents)
                          /\ load.installed # {} => load.paired # <<>>

VARIABLE workload

vars == <<agentVars, socketVars, listenerVars, limitVars, discoveryVars, managerVars, workload>>

TypeOK ==
  /\ AgentTypeOK /\ SocketTypeOK /\ LimitTypeOK /\ DiscoveryTypeOK /\ ManagerTypeOK
  /\ workload \in Workloads

Init ==
  /\ workload \in Workloads
  /\ pending = workload.requests
  /\ AgentInit(workload.paired, workload.installed)
  /\ SocketInit /\ LimitInit /\ DiscoveryInit /\ ManagerInit

Arrives(kind) == kind \in workload.kinds
KeepDiscovery == UNCHANGED <<discoveryVars, managerVars, workload>>
KeepManagers == UNCHANGED <<managerVars, workload>>

(* Pairing and registration.                                               *)
Pairing ==
  /\ Arrives("pairing")
  /\ KeepDiscovery
  /\ \/ \E w \in Workers, a \in Agents : Manager("agents.pair") /\ CreateAgent(w, a)
     \/ \E a \in Agents : CodeExpires(a)
     \/ \E w \in Workers :
          \/ RegisterInspect(w)
          \/ \E code \in 1..MaxMint : RegisterResolve(w, code)
          \/ RegisterCommit(w)

(* Lifecycle transitions and deletion.                                     *)
Lifecycle ==
  /\ Arrives("lifecycle")
  /\ \/ /\ KeepDiscovery
        /\ \E w \in Workers :
             \/ \E a \in Agents, next \in Lifecycles :
                  Manager("agents.disable") /\ StartTransition(w, a, next)
             \/ CommitTransition(w)
             \/ \E a \in Agents : Manager("agents.retire") /\ StartDelete(w, a)
             \/ RefuseDelete(w)
             \/ \E here, delivered \in BOOLEAN : Teardown(w, here, delivered)
     \/ KeepManagers /\ \E w \in Workers : CommitDeleteWithDiscovery(w)

(* Printers: managers' changes and the agents' heartbeats.                 *)
PrinterChanges ==
  /\ Arrives("printers")
  /\ KeepDiscovery
  /\ \E w \in Workers :
       \/ \E p \in Printers, next \in Lifecycles :
            Manager("printers.manage") /\ StartPrinter(w, p, next)
       \/ CommitPrinter(w)
       \/ \E p \in Printers, a \in Agents :
            Manager("printers.manage") /\ StartCreatePrinter(w, p, a)
       \/ CommitCreatePrinter(w)

Heartbeats ==
  /\ Arrives("heartbeats")
  /\ KeepDiscovery
  /\ \E w \in Workers :
       \/ \E a \in Agents, p \in Printers, status \in {"online", "offline"} :
            \E secret \in 1..Len(exchanged) : HeartbeatAuth(w, a, secret, p, status)
       \/ HeartbeatAgent(w) \/ HeartbeatLookup(w) \/ HeartbeatInsert(w)

(* Connections of the agents to this process.                              *)
Connecting ==
  /\ Arrives("connections")
  /\ KeepDiscovery
  /\ \E w \in Workers :
       \/ UpgradeInspect(w)
       \/ \E a \in Agents, secret \in 1..Len(exchanged) : UpgradeAuth(w, a, secret)
       \/ \E s \in SocketIds : UpgradeTrack(w, s)

RefusedUpgrades ==
  /\ Arrives("connections")
  /\ \E w \in Workers : RefuseUpgrade(w)
  /\ UNCHANGED <<agentVars, socketVars, listenerVars>> /\ KeepDiscovery

Disconnecting ==
  /\ Arrives("connections")
  /\ KeepDiscovery
  /\ \/ \E s \in SocketIds : PeerCloses(s) /\ UNCHANGED <<agentVars, limitVars>>
     \/ \E a \in Agents : SessionClose(a)

CloseEvents ==
  /\ \E s \in SocketIds : CloseEvent(s)
  /\ UNCHANGED <<agentVars, limitVars>> /\ KeepDiscovery

PeerLoss ==
  /\ Arrives("peer loss")
  /\ \E s \in SocketIds : PeerVanishes(s) \/ Pong(s)
  /\ UNCHANGED <<agentVars, limitVars>> /\ KeepDiscovery

Pings ==
  /\ Arrives("peer loss")
  /\ PingSweep
  /\ UNCHANGED <<agentVars, limitVars>> /\ KeepDiscovery

Messages ==
  /\ Arrives("messages")
  /\ \/ \E s \in SocketIds : Message(s)
     \/ \E a \in Agents : Refill(a) \/ PruneBucket(a)
  /\ UNCHANGED <<agentVars, limitVars>> /\ KeepDiscovery

Notifications ==
  /\ Arrives("notifications")
  /\ ListenerNext
  /\ UNCHANGED <<agentVars, socketVars, limitVars>> /\ KeepDiscovery

DiscoveryRequests ==
  /\ Arrives("discovery")
  /\ KeepManagers
  /\ \E w \in Workers :
       \/ \E a \in Agents, s \in Sessions : Manager("agents.pair") /\ StartDiscovery(w, a, s)
       \/ InsertSession(w)
       \/ \E s \in Sessions : Manager("agents.pair") /\ StartCancel(w, s)
       \/ \E a \in Agents, s \in Sessions, secret \in 1..Len(exchanged) : StartReport(w, a, secret, s)
       \/ \E d \in Devices : InsertDevice(w, d)
       \/ \E status \in {"completed", "partial", "failed", "cancelled"} : EndSession(w, status)
       \/ EndReport(w)
       \/ \E d \in Devices : Manager("printers.manage") /\ (Verify(w, d) \/ StartProvision(w, d))
       \/ ProvisionLock(w)
       \/ \E p \in Printers : ProvisionInsert(w, p)

(* Sign-ins and the requests of the people signed in.                      *)
SignIns ==
  /\ Arrives("sign-ins")
  /\ UNCHANGED <<agentVars, socketVars, listenerVars, discoveryVars, workload>>
  /\ \E w \in Workers :
       \/ LoginInspect(w)
       \/ Arrives("wrong passwords") /\ \E k \in LoginKeys : LoginFails(w, k)
       \/ \E u \in Users \union {Legacy} : LoginSucceeds(w, u)
       \/ \E t \in Tokens : CreateManagerSession(w, t)
       \/ SessionInsertFails(w)

Managing ==
  /\ Arrives("managers")
  /\ UNCHANGED <<agentVars, socketVars, listenerVars, discoveryVars, workload>>
  /\ \/ \E t \in Tokens : Logout(t)
     \/ \E u \in Users, r \in {"admin", "viewer", "none"} : ChangeRole(u, r)
     \/ CleanupManagerSessions

Time ==
  /\ Arrives("time")
  /\ \/ Tick
     \/ \E k \in Keys : CleanupRateLimits(k)
  /\ UNCHANGED <<agentVars, socketVars, listenerVars>> /\ KeepDiscovery

Next ==
  \/ Pairing \/ Lifecycle \/ PrinterChanges \/ Heartbeats
  \/ Connecting \/ RefusedUpgrades \/ Disconnecting \/ CloseEvents
  \/ PeerLoss \/ Pings \/ Messages \/ Notifications
  \/ DiscoveryRequests \/ SignIns \/ Managing \/ Time

Spec == Init /\ [][Next]_vars

(* The ping timer is a setInterval; a socket whose close was asked for     *)
(* emits 'close'; a reconnect timer fires; a LISTEN on a broken client     *)
(* fails, and a destroyed client ends; of the connections the listener     *)
(* tries for ever, some succeed.                                           *)
Fairness ==
  /\ WF_vars(Pings)
  /\ \A s \in SocketIds :
       WF_vars(CloseEvent(s) /\ UNCHANGED <<agentVars, limitVars>> /\ KeepDiscovery)
  /\ LET Listen(A) == Arrives("notifications") /\ A
                        /\ UNCHANGED <<agentVars, socketVars, limitVars>> /\ KeepDiscovery
     IN /\ WF_vars(Listen(Reconnect))
        /\ WF_vars(Listen(ListenFails /\ broken[setup] # 0))
        /\ \A c \in Clients : WF_vars(Listen(broken[c] = 1 /\ ClientEvent(c)))
        /\ SF_vars(Listen(\E c \in Clients : PoolConnects(c)))
        /\ SF_vars(Listen(Adopt))

FairSpec == Spec /\ Fairness

(* A socket whose agent is gone without a word is not kept: it leaves the  *)
(* registry, so that pushes go to the poll path and the agent can be       *)
(* deleted (the ping timer, the late close event).                         *)
DeadSocketIsReaped ==
  \A s \in SocketIds : Open(s) /\ ~socket[s].peer ~> socket[s].state = "closed"

(* Push delivery does not die silently: whatever breaks, and whenever it   *)
(* breaks, the listener is listening again until the server closes.        *)
ListenerRecovers == []<>(Arrives("notifications") => Listening \/ wssClosed)

=============================================================================
