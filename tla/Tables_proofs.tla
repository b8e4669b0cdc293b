--------------------------- MODULE Tables_proofs ---------------------------
(***************************************************************************)
(* Proofs about the rows of ControlPlane, for any number of agents,        *)
(* printers, devices and requests under way at once: credentials end with  *)
(* the agent's activity, a code buys one secret, printers keep their owner *)
(* and a device becomes one printer.                                       *)
(***************************************************************************)
EXTENDS ControlPlane, FiniteSetTheorems, TLAPS

(* What a request remembers.                                               *)
RequestOK(r) ==
  /\ r \in Request
  /\ r.op \in {"transition", "printer"} => r.next \in Lifecycles
  /\ r.op = "transition" /\ r.num # 0 => r.next = "active"
  /\ r.op = "register" => r.num # 0

RowsOK ==
  /\ agents \in [Agents -> AgentRow]
  /\ printers \in [Printers -> PrinterRow]
  /\ work \in [Workers -> Request]
  /\ \A w \in Workers : RequestOK(work[w])
  /\ minted \in Nat
  /\ exchanged \in Seq(Nat)

Minting(w) == work[w].op = "transition" /\ work[w].num # 0

(* A code is in one place only: an agent's row, the request that is about  *)
(* to write it there, or the record of those exchanged.                    *)
CodesInv ==
  /\ \A a \in Agents : agents[a].code <= minted
  /\ \A i \in 1..Len(exchanged) : exchanged[i] \in 1..minted
  /\ \A a, b \in Agents : agents[a].code = agents[b].code => agents[a].code = 0 \/ a = b
  /\ \A a \in Agents, i \in 1..Len(exchanged) : agents[a].code # exchanged[i]
  /\ OneSecretPerCode
  /\ \A w \in Workers : Minting(w) =>
       /\ work[w].num <= minted
       /\ \A a \in Agents : agents[a].code # work[w].num
       /\ \A i \in 1..Len(exchanged) : exchanged[i] # work[w].num
       /\ \A v \in Workers : Minting(v) /\ work[v].num = work[w].num => v = w

(* A printer made from a device is its agent's, like the device, which is  *)
(* marked; and a device about to become one is locked.                     *)
ProvisionInv ==
  /\ sessions \in [Sessions -> [status: SessionStates, agent: Agents]]
  /\ devices \in [Devices -> DeviceRow]
  /\ rowLock \in [Devices -> Workers \union {Unlocked}]
  /\ target \in [Workers -> Target]
  /\ origin \in [Printers -> Devices \union {NoDevice}]
  /\ \A p \in Printers : origin[p] # NoDevice =>
       /\ printers[p].lifecycle # "absent"
       /\ devices[origin[p]].status = "provisioned"
       /\ devices[origin[p]].agent = printers[p].owner
  /\ \A p, q \in Printers : origin[p] = origin[q] => origin[p] = NoDevice \/ p = q
  /\ \A w \in Workers : Discovering(w, "insert") =>
       /\ target[w].device \in Devices
       /\ rowLock[target[w].device] = w
       /\ Approved(target[w].device, work[w].agent)

TablesInv == RowsOK /\ CredentialsOnlyWhenActive /\ CodesInv /\ ProvisionInv

KeepOwners == \A p \in Printers :
  printers[p].lifecycle # "absent" /\ printers'[p].lifecycle # "absent"
    => printers'[p].owner = printers[p].owner

(* The first steps of the requests that only remember.                     *)
StartWork(w) ==
  \/ \E a \in Agents : StartDelete(w, a)
  \/ \E p \in Printers, next \in Lifecycles : StartPrinter(w, p, next)
  \/ \E p \in Printers, a \in Agents : StartCreatePrinter(w, p, a)
  \/ \E a \in Agents, p \in Printers, status \in {"online", "offline"} :
       \E secret \in 1..Len(exchanged) : HeartbeatAuth(w, a, secret, p, status)
  \/ \E code \in 1..MaxMint : RegisterResolve(w, code)
  \/ \E a \in Agents, secret \in 1..Len(exchanged) : UpgradeAuth(w, a, secret)

tableVars == <<agents, printers, work, minted, exchanged, discoveryVars>>

-----------------------------------------------------------------------------

LEMMA IdleIsOK == RequestOK(Idle) /\ AnyAgent \in Agents
<1>1. AnyAgent \in Agents
  BY SocketsAssumption, Zenon DEF AnyAgent
<1>2. Idle \in Request
  BY <1>1 DEF Idle, Request, Ops, Nexts
<1>3. Idle.op = "idle"
  BY DEF Idle
<1> QED
  BY <1>1, <1>2, <1>3 DEF RequestOK

LEMMA InitTables == Init => TablesInv
<1> SUFFICES ASSUME Init PROVE TablesInv
  OBVIOUS
<1>0. RequestOK(Idle) /\ AnyAgent \in Agents /\ Idle.op = "idle"
  BY IdleIsOK DEF Idle
<1>1. workload.paired \in Seq(Agents)
  BY WorkloadsAssumption DEF Init
<1> DEFINE paired == workload.paired
           Place(a) == CHOOSE i \in 1..Len(paired) : paired[i] = a
<1>a. \A a \in Agents : (\E i \in 1..Len(paired) : paired[i] = a) => Place(a) \in Nat
  <2>1. \A a : (\E i \in 1..Len(paired) : paired[i] = a) => Place(a) \in 1..Len(paired)
    BY Zenon
  <2> QED
    BY <2>1, <1>1
<1> HIDE DEF Place
<1>b. AgentInit(paired, workload.installed)
  BY DEF Init
<1>c. \A a \in Agents :
        /\ agents[a] \in AgentRow /\ agents[a].code = 0
        /\ agents[a].lifecycle # "active" => agents[a].secret = 0
  <2> TAKE a \in Agents
  <2>1. agents[a] = IF \E i \in 1..Len(paired) : paired[i] = a
                      THEN [lifecycle |-> "active", secret |-> Place(a), code |-> 0,
                            fresh |-> FALSE, online |-> TRUE]
                      ELSE AbsentAgent
    <3>1. agents[a] = IF \E i \in 1..Len(paired) : paired[i] = a
                      THEN [AbsentAgent EXCEPT !.lifecycle = "active", !.online = TRUE,
                                               !.secret = Place(a)]
                      ELSE AbsentAgent
      BY <1>b DEF AgentInit, Place
    <3> QED
      BY <3>1 DEF AbsentAgent
  <2> QED
    BY <2>1, <1>a DEF AbsentAgent, AgentRow, Lifecycles
<1>d. printers \in [Printers -> PrinterRow]
  <2>1. workload.installed # {} => Head(paired) \in Agents
    BY <1>1, WorkloadsAssumption DEF Init
  <2> QED
    BY <2>1, <1>0, <1>b DEF AgentInit, PrinterRow, AbsentPrinter, Lifecycles
<1>e. /\ exchanged = [i \in 1..Len(paired) |-> i] /\ minted = Len(paired)
      /\ work = [w \in Workers |-> Idle]
      /\ agents = [a \in Agents |-> agents[a]]
  BY <1>b DEF AgentInit
<1>f. exchanged \in Seq(Nat) /\ Len(exchanged) = Len(paired) /\ minted \in Nat
  BY <1>e, <1>1
<1>2. RowsOK /\ CredentialsOnlyWhenActive
  BY <1>0, <1>c, <1>d, <1>e, <1>f DEF RowsOK, RequestOK, CredentialsOnlyWhenActive
<1>3. CodesInv
  BY <1>0, <1>1, <1>c, <1>e, <1>f DEF CodesInv, OneSecretPerCode, Minting
<1>4. ProvisionInv
  BY <1>0, DiscoveryAssumption DEF Init, AgentInit, DiscoveryInit, ProvisionInv, AbsentSession, AbsentDevice,
    SessionStates, DeviceRow, Target, NoTarget, Discovering, Doing
<1> QED
  BY <1>2, <1>3, <1>4 DEF TablesInv

(* A request begins, goes on or ends, and the rows stay.                   *)
LEMMA OnlyWork ==
  ASSUME TablesInv, NEW w \in Workers, NEW r, RequestOK(r), r.op # "transition",
         work' = [work EXCEPT ![w] = r],
         UNCHANGED <<agents, printers, minted, exchanged, devices, rowLock, origin>>,
         sessions' \in [Sessions -> [status: SessionStates, agent: Agents]],
         target' \in [Workers -> Target],
         \A v \in Workers \ {w} : target'[v] = target[v],
         ~(r.op = "discovery" /\ r.next = "insert")
  PROVE  TablesInv' /\ KeepOwners
<1>1. RowsOK'
  BY DEF TablesInv, RowsOK, RequestOK
<1>2. CredentialsOnlyWhenActive'
  BY DEF TablesInv, CredentialsOnlyWhenActive
<1>3. CodesInv'
  BY DEF TablesInv, RowsOK, CodesInv, Minting, OneSecretPerCode
<1>4. ProvisionInv'
  <2>1. \A v \in Workers : Discovering(v, "insert")' =>
          /\ Discovering(v, "insert")
          /\ target'[v] = target[v] /\ work'[v] = work[v]
    BY DEF TablesInv, RowsOK, Discovering, Doing
  <2>2. \A v \in Workers : Discovering(v, "insert")' =>
          /\ target'[v].device \in Devices
          /\ rowLock'[target'[v].device] = v
          /\ Approved(target[v].device, work[v].agent)'
    BY <2>1 DEF TablesInv, ProvisionInv, Approved
  <2> QED
    BY <2>2 DEF TablesInv, ProvisionInv
<1> QED
  BY <1>1, <1>2, <1>3, <1>4 DEF TablesInv, KeepOwners

LEMMA Unchanged == TablesInv /\ UNCHANGED tableVars => TablesInv' /\ KeepOwners
BY DEF TablesInv, RowsOK, CredentialsOnlyWhenActive, CodesInv, Minting, OneSecretPerCode,
  ProvisionInv, Discovering, Doing, Approved, KeepOwners, tableVars, discoveryVars

-----------------------------------------------------------------------------
(* Steps that change only what a request remembers.                        *)

LEMMA WorkSteps ==
  ASSUME TablesInv, UNCHANGED discoveryVars, NEW w \in Workers,
         \/ StartWork(w) \/ RefuseDelete(w) \/ UpgradeInspect(w) \/ RegisterInspect(w)
         \/ HeartbeatLookup(w)
         \/ \E here, delivered \in BOOLEAN : Teardown(w, here, delivered)
         \/ \E s \in SocketIds : UpgradeTrack(w, s)
  PROVE  TablesInv' /\ KeepOwners
<1> USE DEF discoveryVars
<1>0. RequestOK(Idle) /\ Idle.op = "idle" /\ RequestOK(work[w])
  BY IdleIsOK DEF Idle, TablesInv, RowsOK
<1>s. /\ sessions' \in [Sessions -> [status: SessionStates, agent: Agents]]
      /\ target' \in [Workers -> Target]
      /\ \A v \in Workers \ {w} : target'[v] = target[v]
  BY DEF TablesInv, ProvisionInv
<1> DEFINE Only(r) == /\ work' = [work EXCEPT ![w] = r]
                      /\ UNCHANGED <<agents, printers, minted, exchanged>>
<1>1. ASSUME NEW r, Only(r), RequestOK(r), r.op \notin {"transition", "discovery"}
      PROVE  TablesInv' /\ KeepOwners
  BY <1>1, <1>s, OnlyWork
<1>2. Only(Idle) => TablesInv' /\ KeepOwners
  BY <1>0, <1>1
<1>3. CASE StartWork(w)
  <2> USE DEF Nexts
  <2>2. CASE \E a \in Agents : StartDelete(w, a)
    <3> PICK a \in Agents : StartDelete(w, a)
      BY <2>2
    <3> DEFINE r == [Idle EXCEPT !.op = "delete", !.agent = a]
    <3>1. Only(r)
      BY DEF StartDelete, Begin
    <3>2. RequestOK(r) /\ r.op \notin {"transition", "discovery"}
      BY IdleIsOK DEF RequestOK, Request, Ops, Idle
    <3> QED
      BY <3>1, <3>2, <1>1
  <2>3. CASE \E p \in Printers, next \in Lifecycles : StartPrinter(w, p, next)
    <3> PICK p \in Printers, next \in Lifecycles : StartPrinter(w, p, next)
      BY <2>3
    <3> DEFINE r == [Idle EXCEPT !.op = "printer", !.printer = p, !.next = next]
    <3>1. Only(r)
      BY DEF StartPrinter, Begin
    <3>2. RequestOK(r) /\ r.op \notin {"transition", "discovery"}
      BY IdleIsOK DEF RequestOK, Request, Ops, Idle
    <3> QED
      BY <3>1, <3>2, <1>1
  <2>4. CASE \E p \in Printers, a \in Agents : StartCreatePrinter(w, p, a)
    <3> PICK p \in Printers, a \in Agents : StartCreatePrinter(w, p, a)
      BY <2>4
    <3> DEFINE r == [Idle EXCEPT !.op = "create_printer", !.agent = a, !.printer = p]
    <3>1. Only(r)
      BY DEF StartCreatePrinter, Begin
    <3>2. RequestOK(r) /\ r.op \notin {"transition", "discovery"}
      BY IdleIsOK DEF RequestOK, Request, Ops, Idle
    <3> QED
      BY <3>1, <3>2, <1>1
  <2>5. CASE \E a \in Agents, p \in Printers, status \in {"online", "offline"} :
               \E secret \in 1..Len(exchanged) : HeartbeatAuth(w, a, secret, p, status)
    <3> PICK a \in Agents, p \in Printers, status \in {"online", "offline"},
             secret \in 1..Len(exchanged) : HeartbeatAuth(w, a, secret, p, status)
      BY <2>5
    <3> DEFINE r == [Idle EXCEPT !.op = "heartbeat", !.agent = a, !.printer = p, !.next = status]
    <3>1. Only(r)
      BY DEF HeartbeatAuth, Begin
    <3>2. RequestOK(r) /\ r.op \notin {"transition", "discovery"}
      BY IdleIsOK DEF RequestOK, Request, Ops, Idle
    <3> QED
      BY <3>1, <3>2, <1>1
  <2>6. CASE \E code \in 1..MaxMint : RegisterResolve(w, code)
    <3> PICK code \in 1..MaxMint : RegisterResolve(w, code)
      BY <2>6
    <3>1. CASE \E a \in Agents : Begin(w, [Idle EXCEPT !.op = "register", !.agent = a, !.num = code])
      <4> PICK a \in Agents : Begin(w, [Idle EXCEPT !.op = "register", !.agent = a, !.num = code])
        BY <3>1
      <4> DEFINE r == [Idle EXCEPT !.op = "register", !.agent = a, !.num = code]
      <4>1. Only(r)
        BY DEF RegisterResolve, Begin
      <4>2. RequestOK(r) /\ r.op \notin {"transition", "discovery"}
        <5>1. code \in Nat /\ code # 0
          BY MintAssumption
        <5> QED
          BY <5>1, IdleIsOK DEF RequestOK, Request, Ops
      <4> QED
        BY <4>1, <4>2, <1>1
    <3>2. CASE work' = work
      BY <3>2, Unchanged DEF RegisterResolve, tableVars
    <3> QED
      BY <3>1, <3>2 DEF RegisterResolve
  <2>7. CASE \E a \in Agents, secret \in 1..Len(exchanged) : UpgradeAuth(w, a, secret)
    <3> PICK a \in Agents, secret \in 1..Len(exchanged) : UpgradeAuth(w, a, secret)
      BY <2>7
    <3>1. CASE ValidateAgent(a, secret)
      <4> DEFINE r == [Idle EXCEPT !.op = "upgrade", !.agent = a, !.num = secret]
      <4>1. Only(r)
        BY <3>1 DEF UpgradeAuth, Begin
      <4>2. RequestOK(r) /\ r.op \notin {"transition", "discovery"}
        <5>1. secret \in Nat
          BY DEF TablesInv, RowsOK
        <5> QED
          BY <5>1, IdleIsOK DEF RequestOK, Request, Ops, Idle
      <4> QED
        BY <4>1, <4>2, <1>1
    <3>2. CASE ~ValidateAgent(a, secret)
      BY <3>2, Unchanged DEF UpgradeAuth, tableVars
    <3> QED
      BY <3>1, <3>2
  <2> QED
    BY <1>3, <2>2, <2>3, <2>4, <2>5, <2>6, <2>7 DEF StartWork
<1>4. CASE RefuseDelete(w)
  BY <1>4, <1>2 DEF RefuseDelete, Done, Continue
<1>5. CASE UpgradeInspect(w) \/ RegisterInspect(w)
  BY <1>5, Unchanged DEF UpgradeInspect, RegisterInspect, tableVars, agentVars
<1>6. CASE HeartbeatLookup(w)
  <2>1. CASE Done(w)
    BY <1>6, <2>1, <1>2 DEF HeartbeatLookup, Done, Continue
  <2>2. CASE Continue(w, [work[w] EXCEPT !.op = "insert"])
    <3>1. RequestOK([work[w] EXCEPT !.op = "insert"])
      BY <1>0 DEF RequestOK, Request, Ops
    <3>2. [work[w] EXCEPT !.op = "insert"].op = "insert"
      BY <1>0 DEF RequestOK, Request
    <3> QED
      BY <1>6, <2>2, <3>1, <3>2, <1>1 DEF HeartbeatLookup, Continue
  <2> QED
    BY <1>6, <2>1, <2>2 DEF HeartbeatLookup
<1>7. CASE \E here, delivered \in BOOLEAN : Teardown(w, here, delivered)
  BY <1>7, <1>2 DEF Teardown, Done, Continue
<1>8. CASE \E s \in SocketIds : UpgradeTrack(w, s)
  BY <1>8, <1>2 DEF UpgradeTrack, Done, Continue
<1> QED
  BY <1>3, <1>4, <1>5, <1>6, <1>7, <1>8

LEMMA CreateAgentInv ==
  ASSUME TablesInv, UNCHANGED discoveryVars, NEW w \in Workers, NEW a \in Agents, CreateAgent(w, a)
  PROVE  TablesInv' /\ KeepOwners
<1> USE DEF discoveryVars, CreateAgent, Minted
<1>1. RowsOK'
  BY DEF TablesInv, RowsOK, AgentRow, Lifecycles
<1>2. CredentialsOnlyWhenActive'
  BY DEF TablesInv, RowsOK, CredentialsOnlyWhenActive
<1>3. CodesInv'
  <2>1. /\ minted \in Nat /\ minted' = minted + 1
        /\ \A b \in Agents : agents[b].code \in Nat
        /\ \A v \in Workers : work[v].num \in Nat
        /\ Len(exchanged) \in Nat
        /\ \A b \in Agents \ {a} : agents'[b] = agents[b]
        /\ agents'[a].code = minted + 1
    BY DEF TablesInv, RowsOK, AgentRow, Request
  <2>2. UNCHANGED <<work, exchanged>>
    OBVIOUS
  <2> QED
    BY <2>1, <2>2 DEF TablesInv, CodesInv, Minting, OneSecretPerCode
<1>4. ProvisionInv'
  BY DEF TablesInv, ProvisionInv, Discovering, Doing, Approved
<1> QED
  BY <1>1, <1>2, <1>3, <1>4 DEF TablesInv, KeepOwners

LEMMA CodeExpiresInv ==
  ASSUME TablesInv, UNCHANGED discoveryVars, NEW a \in Agents, CodeExpires(a)
  PROVE  TablesInv' /\ KeepOwners
<1> USE DEF discoveryVars, CodeExpires
<1>1. RowsOK'
  BY DEF TablesInv, RowsOK, AgentRow
<1>2. CredentialsOnlyWhenActive'
  BY DEF TablesInv, RowsOK, CredentialsOnlyWhenActive, AgentRow
<1>3. CodesInv'
  BY DEF TablesInv, RowsOK, CodesInv, Minting, OneSecretPerCode, AgentRow
<1>4. ProvisionInv'
  BY DEF TablesInv, ProvisionInv, Discovering, Doing, Approved
<1> QED
  BY <1>1, <1>2, <1>3, <1>4 DEF TablesInv, KeepOwners

LEMMA RegisterCommitInv ==
  ASSUME TablesInv, UNCHANGED discoveryVars, NEW w \in Workers, RegisterCommit(w)
  PROVE  TablesInv' /\ KeepOwners
<1> USE DEF discoveryVars
<1> DEFINE a == work[w].agent
           code == work[w].num
<1>0. /\ RequestOK(Idle) /\ Idle.op = "idle"
      /\ a \in Agents /\ code \in Nat \ {0} /\ work[w].op = "register"
      /\ work' = [work EXCEPT ![w] = Idle]
      /\ UNCHANGED <<printers, minted>>
  BY IdleIsOK DEF Idle, TablesInv, RowsOK, RequestOK, Request, RegisterCommit, Doing, Done, Continue
<1>1. CASE ~Matches(a, code)
  BY <1>0, <1>1, OnlyWork DEF RegisterCommit, TablesInv, ProvisionInv
<1>2. CASE Matches(a, code)
  <2>1. /\ agents' = [agents EXCEPT ![a].secret = Len(exchanged) + 1, ![a].code = 0,
                                    ![a].fresh = FALSE, ![a].online = TRUE]
        /\ exchanged' = Append(exchanged, code)
        /\ agents[a].lifecycle = "active" /\ agents[a].code = code
    BY <1>2 DEF RegisterCommit, Matches
  <2> HIDE DEF a, code
  <2>2. /\ agents' \in [Agents -> AgentRow]
        /\ \A b \in Agents : agents'[b].lifecycle = agents[b].lifecycle
        /\ \A b \in Agents \ {a} : agents'[b] = agents[b]
        /\ agents'[a].code = 0
    BY <1>0, <2>1 DEF TablesInv, RowsOK, AgentRow
  <2>3. /\ Len(exchanged') = Len(exchanged) + 1 /\ exchanged' \in Seq(Nat)
        /\ exchanged'[Len(exchanged) + 1] = code
        /\ \A i \in 1..Len(exchanged) : exchanged'[i] = exchanged[i]
    BY <1>0, <2>1 DEF TablesInv, RowsOK
  <2>4. RowsOK'
    BY <1>0, <2>2, <2>3 DEF TablesInv, RowsOK, RequestOK
  <2>5. CredentialsOnlyWhenActive'
    BY <2>1, <2>2 DEF TablesInv, CredentialsOnlyWhenActive
  <2>6. CodesInv'
    <3>1. \A v \in Workers : Minting(v)' => v # w /\ work'[v] = work[v] /\ Minting(v)
      BY <1>0 DEF TablesInv, RowsOK, Minting
    <3>2. Len(exchanged) \in Nat
      BY DEF TablesInv, RowsOK
    <3>3. \A b \in Agents : agents[b].code \in Nat
      BY DEF TablesInv, RowsOK, AgentRow
    <3>4. \A i \in 1..Len(exchanged) : exchanged[i] # code
      BY <1>0, <2>1 DEF TablesInv, CodesInv
    <3>5. OneSecretPerCode'
      BY <2>3, <3>2, <3>4 DEF TablesInv, CodesInv, OneSecretPerCode
    <3>6. code <= minted
      BY <1>0, <2>1 DEF TablesInv, CodesInv
    <3>7. \A b \in Agents \ {a} : agents[b].code # code
      BY <1>0, <2>1 DEF TablesInv, CodesInv
    <3>8. /\ \A v \in Workers : Minting(v) => work[v].num # code
          /\ \A v \in Workers : work[v].num \in Nat
      BY <1>0, <2>1 DEF TablesInv, CodesInv, RowsOK, Request
    <3>9. minted \in Nat /\ Len(exchanged)' = Len(exchanged) + 1
      BY <2>3 DEF TablesInv, RowsOK
    <3>10. /\ \A b \in Agents : agents'[b].code \in {0, agents[b].code}
           /\ \A i \in 1..Len(exchanged') : exchanged'[i] = code \/ \E k \in 1..Len(exchanged) : exchanged'[i] = exchanged[k]
      BY <2>2, <2>3, <3>2
    <3>11. \A b \in Agents, i \in 1..Len(exchanged') : agents'[b].code # exchanged'[i]
      BY <1>0, <2>2, <3>4, <3>7, <3>10, <3>2 DEF TablesInv, CodesInv
    <3>12. \A i \in 1..Len(exchanged') : exchanged'[i] \in 1..minted
      BY <1>0, <3>6, <3>9, <3>10 DEF TablesInv, CodesInv
    <3>13. \A v \in Workers : Minting(v)' => \A i \in 1..Len(exchanged') : exchanged'[i] # work'[v].num
      BY <3>1, <3>8, <3>10 DEF TablesInv, CodesInv
    <3>14. \A v \in Workers : Minting(v)' =>
             /\ work'[v].num <= minted
             /\ \A b \in Agents : agents'[b].code # work'[v].num
             /\ \A u \in Workers : Minting(u)' /\ work'[u].num = work'[v].num => u = v
      <4> TAKE v \in Workers
      <4> HAVE Minting(v)'
      <4>1. work'[v] = work[v] /\ Minting(v) /\ work[v].num # 0
        BY <3>1 DEF Minting
      <4> QED
        BY <4>1, <3>1, <3>10 DEF TablesInv, CodesInv
    <3>15. \A b, c \in Agents : agents'[b].code = agents'[c].code => agents'[b].code = 0 \/ b = c
      BY <3>10, <2>2 DEF TablesInv, CodesInv
    <3>16. \A b \in Agents : agents'[b].code <= minted
      BY <3>10, <3>9 DEF TablesInv, CodesInv
    <3> QED
      BY <1>0, <3>5, <3>11, <3>12, <3>13, <3>14, <3>15, <3>16 DEF CodesInv
  <2>7. ProvisionInv'
    <3>1. \A v \in Workers : Discovering(v, "insert")' => Discovering(v, "insert") /\ work'[v] = work[v]
      BY <1>0 DEF TablesInv, RowsOK, Discovering, Doing
    <3> QED
      BY <1>0, <3>1 DEF TablesInv, ProvisionInv, Approved
  <2> QED
    BY <1>0, <2>4, <2>5, <2>6, <2>7 DEF TablesInv, KeepOwners
<1> QED
  BY <1>1, <1>2

LEMMA StartTransitionInv ==
  ASSUME TablesInv, UNCHANGED discoveryVars, NEW w \in Workers, NEW a \in Agents,
         NEW next \in Lifecycles, StartTransition(w, a, next)
  PROVE  TablesInv' /\ KeepOwners
<1> DEFINE n == IF agents[a].lifecycle = "disabled" /\ next = "active" THEN Minted ELSE 0
           r == [Idle EXCEPT !.op = "transition", !.agent = a, !.next = next, !.num = n]
<1>1. /\ work' = [work EXCEPT ![w] = r]
      /\ minted' = IF n = 0 THEN minted ELSE n
      /\ UNCHANGED <<agents, printers, exchanged>>
  BY DEF StartTransition, Begin, Minted, TablesInv, RowsOK
<1>2. /\ n \in {0, minted + 1} /\ minted \in Nat
      /\ n # 0 => next = "active"
  BY DEF TablesInv, RowsOK, Minted
<1> HIDE DEF n
<1>3. RequestOK(r) /\ r.op = "transition" /\ r.num = n
  <2>1. n \in Nat
    BY <1>2
  <2> QED
    BY <1>2, <2>1, IdleIsOK DEF RequestOK, Request, Ops, Nexts
<1> HIDE DEF r
<1>4. RowsOK'
  BY <1>1, <1>2, <1>3 DEF TablesInv, RowsOK, RequestOK
<1>5. CredentialsOnlyWhenActive'
  BY <1>1 DEF TablesInv, CredentialsOnlyWhenActive
<1>6. CodesInv'
  <2>1. \A v \in Workers : Minting(v)' =>
          /\ v # w => Minting(v) /\ work'[v] = work[v]
          /\ v = w => work'[v].num = n /\ n = minted + 1
    BY <1>1, <1>2, <1>3 DEF TablesInv, RowsOK, Minting
  <2>2. /\ \A v \in Workers : work[v].num \in Nat
        /\ \A b \in Agents : agents[b].code \in Nat
        /\ Len(exchanged) \in Nat
    BY DEF TablesInv, RowsOK, Request, AgentRow
  <2>3. \A v \in Workers : Minting(v)' =>
          /\ work'[v].num <= minted'
          /\ \A b \in Agents : agents[b].code # work'[v].num
          /\ \A i \in 1..Len(exchanged) : exchanged[i] # work'[v].num
    BY <1>1, <1>2, <2>1, <2>2 DEF TablesInv, CodesInv
  <2>4. \A v, u \in Workers : Minting(v)' /\ Minting(u)' /\ work'[u].num = work'[v].num => u = v
    BY <1>1, <1>2, <2>1, <2>2 DEF TablesInv, CodesInv
  <2> QED
    BY <1>1, <1>2, <2>2, <2>3, <2>4 DEF TablesInv, CodesInv, OneSecretPerCode
<1>7. ProvisionInv'
  <2>1. \A v \in Workers : Discovering(v, "insert")' => Discovering(v, "insert") /\ work'[v] = work[v]
    BY <1>1, <1>3 DEF TablesInv, RowsOK, Discovering, Doing
  <2> QED
    BY <1>1, <2>1 DEF TablesInv, ProvisionInv, Approved, discoveryVars
<1> QED
  BY <1>1, <1>4, <1>5, <1>6, <1>7 DEF TablesInv, KeepOwners

LEMMA CommitTransitionInv ==
  ASSUME TablesInv, UNCHANGED discoveryVars, NEW w \in Workers, CommitTransition(w)
  PROVE  TablesInv' /\ KeepOwners
<1> DEFINE a == work[w].agent
           next == work[w].next
           n == work[w].num
           r == [work[w] EXCEPT !.op = "teardown", !.next = "", !.num = 0]
<1>0. /\ a \in Agents /\ n \in Nat /\ next \in Lifecycles /\ (n # 0 => next = "active")
      /\ work[w].op = "transition" /\ work[w] \in Request
  BY DEF TablesInv, RowsOK, RequestOK, Request, CommitTransition, Doing
<1>1. /\ work' = [work EXCEPT ![w] = r]
      /\ agents' = IF agents[a].lifecycle = "absent" THEN agents ELSE
           [agents EXCEPT ![a] = [lifecycle |-> next, secret |-> 0, code |-> n,
                                  fresh |-> n # 0, online |-> FALSE]]
      /\ UNCHANGED <<minted, exchanged>>
  BY DEF CommitTransition, Continue
<1>2. RequestOK(r) /\ r.op = "teardown"
  BY <1>0 DEF RequestOK, Request, Ops, Nexts
<1>3. \A p \in Printers : /\ printers'[p].owner = printers[p].owner
                          /\ (printers'[p].lifecycle = "absent") <=> (printers[p].lifecycle = "absent")
  BY DEF CommitTransition, TablesInv, RowsOK, PrinterRow
<1>4. printers' \in [Printers -> PrinterRow]
  BY DEF CommitTransition, TablesInv, RowsOK, PrinterRow, Lifecycles
<1> HIDE DEF a, next, n, r
<1>5. /\ agents' \in [Agents -> AgentRow]
      /\ \A b \in Agents \ {a} : agents'[b] = agents[b]
      /\ agents'[a].code \in {agents[a].code, n}
      /\ agents'[a].code = agents[a].code \/ agents'[a].code = n
  BY <1>0, <1>1 DEF TablesInv, RowsOK, AgentRow
<1>6. RowsOK'
  BY <1>1, <1>2, <1>4, <1>5 DEF TablesInv, RowsOK, RequestOK
<1>7. CredentialsOnlyWhenActive'
  BY <1>0, <1>1 DEF TablesInv, RowsOK, CredentialsOnlyWhenActive
<1>8. CodesInv'
  <2>1. \A v \in Workers : Minting(v)' => v # w /\ Minting(v) /\ work'[v] = work[v]
    BY <1>1, <1>2 DEF TablesInv, RowsOK, Minting
  <2>2. n # 0 => Minting(w) /\ work[w].num = n
    BY <1>0 DEF Minting, n
  <2>3. /\ \A v \in Workers : work[v].num \in Nat
        /\ \A b \in Agents : agents[b].code \in Nat
        /\ Len(exchanged) \in Nat /\ minted \in Nat
    BY DEF TablesInv, RowsOK, Request, AgentRow
  <2>4. /\ n <= minted
        /\ n # 0 => /\ \A b \in Agents : agents[b].code # n
                   /\ \A v \in Workers \ {w} : Minting(v) => work[v].num # n
        /\ \A i \in 1..Len(exchanged) : exchanged[i] # n
    BY <1>0, <2>2, <2>3 DEF TablesInv, CodesInv
  <2>5. /\ \A b \in Agents : agents'[b].code <= minted
        /\ \A b \in Agents, i \in 1..Len(exchanged) : agents'[b].code # exchanged[i]
    BY <1>5, <2>4 DEF TablesInv, CodesInv
  <2>6. \A b, c \in Agents : agents'[b].code = agents'[c].code => agents'[b].code = 0 \/ b = c
    BY <1>5, <2>4 DEF TablesInv, CodesInv
  <2>7. \A v \in Workers : Minting(v)' =>
             /\ work'[v].num <= minted
             /\ \A b \in Agents : agents'[b].code # work'[v].num
             /\ \A i \in 1..Len(exchanged) : exchanged[i] # work'[v].num
             /\ \A u \in Workers : Minting(u)' /\ work'[u].num = work'[v].num => u = v
    <3> TAKE v \in Workers
    <3> HAVE Minting(v)'
    <3>1. v # w /\ work'[v] = work[v] /\ Minting(v) /\ work[v].num # 0
      BY <2>1 DEF Minting
    <3> QED
      BY <3>1, <2>1, <2>4, <1>5 DEF TablesInv, CodesInv
  <2> QED
    BY <1>1, <2>5, <2>6, <2>7 DEF TablesInv, CodesInv, OneSecretPerCode
<1>9. ProvisionInv'
  <2>1. \A v \in Workers : Discovering(v, "insert")' => Discovering(v, "insert") /\ work'[v] = work[v]
    BY <1>1, <1>2 DEF TablesInv, RowsOK, Discovering, Doing
  <2> QED
    BY <1>3, <2>1 DEF TablesInv, ProvisionInv, Approved, discoveryVars
<1> QED
  BY <1>3, <1>6, <1>7, <1>8, <1>9 DEF TablesInv, KeepOwners

(* Rows of printers and the online flag: no credential is touched.         *)
LEMMA SameCodes ==
  ASSUME TablesInv, NEW w \in Workers, NEW r, r.op # "transition", work' = [work EXCEPT ![w] = r],
         UNCHANGED <<minted, exchanged>>,
         \A a \in Agents : /\ agents'[a].lifecycle = agents[a].lifecycle
                           /\ agents'[a].secret = agents[a].secret
                           /\ agents'[a].code = agents[a].code
  PROVE  CredentialsOnlyWhenActive' /\ CodesInv'
<1>1. CredentialsOnlyWhenActive'
  BY DEF TablesInv, CredentialsOnlyWhenActive
<1>2. \A v \in Workers : Minting(v)' => v # w /\ Minting(v) /\ work'[v] = work[v]
  BY DEF TablesInv, RowsOK, Minting
<1>3. CodesInv'
  BY <1>2 DEF TablesInv, CodesInv, OneSecretPerCode
<1> QED
  BY <1>1, <1>3

(* A step of a worker that leaves the devices, and changes printers without *)
(* changing owners or bringing one back that a device became.              *)
LEMMA PrinterStep ==
  ASSUME TablesInv, UNCHANGED discoveryVars, NEW w \in Workers, NEW r, RequestOK(r),
         r.op \notin {"transition", "discovery"}, work' = [work EXCEPT ![w] = r],
         UNCHANGED <<minted, exchanged>>,
         agents' \in [Agents -> AgentRow],
         \A a \in Agents : /\ agents'[a].lifecycle = agents[a].lifecycle
                           /\ agents'[a].secret = agents[a].secret
                           /\ agents'[a].code = agents[a].code,
         printers' \in [Printers -> PrinterRow],
         \A p \in Printers : printers[p].lifecycle # "absent" =>
           /\ printers'[p].lifecycle # "absent"
           /\ printers'[p].owner = printers[p].owner
  PROVE  TablesInv' /\ KeepOwners
<1>1. RowsOK'
  BY DEF TablesInv, RowsOK, RequestOK
<1>2. CredentialsOnlyWhenActive' /\ CodesInv'
  BY SameCodes
<1>3. ProvisionInv'
  <2>1. \A v \in Workers : Discovering(v, "insert")' => Discovering(v, "insert") /\ work'[v] = work[v]
    BY DEF TablesInv, RowsOK, Discovering, Doing
  <2> QED
    BY <2>1 DEF TablesInv, ProvisionInv, Approved, discoveryVars
<1> QED
  BY <1>1, <1>2, <1>3 DEF TablesInv, KeepOwners

LEMMA PrinterSteps ==
  ASSUME TablesInv, UNCHANGED discoveryVars, NEW w \in Workers,
         \/ CommitPrinter(w) \/ CommitCreatePrinter(w) \/ HeartbeatAgent(w) \/ HeartbeatInsert(w)
  PROVE  TablesInv' /\ KeepOwners
<1> DEFINE r == IF work[w].op = "heartbeat" THEN [work[w] EXCEPT !.op = "lookup", !.next = ""] ELSE Idle
<1>1. RequestOK(work[w]) /\ work[w] \in Request /\ RequestOK(Idle) /\ Idle.op = "idle"
  BY IdleIsOK DEF TablesInv, RowsOK, Idle
<1>2. RequestOK(r) /\ r.op \notin {"transition", "discovery"}
  BY <1>1 DEF RequestOK, Request, Ops, Nexts
<1>3. work' = [work EXCEPT ![w] = r]
  BY DEF CommitPrinter, CommitCreatePrinter, HeartbeatAgent, HeartbeatInsert, Doing, Done, Continue
<1> HIDE DEF r
<1>4. agents \in [Agents -> AgentRow] /\ printers \in [Printers -> PrinterRow]
  BY DEF TablesInv, RowsOK
<1>5. CASE CommitPrinter(w)
  <2>1. work[w].next \in Lifecycles
    BY <1>1, <1>5 DEF CommitPrinter, Doing, RequestOK
  <2>2. /\ printers' \in [Printers -> PrinterRow]
        /\ \A p \in Printers : printers[p].lifecycle # "absent" =>
             /\ printers'[p].lifecycle # "absent"
             /\ printers'[p].owner = printers[p].owner
    BY <1>4, <1>5, <2>1 DEF CommitPrinter, PrinterRow, Lifecycles
  <2>3. UNCHANGED <<agents, minted, exchanged>>
    BY <1>5 DEF CommitPrinter
  <2> QED
    BY <1>2, <1>3, <1>4, <2>2, <2>3, PrinterStep
<1>6. CASE CommitCreatePrinter(w) \/ HeartbeatInsert(w)
  <2>1. /\ printers' \in [Printers -> PrinterRow]
        /\ \A p \in Printers : printers[p].lifecycle # "absent" => printers'[p] = printers[p]
    BY <1>1, <1>4, <1>6 DEF CommitCreatePrinter, HeartbeatInsert, PrinterRow, Lifecycles, Request
  <2>2. UNCHANGED <<agents, minted, exchanged>>
    BY <1>6 DEF CommitCreatePrinter, HeartbeatInsert
  <2> QED
    BY <1>2, <1>3, <1>4, <2>1, <2>2, PrinterStep
<1>7. CASE HeartbeatAgent(w)
  <2> DEFINE b == work[w].agent
             on == work[w].next = "online"
  <2>a. agents' = agents \/ agents' = [agents EXCEPT ![b].online = on]
    BY <1>7, Zenon DEF HeartbeatAgent
  <2>b. b \in Agents /\ on \in BOOLEAN
    BY <1>1 DEF Request
  <2> HIDE DEF b, on
  <2>c. /\ [agents[b] EXCEPT !.online = on] \in AgentRow
        /\ [agents[b] EXCEPT !.online = on].lifecycle = agents[b].lifecycle
        /\ [agents[b] EXCEPT !.online = on].secret = agents[b].secret
        /\ [agents[b] EXCEPT !.online = on].code = agents[b].code
    BY <1>4, <2>b DEF AgentRow
  <2>1. /\ agents' \in [Agents -> AgentRow]
        /\ \A a \in Agents : /\ agents'[a].lifecycle = agents[a].lifecycle
                             /\ agents'[a].secret = agents[a].secret
                             /\ agents'[a].code = agents[a].code
    BY <1>4, <2>a, <2>b, <2>c
  <2>2. UNCHANGED <<printers, minted, exchanged>>
    BY <1>7 DEF HeartbeatAgent
  <2> QED
    BY <1>2, <1>3, <1>4, <2>1, <2>2, PrinterStep
<1> QED
  BY <1>5, <1>6, <1>7

LEMMA CommitDeleteInv ==
  ASSUME TablesInv, NEW w \in Workers, CommitDeleteWithDiscovery(w)
  PROVE  TablesInv' /\ KeepOwners
<1> DEFINE a == work[w].agent
           deletable == agents[a].lifecycle \in {"active", "disabled"} /\ ~agents[a].online
           gone == agents[a].lifecycle # "absent" /\ agents'[a].lifecycle = "absent"
           r == [Idle EXCEPT !.op = "teardown", !.agent = a]
<1>0. /\ a \in Agents /\ RequestOK(Idle) /\ Idle.op = "idle" /\ AnyAgent \in Agents
      /\ CommitDelete(w)
      /\ UNCHANGED <<minted, exchanged, rowLock, target>>
  BY IdleIsOK DEF TablesInv, RowsOK, Request, Idle, CommitDeleteWithDiscovery, CommitDelete
<1>1. /\ \A d \in Devices : devices[d].agent = a => rowLock[d] = Unlocked
      /\ devices' = [d \in Devices |-> IF gone /\ devices[d].agent = a THEN AbsentDevice ELSE devices[d]]
      /\ sessions' = [s \in Sessions |-> IF gone /\ sessions[s].agent = a THEN AbsentSession ELSE sessions[s]]
      /\ origin' = [p \in Printers |-> IF printers'[p].lifecycle = "absent" THEN NoDevice ELSE origin[p]]
  BY DEF CommitDeleteWithDiscovery
<1>2. CASE ~deletable
  <2>1. work' = [work EXCEPT ![w] = Idle] /\ UNCHANGED <<agents, printers>>
    BY <1>0, <1>2 DEF CommitDelete, Done, Continue
  <2>2. ~gone
    BY <2>1
  <2>3. UNCHANGED <<devices, sessions>>
    BY <1>1, <2>2 DEF TablesInv, ProvisionInv
  <2>4. origin' = origin
    BY <1>1, <2>1 DEF TablesInv, ProvisionInv
  <2> QED
    BY <1>0, <2>1, <2>3, <2>4, OnlyWork DEF TablesInv, ProvisionInv
<1>3. CASE deletable
  <2>1. /\ agents' = [agents EXCEPT ![a] = AbsentAgent]
        /\ printers' = [p \in Printers |-> IF printers[p].owner = a THEN AbsentPrinter ELSE printers[p]]
        /\ work' = [work EXCEPT ![w] = r]
    BY <1>0, <1>3 DEF CommitDelete, Continue
  <2>2. RequestOK(r) /\ r.op = "teardown"
    BY <1>0 DEF RequestOK, Request, Ops
  <2>3. gone
    BY <1>0, <1>3, <2>1 DEF AbsentAgent, TablesInv, RowsOK
  <2> HIDE DEF a, r, gone, deletable
  <2>4. /\ AbsentAgent \in AgentRow /\ AbsentAgent.code = 0 /\ AbsentAgent.secret = 0
        /\ AbsentPrinter \in PrinterRow /\ AbsentPrinter.lifecycle = "absent"
    BY <1>0 DEF AbsentAgent, AbsentPrinter, AgentRow, PrinterRow
  <2>5. /\ agents' \in [Agents -> AgentRow]
        /\ \A b \in Agents \ {a} : agents'[b] = agents[b]
        /\ agents'[a] = AbsentAgent
    BY <1>0, <2>1, <2>4 DEF TablesInv, RowsOK
  <2>6. RowsOK'
    BY <1>0, <2>1, <2>2, <2>4, <2>5 DEF TablesInv, RowsOK, RequestOK
  <2>7. CredentialsOnlyWhenActive'
    BY <2>4, <2>5 DEF TablesInv, CredentialsOnlyWhenActive
  <2>8. CodesInv'
    <3>1. \A v \in Workers : Minting(v)' => v # w /\ Minting(v) /\ work'[v] = work[v]
      BY <2>1, <2>2 DEF TablesInv, RowsOK, Minting
    <3>2. \A b \in Agents : agents'[b].code = agents[b].code \/ agents'[b].code = 0
      BY <2>4, <2>5
    <3>3. /\ minted \in Nat /\ Len(exchanged) \in Nat
          /\ \A i \in 1..Len(exchanged) : exchanged[i] # 0
          /\ \A v \in Workers : Minting(v) => work[v].num # 0
      BY DEF TablesInv, RowsOK, CodesInv, Minting
    <3>4. /\ \A b \in Agents : agents'[b].code <= minted
          /\ \A b \in Agents, i \in 1..Len(exchanged) : agents'[b].code # exchanged[i]
          /\ \A b, c \in Agents : agents'[b].code = agents'[c].code => agents'[b].code = 0 \/ b = c
      BY <3>2, <3>3 DEF TablesInv, CodesInv
    <3>5. \A v \in Workers : Minting(v)' =>
            /\ work'[v].num <= minted
            /\ \A b \in Agents : agents'[b].code # work'[v].num
            /\ \A i \in 1..Len(exchanged) : exchanged[i] # work'[v].num
            /\ \A u \in Workers : Minting(u)' /\ work'[u].num = work'[v].num => u = v
      BY <3>1, <3>2, <3>3 DEF TablesInv, CodesInv
    <3> QED
      BY <1>0, <3>4, <3>5 DEF TablesInv, CodesInv, OneSecretPerCode
  <2>9. ProvisionInv'
    <3>1. /\ sessions' \in [Sessions -> [status: SessionStates, agent: Agents]]
          /\ devices' \in [Devices -> DeviceRow]
          /\ \A d \in Devices : devices[d].agent # a => devices'[d] = devices[d]
      BY <1>0, <1>1 DEF TablesInv, ProvisionInv, AbsentSession, AbsentDevice, SessionStates, DeviceRow
    <3>2. /\ \A p \in Printers : origin'[p] # NoDevice =>
               origin'[p] = origin[p] /\ printers[p].owner # a /\ printers'[p] = printers[p]
          /\ \A p \in Printers : origin'[p] # NoDevice => printers'[p].lifecycle # "absent"
          /\ origin' \in [Printers -> Devices \union {NoDevice}]
      BY <1>1, <2>1, <2>4 DEF TablesInv, ProvisionInv
    <3>3. \A v \in Workers : Discovering(v, "insert")' => Discovering(v, "insert") /\ work'[v] = work[v]
      BY <2>1, <2>2 DEF TablesInv, RowsOK, Discovering, Doing
    <3>4. \A v \in Workers : Discovering(v, "insert")' =>
            /\ target[v].device \in Devices
            /\ rowLock[target[v].device] = v
            /\ Approved(target[v].device, work[v].agent)'
      <4> SUFFICES ASSUME NEW v \in Workers, Discovering(v, "insert")'
                   PROVE  /\ target[v].device \in Devices
                          /\ rowLock[target[v].device] = v
                          /\ Approved(target[v].device, work[v].agent)'
        OBVIOUS
      <4>1. /\ target[v].device \in Devices
            /\ rowLock[target[v].device] = v
            /\ Approved(target[v].device, work[v].agent)
            /\ work'[v] = work[v] /\ target'[v] = target[v]
        BY <1>0, <3>3 DEF TablesInv, ProvisionInv
      <4>2. devices[target[v].device].agent # a
        BY <1>1, <4>1, DiscoveryAssumption
      <4>3. devices'[target[v].device] = devices[target[v].device]
        BY <3>1, <4>1, <4>2
      <4> QED
        BY <4>1, <4>3 DEF Approved
    <3>5. \A p \in Printers : origin'[p] # NoDevice =>
            /\ devices'[origin'[p]].status = "provisioned"
            /\ devices'[origin'[p]].agent = printers'[p].owner
      BY <3>1, <3>2 DEF TablesInv, ProvisionInv
    <3> QED
      BY <1>0, <3>1, <3>2, <3>4, <3>5 DEF TablesInv, ProvisionInv
  <2>10. KeepOwners
    BY <2>1, <2>4 DEF KeepOwners
  <2> QED
    BY <2>6, <2>7, <2>8, <2>9, <2>10 DEF TablesInv
<1> QED
  BY <1>2, <1>3

-----------------------------------------------------------------------------
(* Discovery.                                                              *)

LEMMA DiscoveryWork ==
  ASSUME TablesInv, NEW w \in Workers,
         \/ \E a \in Agents, s \in Sessions : StartDiscovery(w, a, s)
         \/ InsertSession(w)
         \/ \E s \in Sessions : StartCancel(w, s)
         \/ \E a \in Agents, s \in Sessions, secret \in 1..Len(exchanged) : StartReport(w, a, secret, s)
         \/ \E status \in {"completed", "partial", "failed", "cancelled"} : EndSession(w, status)
         \/ EndReport(w)
         \/ \E d \in Devices : StartProvision(w, d)
  PROVE  TablesInv' /\ KeepOwners
<1>0. /\ RequestOK(Idle) /\ Idle.op = "idle" /\ work[w].agent \in Agents
      /\ sessions \in [Sessions -> [status: SessionStates, agent: Agents]]
      /\ devices \in [Devices -> DeviceRow] /\ target \in [Workers -> Target]
      /\ NoTarget \in Target
  BY IdleIsOK DEF Idle, TablesInv, RowsOK, Request, ProvisionInv, NoTarget, Target
<1>1. ASSUME NEW a \in Agents, NEW what \in {"start", "cancel", "report", "provision"},
             NEW t \in Target, BeginDiscovery(w, a, what, t),
             UNCHANGED <<agents, printers, minted, exchanged, sessions, devices, rowLock, origin>>
      PROVE  TablesInv' /\ KeepOwners
  <2> DEFINE r == [Idle EXCEPT !.op = "discovery", !.agent = a, !.next = what]
  <2>1. work' = [work EXCEPT ![w] = r] /\ target' = [target EXCEPT ![w] = t]
    BY <1>1 DEF BeginDiscovery, Begin
  <2>2. RequestOK(r) /\ r.op = "discovery" /\ r.next = what
    BY IdleIsOK DEF RequestOK, Request, Ops, Nexts
  <2> HIDE DEF r
  <2>3. /\ target' \in [Workers -> Target] /\ \A v \in Workers \ {w} : target'[v] = target[v]
        /\ ~(r.op = "discovery" /\ r.next = "insert") /\ r.op # "transition"
    BY <1>0, <2>1, <2>2
  <2> QED
    BY <1>0, <1>1, <2>1, <2>2, <2>3, OnlyWork
<1>2. ASSUME Finish(w), sessions' \in [Sessions -> [status: SessionStates, agent: Agents]],
             UNCHANGED <<agents, printers, minted, exchanged, devices, rowLock, origin>>
      PROVE  TablesInv' /\ KeepOwners
  <2>1. work' = [work EXCEPT ![w] = Idle] /\ target' = [target EXCEPT ![w] = NoTarget]
    BY <1>2 DEF Finish, Done, Continue
  <2>2. target' \in [Workers -> Target] /\ \A v \in Workers \ {w} : target'[v] = target[v]
    BY <1>0, <2>1
  <2> QED
    BY <1>0, <1>2, <2>1, <2>2, OnlyWork
<1>3. CASE \E a \in Agents, s \in Sessions : StartDiscovery(w, a, s)
  <2> PICK a \in Agents, s \in Sessions : StartDiscovery(w, a, s)
    BY <1>3
  <2>1. [NoTarget EXCEPT !.session = s] \in Target
    BY <1>0 DEF Target
  <2> QED
    BY <2>1, <1>1 DEF StartDiscovery, OnlyDiscovery
<1>4. CASE InsertSession(w)
  <2>1. sessions' \in [Sessions -> [status: SessionStates, agent: Agents]]
    BY <1>0, <1>4 DEF InsertSession, SessionStates
  <2> QED
    BY <2>1, <1>2, <1>4 DEF InsertSession, OnlyDiscovery
<1>5. ASSUME NEW s \in Sessions, NEW what \in {"cancel", "report"}, ReadSession(w, s, what)
      PROVE  TablesInv' /\ KeepOwners
  <2>1. [NoTarget EXCEPT !.session = s] \in Target /\ sessions[s].agent \in Agents
    BY <1>0 DEF Target
  <2> QED
    BY <2>1, <1>1, <1>5 DEF ReadSession, OnlyDiscovery
<1>6. CASE \E s \in Sessions : StartCancel(w, s)
  BY <1>5, <1>6 DEF StartCancel
<1>7. CASE \E a \in Agents, s \in Sessions, secret \in 1..Len(exchanged) : StartReport(w, a, secret, s)
  BY <1>5, <1>7 DEF StartReport
<1>8. CASE \E status \in {"completed", "partial", "failed", "cancelled"} : EndSession(w, status)
  <2>1. sessions' \in [Sessions -> [status: SessionStates, agent: Agents]]
    BY <1>0, <1>8 DEF EndSession, SessionStates
  <2> QED
    BY <2>1, <1>2, <1>8 DEF EndSession, OnlyDiscovery
<1>9. CASE EndReport(w)
  BY <1>0, <1>2, <1>9 DEF EndReport, OnlyDiscovery
<1>10. CASE \E d \in Devices : StartProvision(w, d)
  <2> PICK d \in Devices : StartProvision(w, d)
    BY <1>10
  <2>1. [NoTarget EXCEPT !.device = d] \in Target /\ devices[d].agent \in Agents
    BY <1>0 DEF Target, DeviceRow
  <2> QED
    BY <2>1, <1>1 DEF StartProvision, OnlyDiscovery
<1> QED
  BY <1>3, <1>4, <1>6, <1>7, <1>8, <1>9, <1>10

(* A device is inserted, approved, or linked to a printer: no device that  *)
(* a request has locked, and none that became a printer.                   *)
LEMMA DeviceStep ==
  ASSUME TablesInv, NEW w \in Workers, NEW d, NEW row \in DeviceRow,
         UNCHANGED <<agents, printers, minted, exchanged, sessions, rowLock, origin>>,
         \/ UNCHANGED <<work, target>>
         \/ work' = [work EXCEPT ![w] = Idle] /\ target' = [target EXCEPT ![w] = NoTarget],
         devices' = [devices EXCEPT ![d] = row],
         d \in Devices => /\ devices[d].status # "provisioned"
                          /\ devices[d].status = "verified" => rowLock[d] = Unlocked
  PROVE  TablesInv' /\ KeepOwners
<1>0. /\ RequestOK(Idle) /\ Idle.op = "idle" /\ NoTarget \in Target
      /\ work \in [Workers -> Request] /\ target \in [Workers -> Target]
      /\ devices \in [Devices -> DeviceRow]
  BY IdleIsOK DEF Idle, TablesInv, RowsOK, ProvisionInv, NoTarget, Target
<1>1. RowsOK'
  BY <1>0 DEF TablesInv, RowsOK, RequestOK
<1>2. CredentialsOnlyWhenActive'
  BY DEF TablesInv, CredentialsOnlyWhenActive
<1>3. CodesInv'
  <2>1. \A v \in Workers : Minting(v)' => Minting(v) /\ work'[v] = work[v]
    BY <1>0 DEF Minting
  <2> QED
    BY <2>1 DEF TablesInv, CodesInv, OneSecretPerCode
<1>4. ProvisionInv'
  <2>1. \A v \in Workers : Discovering(v, "insert")' =>
          Discovering(v, "insert") /\ work'[v] = work[v] /\ target'[v] = target[v]
    BY <1>0 DEF Discovering, Doing
  <2>2. \A v \in Workers : Discovering(v, "insert")' =>
          /\ target'[v].device \in Devices
          /\ rowLock'[target'[v].device] = v
          /\ Approved(target[v].device, work[v].agent)'
    <3> SUFFICES ASSUME NEW v \in Workers, Discovering(v, "insert")'
                 PROVE  /\ target'[v].device \in Devices
                        /\ rowLock'[target'[v].device] = v
                        /\ Approved(target[v].device, work[v].agent)'
      OBVIOUS
    <3>1. /\ target[v].device \in Devices
          /\ rowLock[target[v].device] = v
          /\ Approved(target[v].device, work[v].agent)
          /\ work'[v] = work[v] /\ target'[v] = target[v]
      BY <2>1 DEF TablesInv, ProvisionInv
    <3>2. target[v].device # d
      BY <3>1, DiscoveryAssumption DEF Approved
    <3> QED
      BY <1>0, <3>1, <3>2 DEF Approved
  <2>3. \A p \in Printers : origin[p] # NoDevice => devices'[origin[p]] = devices[origin[p]]
    BY <1>0 DEF TablesInv, ProvisionInv
  <2>4. devices' \in [Devices -> DeviceRow] /\ target' \in [Workers -> Target]
    BY <1>0
  <2> QED
    BY <2>2, <2>3, <2>4 DEF TablesInv, ProvisionInv
<1> QED
  BY <1>1, <1>2, <1>3, <1>4 DEF TablesInv, KeepOwners

LEMMA DeviceSteps ==
  ASSUME TablesInv, NEW w \in Workers,
         \/ \E d \in Devices : InsertDevice(w, d) \/ Verify(w, d)
         \/ ProvisionLock(w)
  PROVE  TablesInv' /\ KeepOwners
<1>0. /\ work \in [Workers -> Request] /\ devices \in [Devices -> DeviceRow]
      /\ work[w].agent \in Agents
  BY DEF TablesInv, RowsOK, ProvisionInv, Request
<1>1. CASE \E d \in Devices : InsertDevice(w, d)
  <2> PICK d \in Devices : InsertDevice(w, d)
    BY <1>1
  <2> DEFINE row == [status |-> "discovered", agent |-> work[w].agent, printer |-> NoPrinter]
  <2>1. row \in DeviceRow
    BY <1>0 DEF DeviceRow
  <2>2. devices' = [devices EXCEPT ![d] = row] /\ devices[d].status = "absent"
    BY DEF InsertDevice
  <2> HIDE DEF row
  <2> QED
    BY <2>1, <2>2, DeviceStep DEF InsertDevice, OnlyDiscovery
<1>2. CASE \E d \in Devices : Verify(w, d)
  <2> PICK d \in Devices : Verify(w, d)
    BY <1>2
  <2> DEFINE row == [devices[d] EXCEPT !.status = "verified"]
  <2>1. row \in DeviceRow
    BY <1>0 DEF DeviceRow
  <2>2. devices' = [devices EXCEPT ![d] = row] /\ devices[d].status = "discovered"
    BY <1>0 DEF Verify
  <2> HIDE DEF row
  <2> QED
    BY <2>1, <2>2, DeviceStep DEF Verify, OnlyDiscovery
<1>3. CASE ProvisionLock(w)
  <2> DEFINE d == target[w].device
             known == SameEndpoint(work[w].agent, d)
  <2>0. /\ UNCHANGED <<agents, printers, minted, exchanged, sessions, origin>>
        /\ Discovering(w, "provision") /\ rowLock[d] = Unlocked
    BY <1>3 DEF ProvisionLock, OnlyDiscovery
  <2>1. CASE Finish(w) /\ UNCHANGED <<devices, rowLock>>
    <3>1. work' = [work EXCEPT ![w] = Idle] /\ target' = [target EXCEPT ![w] = NoTarget]
      BY <2>1 DEF Finish, Done, Continue
    <3>2. /\ RequestOK(Idle) /\ Idle.op = "idle" /\ NoTarget \in Target /\ target \in [Workers -> Target]
          /\ sessions \in [Sessions -> [status: SessionStates, agent: Agents]]
      BY IdleIsOK DEF Idle, TablesInv, ProvisionInv, NoTarget, Target
    <3>3. target' \in [Workers -> Target] /\ \A v \in Workers \ {w} : target'[v] = target[v]
      BY <3>1, <3>2
    <3> QED
      BY <2>0, <2>1, <3>1, <3>2, <3>3, OnlyWork
  <2>2. ASSUME Approved(d, work[w].agent), Finish(w), UNCHANGED rowLock,
               NEW p \in known, devices' = [devices EXCEPT ![d].status = "provisioned", ![d].printer = p]
        PROVE  TablesInv' /\ KeepOwners
    <3> DEFINE row == IF d \in Devices THEN [devices[d] EXCEPT !.status = "provisioned", !.printer = p]
                                       ELSE AbsentDevice
    <3>1. row \in DeviceRow
      BY <1>0, IdleIsOK DEF DeviceRow, SameEndpoint, AbsentDevice
    <3>2. devices' = [devices EXCEPT ![d] = row]
      BY <1>0, <2>2 DEF DeviceRow
    <3>3. work' = [work EXCEPT ![w] = Idle] /\ target' = [target EXCEPT ![w] = NoTarget]
      BY <2>2 DEF Finish, Done, Continue
    <3>4. devices[d].status = "verified"
      BY <2>2 DEF Approved
    <3> HIDE DEF row, d
    <3> QED
      BY <2>0, <2>2, <3>1, <3>2, <3>3, <3>4, DeviceStep
  <2>3. ASSUME Approved(d, work[w].agent), d \in Transports,
               Continue(w, [work[w] EXCEPT !.next = "insert"]),
               rowLock' = [rowLock EXCEPT ![d] = w], UNCHANGED <<devices, target>>
        PROVE  TablesInv' /\ KeepOwners
    <3> DEFINE r == [work[w] EXCEPT !.next = "insert"]
    <3>1. work' = [work EXCEPT ![w] = r]
      BY <2>3 DEF Continue
    <3>2. RequestOK(r) /\ r.op = "discovery" /\ r.agent = work[w].agent
      BY <2>0 DEF TablesInv, RowsOK, RequestOK, Request, Nexts, Discovering, Doing
    <3> HIDE DEF r
    <3>3. RowsOK'
      BY <1>0, <2>0, <3>1, <3>2 DEF TablesInv, RowsOK, RequestOK
    <3>4. CredentialsOnlyWhenActive' /\ CodesInv'
      BY <2>0, <3>1, <3>2, SameCodes
    <3>5. d \in Devices /\ rowLock \in [Devices -> Workers \union {Unlocked}]
      BY <2>3, DiscoveryAssumption DEF TablesInv, ProvisionInv
    <3>6. \A v \in Workers : Discovering(v, "insert")' =>
            /\ target'[v].device \in Devices
            /\ rowLock'[target'[v].device] = v
            /\ Approved(target[v].device, work[v].agent)'
      <4> SUFFICES ASSUME NEW v \in Workers, Discovering(v, "insert")'
                   PROVE  /\ target'[v].device \in Devices
                          /\ rowLock'[target'[v].device] = v
                          /\ Approved(target[v].device, work[v].agent)'
        OBVIOUS
      <4>1. CASE v = w
        <5>1. work'[v].agent = work[w].agent
          BY <1>0, <3>1, <3>2, <4>1
        <5> QED
          BY <2>3, <3>5, <4>1, <5>1 DEF Approved
      <4>2. CASE v # w
        <5>1. Discovering(v, "insert") /\ work'[v] = work[v]
          BY <1>0, <3>1, <4>2 DEF Discovering, Doing
        <5>2. /\ target[v].device \in Devices /\ rowLock[target[v].device] = v
              /\ Approved(target[v].device, work[v].agent)
          BY <5>1 DEF TablesInv, ProvisionInv
        <5>3. target[v].device # d
          BY <2>0, <5>2, DiscoveryAssumption
        <5> QED
          BY <2>3, <3>5, <5>1, <5>2, <5>3 DEF Approved
      <4> QED
        BY <4>1, <4>2
    <3>7. ProvisionInv'
      BY <2>0, <2>3, <3>5, <3>6 DEF TablesInv, ProvisionInv
    <3> QED
      BY <2>0, <3>3, <3>4, <3>7 DEF TablesInv, KeepOwners
  <2> HIDE DEF d, known
  <2>4. \/ Finish(w) /\ UNCHANGED <<devices, rowLock>>
        \/ /\ Approved(d, work[w].agent) /\ Finish(w) /\ UNCHANGED rowLock
           /\ \E p \in known : devices' = [devices EXCEPT ![d].status = "provisioned", ![d].printer = p]
        \/ /\ Approved(d, work[w].agent) /\ d \in Transports
           /\ Continue(w, [work[w] EXCEPT !.next = "insert"])
           /\ rowLock' = [rowLock EXCEPT ![d] = w] /\ UNCHANGED <<devices, target>>
    BY <1>3, Zenon DEF ProvisionLock, d, known
  <2> QED
    BY <2>1, <2>2, <2>3, <2>4
<1> QED
  BY <1>1, <1>2, <1>3

LEMMA ProvisionInsertInv ==
  ASSUME TablesInv, NEW w \in Workers, NEW p \in Printers, ProvisionInsert(w, p)
  PROVE  TablesInv' /\ KeepOwners
<1> DEFINE d == target[w].device
           a == work[w].agent
           alive == agents[a].lifecycle # "absent"
<1>0. /\ work \in [Workers -> Request] /\ target \in [Workers -> Target]
      /\ devices \in [Devices -> DeviceRow] /\ a \in Agents
      /\ rowLock \in [Devices -> Workers \union {Unlocked}]
      /\ printers \in [Printers -> PrinterRow]
      /\ origin \in [Printers -> Devices \union {NoDevice}]
      /\ RequestOK(Idle) /\ Idle.op = "idle" /\ NoTarget \in Target
  BY IdleIsOK DEF TablesInv, RowsOK, ProvisionInv, Request, Idle, NoTarget, Target
<1>1. /\ Discovering(w, "insert") /\ printers[p].lifecycle = "absent"
      /\ UNCHANGED <<agents, minted, exchanged, sessions>>
      /\ rowLock' = [rowLock EXCEPT ![d] = Unlocked]
      /\ work' = [work EXCEPT ![w] = Idle] /\ target' = [target EXCEPT ![w] = NoTarget]
  BY DEF ProvisionInsert, OnlyDiscovery, Finish, Done, Continue
<1>2. /\ printers' = IF alive THEN [printers EXCEPT ![p] = [lifecycle |-> "active", owner |-> a]] ELSE printers
      /\ origin' = IF alive THEN [origin EXCEPT ![p] = d] ELSE origin
      /\ devices' = IF alive THEN [devices EXCEPT ![d].status = "provisioned", ![d].printer = p] ELSE devices
  BY DEF ProvisionInsert
<1>3. d \in Devices /\ rowLock[d] = w /\ devices[d].status = "verified" /\ devices[d].agent = a
  BY <1>1 DEF TablesInv, ProvisionInv, Approved
<1> HIDE DEF d, a, alive
<1>4. /\ printers' \in [Printers -> PrinterRow]
      /\ \A q \in Printers : printers[q].lifecycle # "absent" => printers'[q] = printers[q]
      /\ alive => printers'[p].lifecycle = "active" /\ printers'[p].owner = a
  BY <1>0, <1>1, <1>2 DEF PrinterRow, Lifecycles
<1>5. /\ devices' \in [Devices -> DeviceRow]
      /\ \A e \in Devices : e # d => devices'[e] = devices[e]
      /\ \A e \in Devices : devices'[e].agent = devices[e].agent
      /\ alive => devices'[d].status = "provisioned"
      /\ rowLock' \in [Devices -> Workers \union {Unlocked}]
      /\ target' \in [Workers -> Target]
      /\ origin' \in [Printers -> Devices \union {NoDevice}]
  BY <1>0, <1>1, <1>2, <1>3 DEF DeviceRow
<1>6. RowsOK'
  BY <1>0, <1>1, <1>4 DEF TablesInv, RowsOK, RequestOK
<1>7. CredentialsOnlyWhenActive' /\ CodesInv'
  BY <1>0, <1>1, SameCodes
<1>8. ProvisionInv'
  <2>1. \A v \in Workers : Discovering(v, "insert")' =>
          /\ target'[v].device \in Devices
          /\ rowLock'[target'[v].device] = v
          /\ Approved(target[v].device, work[v].agent)'
    <3> SUFFICES ASSUME NEW v \in Workers, Discovering(v, "insert")'
                 PROVE  /\ target'[v].device \in Devices
                        /\ rowLock'[target'[v].device] = v
                        /\ Approved(target[v].device, work[v].agent)'
      OBVIOUS
    <3>1. v # w /\ Discovering(v, "insert") /\ work'[v] = work[v] /\ target'[v] = target[v]
      BY <1>0, <1>1 DEF Discovering, Doing
    <3>2. /\ target[v].device \in Devices /\ rowLock[target[v].device] = v
          /\ Approved(target[v].device, work[v].agent)
      BY <3>1 DEF TablesInv, ProvisionInv
    <3>3. target[v].device # d
      BY <1>3, <3>1, <3>2
    <3> QED
      BY <1>0, <1>1, <1>5, <3>1, <3>2, <3>3 DEF Approved
  <2>2. \A q \in Printers : origin[q] # d
    BY <1>3, DiscoveryAssumption DEF TablesInv, ProvisionInv
  <2>3. origin[p] = NoDevice
    BY <1>1 DEF TablesInv, ProvisionInv
  <2>4. \A q \in Printers : origin'[q] # NoDevice =>
          /\ printers'[q].lifecycle # "absent"
          /\ devices'[origin'[q]].status = "provisioned"
          /\ devices'[origin'[q]].agent = printers'[q].owner
    <3> SUFFICES ASSUME NEW q \in Printers, origin'[q] # NoDevice
                 PROVE  /\ printers'[q].lifecycle # "absent"
                        /\ devices'[origin'[q]].status = "provisioned"
                        /\ devices'[origin'[q]].agent = printers'[q].owner
      OBVIOUS
    <3>1. CASE q = p
      <4>1. alive /\ origin'[q] = d
        BY <1>0, <1>2, <2>3, <3>1
      <4> QED
        BY <1>3, <1>4, <1>5, <3>1, <4>1
    <3>2. CASE q # p
      <4>1. origin'[q] = origin[q]
        BY <1>0, <1>2, <3>2
      <4>2. /\ printers[q].lifecycle # "absent" /\ origin[q] \in Devices /\ origin[q] # d
            /\ devices[origin[q]].status = "provisioned"
            /\ devices[origin[q]].agent = printers[q].owner
        BY <1>0, <2>2, <4>1 DEF TablesInv, ProvisionInv
      <4> QED
        BY <1>4, <1>5, <4>1, <4>2
    <3> QED
      BY <3>1, <3>2
  <2>5. \A q, s \in Printers : origin'[q] = origin'[s] => origin'[q] = NoDevice \/ q = s
    BY <1>0, <1>2, <2>2 DEF TablesInv, ProvisionInv
  <2> QED
    BY <1>1, <1>5, <2>1, <2>4, <2>5 DEF TablesInv, ProvisionInv
<1>9. KeepOwners
  BY <1>4 DEF KeepOwners
<1> QED
  BY <1>6, <1>7, <1>8, <1>9 DEF TablesInv

-----------------------------------------------------------------------------

LEMMA NextTables == TablesInv /\ Next => TablesInv' /\ KeepOwners
<1> SUFFICES ASSUME TablesInv, Next PROVE TablesInv' /\ KeepOwners
  OBVIOUS
<1>1. CASE Pairing
  <2>1. UNCHANGED discoveryVars
    BY <1>1 DEF Pairing, KeepDiscovery
  <2> QED
    BY <1>1, <2>1, CreateAgentInv, CodeExpiresInv, WorkSteps, RegisterCommitInv DEF Pairing, StartWork
<1>2. CASE Lifecycle
  <2>1. CASE \E w \in Workers : CommitDeleteWithDiscovery(w)
    BY <2>1, CommitDeleteInv
  <2>2. CASE UNCHANGED discoveryVars /\ \E w \in Workers :
             \/ \E a \in Agents, next \in Lifecycles :
                  Manager("agents.disable") /\ StartTransition(w, a, next)
             \/ CommitTransition(w)
             \/ \E a \in Agents : Manager("agents.retire") /\ StartDelete(w, a)
             \/ RefuseDelete(w)
             \/ \E here, delivered \in BOOLEAN : Teardown(w, here, delivered)
    BY <2>2, StartTransitionInv, CommitTransitionInv, WorkSteps DEF StartWork
  <2> QED
    BY <1>2, <2>1, <2>2 DEF Lifecycle, KeepDiscovery
<1>3. CASE PrinterChanges
  <2>1. UNCHANGED discoveryVars
    BY <1>3 DEF PrinterChanges, KeepDiscovery
  <2> QED
    BY <1>3, <2>1, WorkSteps, PrinterSteps DEF PrinterChanges, StartWork
<1>4. CASE Heartbeats
  <2>1. UNCHANGED discoveryVars
    BY <1>4 DEF Heartbeats, KeepDiscovery
  <2> QED
    BY <1>4, <2>1, WorkSteps, PrinterSteps DEF Heartbeats, StartWork
<1>5. CASE Connecting
  <2>1. UNCHANGED discoveryVars
    BY <1>5 DEF Connecting, KeepDiscovery
  <2> QED
    BY <1>5, <2>1, WorkSteps DEF Connecting, StartWork
<1>6. CASE Disconnecting
  <2>1. UNCHANGED tableVars
    BY <1>6 DEF Disconnecting, KeepDiscovery, SessionClose, tableVars, agentVars
  <2> QED
    BY <2>1, Unchanged
<1>7. CASE DiscoveryRequests
  BY <1>7, DiscoveryWork, DeviceSteps, ProvisionInsertInv DEF DiscoveryRequests
<1>8. CASE RefusedUpgrades \/ CloseEvents \/ PeerLoss \/ Pings \/ Messages \/ Notifications \/ Time
  <2>1. UNCHANGED tableVars
    BY <1>8 DEF RefusedUpgrades, CloseEvents, PeerLoss, Pings, Messages, Notifications, Time,
      KeepDiscovery, tableVars, agentVars
  <2> QED
    BY <2>1, Unchanged
<1>9. CASE SignIns \/ Managing
  <2>1. UNCHANGED tableVars
    BY <1>9 DEF SignIns, Managing, tableVars, agentVars
  <2> QED
    BY <2>1, Unchanged
<1> QED
  BY <1>1, <1>2, <1>3, <1>4, <1>5, <1>6, <1>7, <1>8, <1>9 DEF Next

LEMMA StepTables == TablesInv /\ [Next]_vars => TablesInv' /\ KeepOwners
<1>1. UNCHANGED vars => UNCHANGED tableVars
  BY DEF vars, tableVars, agentVars
<1> QED
  BY <1>1, NextTables, Unchanged

(* The rows are consistent in every reachable state, for every number of   *)
(* agents, printers, devices, workers and every workload.                  *)
THEOREM TablesAreConsistent == Spec => []TablesInv
<1>1. TablesInv /\ [Next]_vars => TablesInv'
  BY StepTables
<1> QED
  BY InitTables, <1>1, PTL DEF Spec

(* Only an active agent holds a secret or a pending code, however many     *)
(* registrations, transitions and deletions interleave.                    *)
THEOREM CredentialsHold == Spec => []CredentialsOnlyWhenActive
<1>1. TablesInv => CredentialsOnlyWhenActive
  BY DEF TablesInv
<1> QED
  BY TablesAreConsistent, <1>1, PTL

(* A pairing code buys one secret, however many registrations resolved it. *)
THEOREM CodesAreSingleUse == Spec => []OneSecretPerCode
<1>1. TablesInv => OneSecretPerCode
  BY DEF TablesInv, CodesInv
<1> QED
  BY TablesAreConsistent, <1>1, PTL

(* No step moves a printer from one agent to another.                      *)
THEOREM OwnersAreKept == Spec => PrintersKeepTheirOwner
<1>1. TablesInv /\ [Next]_vars => [KeepOwners]_printers
  BY StepTables
<1>2. [][KeepOwners]_printers => PrintersKeepTheirOwner
  BY PTL DEF PrintersKeepTheirOwner, KeepOwners
<1> QED
  BY TablesAreConsistent, <1>1, <1>2, PTL DEF Spec

(* A device becomes one printer at most, however many provisioning         *)
(* requests, reports and deletions run together.                           *)
THEOREM DevicesProvisionedOnce == Spec => []OnePrinterPerDevice
<1>1. TablesInv => OnePrinterPerDevice
  <2> SUFFICES ASSUME TablesInv, NEW d \in Devices
               PROVE  Cardinality({p \in Printers : origin[p] = d}) <= 1
    BY DEF OnePrinterPerDevice
  <2> DEFINE made == {p \in Printers : origin[p] = d}
  <2>1. \A p, q \in made : p = q
    BY DiscoveryAssumption DEF TablesInv, ProvisionInv
  <2>2. CASE made = {}
    BY <2>2, FS_EmptySet
  <2>3. CASE made # {}
    <3>1. PICK p : p \in made
      BY <2>3
    <3>2. made = {p}
      BY <2>1, <3>1
    <3>3. Cardinality({p}) = 1
      BY FS_Singleton
    <3> QED
      BY <3>2, <3>3
  <2> QED
    BY <2>2, <2>3
<1> QED
  BY TablesAreConsistent, <1>1, PTL
=============================================================================
