--------------------------- MODULE Process_proofs ---------------------------
(***************************************************************************)
(* Proofs about the parts of ControlPlane that live beside the rows: the   *)
(* sockets and the notification listener of a Gateway process, the failure *)
(* counters and the manager sessions, for any number of agents, sockets,   *)
(* pool clients, workers and sign-ins, any caps and any lock durations.    *)
(*                                                                         *)
(* Each part has its own steps; every step of the system is one of them or *)
(* leaves the part alone.                                                  *)
(***************************************************************************)
EXTENDS Tables_proofs, SequenceTheorems

LimitNext ==
  \/ \E w \in Workers : \/ \E K \in SUBSET Keys : Inspect(w, K)
                        \/ \E k \in Keys : Fail(w, k)
                        \/ RefuseUpgrade(w) \/ Succeed(w)
  \/ Tick
  \/ \E k \in Keys : CleanupRateLimits(k)

ManagerNext ==
  \/ \E w \in Workers : \/ \E u \in Users \union {Legacy} : LoginSucceeds(w, u)
                        \/ \E t \in Tokens : CreateManagerSession(w, t)
                        \/ SessionInsertFails(w)
  \/ \E t \in Tokens : Logout(t)
  \/ \E u \in Users, r \in {"admin", "viewer", "none"} : ChangeRole(u, r)
  \/ CleanupManagerSessions

CloseAll(a) == socket' = ClosedFor(a) /\ UNCHANGED <<sets, registry, bucket, refills, handled>>

SocketNext ==
  \/ \E s \in SocketIds :
       \/ \E w \in Workers : Track(s, work[w].agent, work[w].num)
       \/ CloseEvent(s) \/ PeerCloses(s) \/ PeerVanishes(s) \/ Pong(s) \/ Message(s)
  \/ \E a \in Agents : CloseAll(a) \/ Refill(a) \/ PruneBucket(a)
  \/ PingSweep

-----------------------------------------------------------------------------
(* Which steps touch what *)

LEMMA PartSteps ==
  ASSUME TablesInv, Next
  PROVE  /\ LimitNext \/ UNCHANGED limitVars
         /\ ManagerNext \/ UNCHANGED managerVars
         /\ SocketNext \/ UNCHANGED socketVars
         /\ ListenerNext \/ UNCHANGED listenerVars
<1> DEFINE Goal == /\ LimitNext \/ UNCHANGED limitVars
                   /\ ManagerNext \/ UNCHANGED managerVars
                   /\ SocketNext \/ UNCHANGED socketVars
                   /\ ListenerNext \/ UNCHANGED listenerVars
<1>0. \A w \in Workers : work[w].agent \in Agents
  BY DEF TablesInv, RowsOK, Request
<1>1. CASE Pairing
  <2>1. UNCHANGED <<managerVars, socketVars, listenerVars>>
    BY <1>1 DEF Pairing, KeepDiscovery, CreateAgent, CodeExpires, RegisterInspect, RegisterResolve, RegisterCommit
  <2>2. LimitNext \/ UNCHANGED limitVars
    BY <1>1 DEF Pairing, CreateAgent, CodeExpires, RegisterInspect, RegisterResolve, RegisterCommit,
      LimitNext, Keys
  <2> QED
    BY <2>1, <2>2
<1>2. CASE Lifecycle
  <2>1. UNCHANGED <<managerVars, limitVars, listenerVars>>
    BY <1>2 DEF Lifecycle, KeepDiscovery, KeepManagers, StartTransition, CommitTransition, StartDelete,
      RefuseDelete, Teardown, CommitDeleteWithDiscovery, CommitDelete
  <2>2. SocketNext \/ UNCHANGED socketVars
    BY <1>0, <1>2 DEF Lifecycle, StartTransition, CommitTransition, StartDelete, RefuseDelete, Teardown,
      CommitDeleteWithDiscovery, CommitDelete, socketVars, SocketNext, CloseAll
  <2> QED
    BY <2>1, <2>2
<1>3. CASE PrinterChanges
  BY <1>3 DEF PrinterChanges, KeepDiscovery, StartPrinter, CommitPrinter, StartCreatePrinter, CommitCreatePrinter
<1>4. CASE Heartbeats
  BY <1>4 DEF Heartbeats, KeepDiscovery, HeartbeatAuth, HeartbeatAgent, HeartbeatLookup, HeartbeatInsert
<1>5. CASE Connecting
  <2>1. UNCHANGED <<managerVars, listenerVars>>
    BY <1>5 DEF Connecting, KeepDiscovery, UpgradeInspect, UpgradeAuth, UpgradeTrack, Track, TrackWith
  <2>2. LimitNext \/ UNCHANGED limitVars
    BY <1>5 DEF Connecting, UpgradeInspect, UpgradeAuth, UpgradeTrack, LimitNext, Keys
  <2>3. SocketNext \/ UNCHANGED socketVars
    BY <1>5 DEF Connecting, UpgradeInspect, UpgradeAuth, UpgradeTrack, SocketNext
  <2> QED
    BY <2>1, <2>2, <2>3
<1>6. CASE RefusedUpgrades
  BY <1>6 DEF RefusedUpgrades, KeepDiscovery, LimitNext
<1>7. CASE Disconnecting
  <2>1. UNCHANGED <<managerVars, limitVars, listenerVars>>
    BY <1>7 DEF Disconnecting, KeepDiscovery, PeerCloses, SessionClose
  <2>2. SocketNext \/ UNCHANGED socketVars
    BY <1>7 DEF Disconnecting, SessionClose, SocketNext, CloseAll, socketVars
  <2> QED
    BY <2>1, <2>2
<1>8. CASE CloseEvents \/ PeerLoss \/ Pings \/ Messages
  <2>1. UNCHANGED <<managerVars, limitVars, listenerVars>>
    BY <1>8 DEF CloseEvents, PeerLoss, Pings, Messages, KeepDiscovery, CloseEvent, PeerVanishes, Pong,
      PingSweep, Message, Refill, PruneBucket
  <2>2. SocketNext
    BY <1>8 DEF CloseEvents, PeerLoss, Pings, Messages, SocketNext
  <2> QED
    BY <2>1, <2>2
<1>9. CASE Notifications
  BY <1>9 DEF Notifications, KeepDiscovery
<1>10. CASE DiscoveryRequests
  BY <1>10 DEF DiscoveryRequests, KeepManagers, StartDiscovery, InsertSession, StartCancel, StartReport,
    ReadSession, InsertDevice, EndSession, EndReport, Verify, StartProvision, ProvisionLock,
    ProvisionInsert, OnlyDiscovery
<1>11. CASE SignIns
  <2>1. UNCHANGED <<socketVars, listenerVars>>
    BY <1>11 DEF SignIns
  <2>2. ManagerNext \/ UNCHANGED managerVars
    BY <1>11 DEF SignIns, ManagerNext, LoginInspect, LoginFails
  <2>3. LimitNext \/ UNCHANGED limitVars
    BY <1>11 DEF SignIns, LimitNext, LoginInspect, LoginFails, LoginSucceeds, CreateManagerSession,
      SessionInsertFails, Keys, LoginKeys
  <2> QED
    BY <2>1, <2>2, <2>3
<1>12. CASE Managing
  <2>1. UNCHANGED <<socketVars, listenerVars, limitVars>>
    BY <1>12 DEF Managing, Logout, ChangeRole, CleanupManagerSessions
  <2>2. ManagerNext
    BY <1>12 DEF Managing, ManagerNext
  <2> QED
    BY <2>1, <2>2
<1>13. CASE Time
  BY <1>13 DEF Time, KeepDiscovery, LimitNext
<1> QED
  BY <1>1, <1>2, <1>3, <1>4, <1>5, <1>6, <1>7, <1>8, <1>9, <1>10, <1>11, <1>12, <1>13 DEF Next

-----------------------------------------------------------------------------
(* The notification listener *)

(* connect() holds a client only while it LISTENs on it, and only one of   *)
(* connect(), the reconnect timer and an adopted client is there at once.  *)
ListenerInv ==
  /\ held \subseteq {activeClient, setup} \ {NoClient}
  /\ activeClient # NoClient => activeClient \in Clients
  /\ setup # NoClient => setup \in Clients
  /\ (connecting # "listen") <=> (setup = NoClient)
  /\ connecting # "no" => ~reconnectTimer /\ activeClient = NoClient
  /\ activeClient # NoClient => ~reconnectTimer

LEMMA ListenerStep ==
  ASSUME ListenerInv, ListenerNext \/ UNCHANGED listenerVars
  PROVE  ListenerInv'
<1> USE ListenerAssumption DEF ListenerInv, ScheduleReconnect, ConnectReturns
<1>1. CASE \E c \in Clients : PoolConnects(c)
  BY <1>1 DEF PoolConnects, Unused
<1>2. CASE \E c \in Clients : ClientEvent(c)
  BY <1>2 DEF ClientEvent
<1>3. CASE PoolFails
  BY <1>3 DEF PoolFails
<1>4. CASE Adopt
  BY <1>4 DEF Adopt
<1>5. CASE ListenFails
  BY <1>5 DEF ListenFails
<1>6. CASE Reconnect
  BY <1>6 DEF Reconnect
<1>7. CASE WssClose
  BY <1>7 DEF WssClose
<1>8. CASE UNCHANGED listenerVars
  BY <1>8 DEF listenerVars
<1> QED
  BY <1>1, <1>2, <1>3, <1>4, <1>5, <1>6, <1>7, <1>8 DEF ListenerNext

-----------------------------------------------------------------------------
(* The failure counters *)

LimitRow == [failures: Nat, windowStart: Nat, lockedUntil: Nat]
Trying(k) == {w \in Workers : k \in attempt[w]}

(* A locked key lets nobody in, so its late failures and the attempts      *)
(* still to record theirs were all under way when it was locked: fewer     *)
(* than the workers, for the attempt that locked it is among neither.      *)
(* A lock ends no later than its count says from now on, so that one more  *)
(* failure never shortens it unless the count starts anew.                 *)
LockEnds ==
  /\ \A k \in Keys \ {UpgradeKey} :
       limit[k].lockedUntil <= now + LockDuration(limit[k].failures)
  /\ Locked(UpgradeKey) =>
       /\ limit[UpgradeKey].failures # 0 /\ limit[UpgradeKey].failures >= WsMaxFailures
       /\ limit[UpgradeKey].lockedUntil <= now + WsLock

LimitInv ==
  /\ now \in Nat /\ localLock \in Nat
  /\ limit \in [Keys -> LimitRow]
  /\ attempt \in [Workers -> SUBSET Keys]
  /\ DOMAIN tally = Keys /\ EveryFailureCounts
  /\ late \in [Keys -> Nat]
  /\ \A k \in Keys : Locked(k) => late[k] + Cardinality(Trying(k)) < Cardinality(Workers)
  /\ LockEnds

LEMMA WorkerCount ==
  /\ IsFiniteSet(Workers) /\ Cardinality(Workers) \in Nat /\ Cardinality(Workers) > 0
  /\ \A k : Cardinality(Trying(k)) \in Nat /\ Cardinality(Trying(k)) <= Cardinality(Workers)
<1>1. IsFiniteSet(Workers) /\ Workers # {}
  BY LimitsAssumption
<1>2. Cardinality(Workers) \in Nat /\ Cardinality(Workers) > 0
  BY <1>1, FS_CardinalityType, FS_EmptySet
<1>3. ASSUME NEW k PROVE Cardinality(Trying(k)) \in Nat /\ Cardinality(Trying(k)) <= Cardinality(Workers)
  <2>1. Trying(k) \subseteq Workers
    BY DEF Trying
  <2> QED
    BY <1>1, <2>1, FS_Subset, FS_CardinalityType
<1> QED
  BY <1>1, <1>2, <1>3

(* The table of durations is sorted, so a lock grows with its count.       *)
LEMMA LocksGrow ==
  ASSUME NEW m \in Nat, NEW n \in Nat, m <= n
  PROVE  LockDuration(m) \in Nat /\ LockDuration(m) <= LockDuration(n)
<1> DEFINE tier(i) == i \div Step
           place(t) == IF t > Len(LockFor) THEN Len(LockFor) ELSE t
           lasts(t) == IF t = 0 THEN 0 ELSE LockFor[place(t)]
<1>1. \A i \in Nat : tier(i) \in Nat
  <2>1. Step \in Nat \ {0}
    BY LimitsAssumption
  <2>2. SUFFICES ASSUME NEW i \in Nat PROVE i \div Step \in Nat
    OBVIOUS
  <2> QED
    BY <2>1
<1> HIDE DEF tier
<1>5. \A i \in Nat : LockDuration(i) = lasts(tier(i))
  BY Zenon DEF LockDuration, tier
<1>2. tier(m) <= tier(n)
  BY LimitsAssumption DEF tier
<1>3. /\ Len(LockFor) \in Nat \ {0} /\ DOMAIN LockFor = 1..Len(LockFor)
      /\ \A i \in 1..Len(LockFor) : LockFor[i] \in Nat
      /\ \A i, j \in 1..Len(LockFor) : i <= j => LockFor[i] <= LockFor[j]
  BY LimitsAssumption
<1>4. ASSUME NEW t \in Nat, NEW u \in Nat, t <= u
      PROVE  lasts(t) \in Nat /\ lasts(t) <= lasts(u)
  <2>1. CASE t = 0
    <3>1. u # 0 => place(u) \in 1..Len(LockFor)
      BY <1>3
    <3> HIDE DEF place
    <3> QED
      BY <1>3, <2>1, <3>1
  <2>2. CASE t # 0
    <3>1. place(t) \in 1..Len(LockFor) /\ place(u) \in 1..Len(LockFor) /\ place(t) <= place(u)
      BY <1>3, <1>4, <2>2
    <3>2. lasts(t) = LockFor[place(t)] /\ lasts(u) = LockFor[place(u)]
      BY <1>4, <2>2
    <3> HIDE DEF place, lasts
    <3> QED
      BY <1>3, <3>1, <3>2
  <2> QED
    BY <2>1, <2>2
<1> HIDE DEF lasts
<1> QED
  BY <1>1, <1>2, <1>4, <1>5

LEMMA CountedRow ==
  ASSUME NEW k \in Keys, NEW n \in Nat, now \in Nat, limit \in [Keys -> LimitRow]
  PROVE  /\ Counted(k, n) \in LimitRow /\ Counted(k, n).failures = n
         /\ LET until == Counted(k, n).lockedUntil
            IN until <= now + LockDuration(n) /\ (LockDuration(n) # 0 => until = now + LockDuration(n))
<1>1. LockDuration(n) \in Nat
  BY LocksGrow
<1> QED
  BY <1>1 DEF Counted, LimitRow

(* Where the count goes on, the new lock ends no earlier than the old one. *)
LEMMA LockEndsFail ==
  ASSUME LimitInv, NEW w \in Workers, NEW k \in Keys, Fail(w, k)
  PROVE  /\ LockEnds'
         /\ \A j \in Keys : Locked(j) /\ limit'[j].lockedUntil < limit[j].lockedUntil
              => j = k /\ WindowOver(j)
<1> DEFINE r == IF k = UpgradeKey THEN UpgradeBump ELSE Bump(k, seen[w][k])
           count == IF WindowOver(k) THEN 1 ELSE limit[k].failures + 1
<1>1. limit' = [limit EXCEPT ![k] = r] /\ now' = now
  BY DEF Fail
<1>2. /\ limit \in [Keys -> LimitRow] /\ now \in Nat /\ UpgradeKey \in Keys
      /\ \A j \in Keys : limit[j].failures \in Nat /\ limit[j].lockedUntil \in Nat
      /\ WsMaxFailures \in Nat /\ WsLock \in Nat /\ LockEnds
  BY LimitsAssumption DEF LimitInv, LimitRow, Keys
<1>3. \A j \in Keys : j # k => limit'[j] = limit[j]
  BY <1>1, <1>2
<1>4. limit'[k] = r
  BY <1>1, <1>2
<1>5. CASE k = UpgradeKey
  <2>1. LockEnds' /\ (Locked(k) /\ r.lockedUntil < limit[k].lockedUntil => WindowOver(k))
    <3>1. CASE limit[k].failures = 0 \/ WindowOver(k)
      <4>1. r = [failures |-> 1, windowStart |-> now, lockedUntil |-> 0]
        BY <1>5, <3>1 DEF UpgradeBump
      <4> HIDE DEF r
      <4> QED
        BY <1>1, <1>2, <1>3, <1>4, <1>5, <3>1, <4>1 DEF LockEnds, Locked
    <3>2. CASE ~(limit[k].failures = 0 \/ WindowOver(k))
      <4>1. /\ r.failures = limit[k].failures + 1
            /\ r.lockedUntil = IF limit[k].failures + 1 >= WsMaxFailures THEN now + WsLock ELSE 0
        BY <1>2, <1>5, <3>2 DEF UpgradeBump, LimitRow
      <4> HIDE DEF r
      <4> QED
        BY <1>1, <1>2, <1>3, <1>4, <1>5, <3>2, <4>1 DEF LockEnds, Locked
    <3> QED
      BY <3>1, <3>2
  <2> HIDE DEF r
  <2> QED
    BY <1>2, <1>3, <1>4, <2>1
<1>6. CASE k # UpgradeKey
  <2>1. r = Counted(k, count) /\ count \in Nat
    BY <1>2, <1>6 DEF Bump
  <2>2. /\ r.failures = count /\ r.lockedUntil <= now + LockDuration(count)
        /\ LockDuration(count) # 0 => r.lockedUntil = now + LockDuration(count)
    BY <1>2, <2>1, CountedRow
  <2>3. /\ LockDuration(count) \in Nat /\ LockDuration(limit[k].failures) \in Nat
        /\ ~WindowOver(k) => LockDuration(limit[k].failures) <= LockDuration(count)
    BY <1>2, <2>1, LocksGrow
  <2>4. limit[k].lockedUntil <= now + LockDuration(limit[k].failures)
    BY <1>2, <1>6 DEF LockEnds
  <2>5. r.lockedUntil \in Nat
    BY <1>2, <2>1, CountedRow DEF LimitRow
  <2> HIDE DEF r, count
  <2>6. Locked(k) /\ r.lockedUntil < limit[k].lockedUntil => WindowOver(k)
    BY <1>2, <2>2, <2>3, <2>4, <2>5 DEF Locked
  <2>7. LockEnds'
    BY <1>1, <1>2, <1>3, <1>4, <1>6, <2>2 DEF LockEnds, Locked
  <2> QED
    BY <1>2, <1>3, <1>4, <2>6, <2>7
<1> QED
  BY <1>5, <1>6

LEMMA FailInv ==
  ASSUME LimitInv, NEW w \in Workers, NEW k \in Keys, Fail(w, k)
  PROVE  LimitInv'
<1> DEFINE r == IF k = UpgradeKey THEN UpgradeBump ELSE Bump(k, seen[w][k])
           count == IF WindowOver(k) THEN 1 ELSE tally[k] + 1
<1>1. /\ limit' = [limit EXCEPT ![k] = r]
      /\ tally' = [tally EXCEPT ![k] = count]
      /\ attempt' = [attempt EXCEPT ![w] = @ \ {k}]
      /\ late' = [late EXCEPT ![k] = IF Locked(k) THEN @ + 1 ELSE 0]
      /\ localLock' \in {localLock, r.lockedUntil}
      /\ k \in attempt[w] /\ UNCHANGED now
  BY DEF Fail
<1>2. /\ limit \in [Keys -> LimitRow] /\ now \in Nat /\ limit[k].failures = tally[k]
      /\ limit[k].failures \in Nat /\ limit[k] \in LimitRow
      /\ late[k] \in Nat /\ attempt \in [Workers -> SUBSET Keys]
      /\ localLock \in Nat
  BY DEF LimitInv, EveryFailureCounts, LimitRow
<1>3. r \in LimitRow /\ r.failures = count
  <2>1. CASE k = UpgradeKey
    <3> DEFINE fresh == limit[k].failures = 0 \/ WindowOver(k)
    <3>1. CASE fresh
      BY <1>2, <2>1, <3>1 DEF UpgradeBump, LimitRow
    <3>2. CASE ~fresh
      <4>1. r = [limit[k] EXCEPT !.failures = @ + 1,
                    !.lockedUntil = IF limit[k].failures + 1 >= WsMaxFailures THEN now + WsLock ELSE 0]
        BY <2>1, <3>2 DEF UpgradeBump
      <4>2. now + WsLock \in Nat
        BY <1>2, LimitsAssumption
      <4> QED
        <5> DEFINE until == IF limit[k].failures + 1 >= WsMaxFailures THEN now + WsLock ELSE 0
        <5>1. until \in Nat
          BY <4>2
        <5>2. count = limit[k].failures + 1
          BY <1>2, <3>2
        <5> HIDE DEF until
        <5>3. r = [failures |-> count, windowStart |-> limit[k].windowStart, lockedUntil |-> until]
          BY <1>2, <4>1, <5>2, Zenon DEF until, LimitRow
        <5>4. count \in Nat /\ limit[k].windowStart \in Nat
          BY <1>2, <5>2 DEF LimitRow
        <5> HIDE DEF r, count, fresh
        <5> QED
          BY <5>1, <5>3, <5>4 DEF LimitRow
    <3> QED
      BY <3>1, <3>2
  <2>2. CASE k # UpgradeKey
    <3>1. count \in Nat /\ r = Counted(k, count)
      BY <1>2, <2>2 DEF Bump
    <3> QED
      BY <1>2, <3>1, CountedRow
  <2> QED
    BY <2>1, <2>2
<1> HIDE DEF r, count
<1>4. /\ limit' \in [Keys -> LimitRow] /\ DOMAIN tally' = Keys /\ EveryFailureCounts'
      /\ localLock' \in Nat /\ now' \in Nat
      /\ attempt' \in [Workers -> SUBSET Keys]
      /\ \A j \in Keys \ {k} : (Locked(j)' <=> Locked(j)) /\ late'[j] = late[j]
  BY <1>1, <1>2, <1>3 DEF LimitInv, EveryFailureCounts, LimitRow, Locked
<1>5. /\ \A j \in Keys \ {k} : Trying(j)' = Trying(j)
      /\ Trying(k)' = Trying(k) \ {w} /\ w \in Trying(k)
  BY <1>1, <1>2 DEF Trying
<1>6. Cardinality(Trying(k))' = Cardinality(Trying(k)) - 1
  <2>1. IsFiniteSet(Trying(k))
    BY WorkerCount, FS_Subset DEF Trying
  <2> QED
    BY <1>5, <2>1, FS_RemoveElement
<1>7. /\ late'[k] \in Nat
      /\ late'[k] + Cardinality(Trying(k))' < Cardinality(Workers)
      /\ late'[k] < Cardinality(Workers)
  <2>1. late'[k] = IF Locked(k) THEN late[k] + 1 ELSE 0
    BY <1>1 DEF LimitInv
  <2>2. Locked(k) => late[k] + Cardinality(Trying(k)) < Cardinality(Workers)
    BY DEF LimitInv
  <2>3. Cardinality(Trying(k)) - 1 \in Nat
    <3>1. IsFiniteSet(Trying(k) \ {w})
      BY WorkerCount, FS_Subset DEF Trying
    <3> QED
      BY <1>5, <1>6, <3>1, FS_CardinalityType
  <2> QED
    BY <1>2, <1>6, <2>1, <2>2, <2>3, WorkerCount
<1>8. late' \in [Keys -> Nat]
  BY <1>1, <1>2, <1>7 DEF LimitInv
<1>9. \A j \in Keys : Locked(j)' => late'[j] + Cardinality(Trying(j))' < Cardinality(Workers)
  BY <1>4, <1>5, <1>7 DEF LimitInv
<1>10. LockEnds'
  BY LockEndsFail
<1> QED
  BY <1>4, <1>8, <1>9, <1>10 DEF LimitInv

(* The other steps count nothing: they let an attempt in where no lock is, *)
(* end one, clear rows, or move the clock, which only ends locks.          *)
LEMMA OtherLimitSteps ==
  ASSUME LimitInv,
         \/ \E w \in Workers : (\E K \in SUBSET Keys : Inspect(w, K)) \/ RefuseUpgrade(w) \/ Succeed(w)
         \/ Tick
         \/ \E k \in Keys : CleanupRateLimits(k)
         \/ UNCHANGED limitVars
  PROVE  LimitInv'
<1>0. /\ limit \in [Keys -> LimitRow] /\ now \in Nat /\ localLock \in Nat
      /\ attempt \in [Workers -> SUBSET Keys]
      /\ \A k \in Keys : /\ limit[k].failures \in Nat /\ limit[k].lockedUntil \in Nat
                         /\ late[k] \in Nat
      /\ NoRow \in LimitRow /\ NoRow.failures = 0 /\ NoRow.lockedUntil = 0
      /\ DOMAIN tally = Keys /\ UpgradeKey \in Keys
  BY DEF LimitInv, LimitRow, NoRow, Keys
<1>1. now' \in Nat /\ localLock' \in Nat
  <2>1. now + WsLock \in Nat
    BY <1>0, LimitsAssumption
  <2> QED
    BY <1>0, <2>1 DEF Inspect, RefuseUpgrade, Succeed, Tick, CleanupRateLimits, limitVars
<1>2. /\ limit' \in [Keys -> LimitRow] /\ DOMAIN tally' = Keys /\ EveryFailureCounts'
  BY <1>0 DEF Inspect, RefuseUpgrade, Succeed, Tick, CleanupRateLimits, limitVars, LimitInv, EveryFailureCounts
<1>3. attempt' \in [Workers -> SUBSET Keys]
  BY <1>0 DEF Inspect, RefuseUpgrade, Succeed, Tick, CleanupRateLimits, limitVars
<1>4. late' = late
  BY DEF Inspect, RefuseUpgrade, Succeed, Tick, CleanupRateLimits, limitVars
<1>5. \A k \in Keys : Locked(k)' => Locked(k) /\ Trying(k)' \subseteq Trying(k)
  <2> SUFFICES ASSUME NEW k \in Keys, Locked(k)' PROVE Locked(k) /\ Trying(k)' \subseteq Trying(k)
    OBVIOUS
  <2>1. CASE \E w \in Workers : \E K \in SUBSET Keys : Inspect(w, K)
    <3>1. PICK w \in Workers, K \in SUBSET Keys : Inspect(w, K)
      BY <2>1
    <3>2. Locked(k)
      BY <3>1 DEF Inspect, Locked
    <3>3. k \notin K
      BY <3>1, <3>2 DEF Inspect, Allowed
    <3> QED
      BY <1>0, <3>1, <3>2, <3>3 DEF Inspect, Trying
  <2>2. CASE \E w \in Workers : RefuseUpgrade(w)
    BY <2>2 DEF RefuseUpgrade, Locked, Trying
  <2>3. CASE \E w \in Workers : Succeed(w)
    BY <1>0, <2>3 DEF Succeed, Locked, Trying
  <2>4. CASE Tick
    BY <1>0, <2>4 DEF Tick, Locked, Trying
  <2>5. CASE \E j \in Keys : CleanupRateLimits(j)
    BY <1>0, <2>5 DEF CleanupRateLimits, Locked, Trying
  <2>6. CASE UNCHANGED limitVars
    BY <2>6 DEF limitVars, Locked, Trying
  <2> QED
    BY <2>1, <2>2, <2>3, <2>4, <2>5, <2>6
<1>6. \A k \in Keys : Locked(k)' => late'[k] + Cardinality(Trying(k))' < Cardinality(Workers)
  <2> SUFFICES ASSUME NEW k \in Keys, Locked(k)'
               PROVE  late[k] + Cardinality(Trying(k)') < Cardinality(Workers)
    BY <1>4
  <2>1. late[k] + Cardinality(Trying(k)) < Cardinality(Workers)
    BY <1>5 DEF LimitInv
  <2>2. IsFiniteSet(Trying(k))
    BY WorkerCount, FS_Subset DEF Trying
  <2>3. Cardinality(Trying(k)') <= Cardinality(Trying(k)) /\ Cardinality(Trying(k)') \in Nat
    BY <1>5, <2>2, FS_Subset, FS_CardinalityType
  <2> QED
    BY <1>0, <2>1, <2>3, WorkerCount
<1>7. late' \in [Keys -> Nat]
  BY <1>4 DEF LimitInv
<1>8. LockEnds'
  <2>1. now' \in Nat /\ now' >= now
    BY <1>0 DEF Inspect, RefuseUpgrade, Succeed, Tick, CleanupRateLimits, limitVars
  <2>2. \A k \in Keys : limit'[k] = limit[k] \/ limit'[k] = NoRow
    BY <1>0 DEF Inspect, RefuseUpgrade, Succeed, Tick, CleanupRateLimits, limitVars
  <2>3. \A k \in Keys : LockDuration(limit[k].failures) \in Nat /\ LockDuration(0) \in Nat
    BY <1>0, LocksGrow
  <2>4. ASSUME NEW k \in Keys \ {UpgradeKey}
        PROVE  limit'[k].lockedUntil <= now' + LockDuration(limit'[k].failures)
    <3>1. CASE limit'[k] = limit[k]
      BY <1>0, <2>1, <2>3, <3>1 DEF LimitInv, LockEnds
    <3>2. CASE limit'[k] = NoRow
      BY <1>0, <2>1, <2>3, <3>2
    <3> QED
      BY <2>2, <3>1, <3>2
  <2>5. Locked(UpgradeKey)' => /\ limit'[UpgradeKey].failures # 0
                               /\ limit'[UpgradeKey].failures >= WsMaxFailures
                               /\ limit'[UpgradeKey].lockedUntil <= now' + WsLock
    <3>1. CASE limit'[UpgradeKey] = limit[UpgradeKey]
      <4>1. Locked(UpgradeKey)' => Locked(UpgradeKey)
        BY <1>5, <1>0
      <4>2. WsLock \in Nat
        BY LimitsAssumption
      <4> QED
        BY <1>0, <2>1, <3>1, <4>1, <4>2 DEF LimitInv, LockEnds
    <3>2. CASE limit'[UpgradeKey] = NoRow
      BY <1>0, <2>1, <3>2 DEF Locked
    <3> QED
      BY <1>0, <2>2, <3>1, <3>2
  <2> QED
    BY <2>4, <2>5 DEF LockEnds
<1> QED
  BY <1>1, <1>2, <1>3, <1>6, <1>7, <1>8 DEF LimitInv

LEMMA LimitStep == LimitInv /\ (LimitNext \/ UNCHANGED limitVars) => LimitInv'
BY FailInv, OtherLimitSteps DEF LimitNext

(* Of LockoutHolds what one step may do to a lock.                         *)
LockKept ==
  \A k \in Keys : Locked(k) =>
    /\ late'[k] < Cardinality(Workers)
    /\ limit'[k].lockedUntil < limit[k].lockedUntil => EndedByStraggler(k)

LEMMA LockStep ==
  ASSUME LimitInv, LimitNext \/ UNCHANGED limitVars
  PROVE  LockKept
<1>0. /\ limit \in [Keys -> LimitRow] /\ attempt \in [Workers -> SUBSET Keys]
      /\ \A k \in Keys : limit[k].lockedUntil \in Nat /\ late[k] \in Nat
      /\ late \in [Keys -> Nat]
  BY DEF LimitInv, LimitRow
<1>1. ASSUME NEW w \in Workers, NEW k \in Keys, Fail(w, k) PROVE LockKept
  <2>1. /\ k \in attempt[w] /\ k \notin attempt'[w]
        /\ late' = [late EXCEPT ![k] = IF Locked(k) THEN @ + 1 ELSE 0]
    BY <1>0, <1>1 DEF Fail
  <2>2. \A j \in Keys : Locked(j) /\ limit'[j].lockedUntil < limit[j].lockedUntil => EndedByStraggler(j)
    BY <1>1, <2>1, LockEndsFail DEF EndedByStraggler
  <2>3. ASSUME NEW j \in Keys, Locked(j) PROVE late'[j] < Cardinality(Workers)
    <3>1. late[j] + Cardinality(Trying(j)) < Cardinality(Workers)
      BY <2>3 DEF LimitInv
    <3>2. j = k => Cardinality(Trying(j)) > 0
      <4>1. IsFiniteSet(Trying(j))
        BY WorkerCount, FS_Subset DEF Trying
      <4>2. j = k => Trying(j) # {}
        BY <2>1 DEF Trying
      <4> QED
        BY <4>1, <4>2, FS_EmptySet, WorkerCount
    <3>3. late'[j] = IF j = k THEN late[j] + 1 ELSE late[j]
      BY <1>0, <2>1, <2>3
    <3> QED
      BY <1>0, <3>1, <3>2, <3>3, WorkerCount
  <2> QED
    BY <2>2, <2>3 DEF LockKept
<1>2. ASSUME late' = late,
             \A k \in Keys : Locked(k) /\ limit'[k] # limit[k] => EndedByStraggler(k)
      PROVE  LockKept
  <2>1. ASSUME NEW k \in Keys, Locked(k) PROVE late'[k] < Cardinality(Workers)
    BY <1>0, <1>2, <2>1, WorkerCount DEF LimitInv
  <2> QED
    BY <1>0, <1>2, <2>1 DEF LockKept
<1>3. ASSUME NEW w \in Workers, Succeed(w) PROVE LockKept
  <2>1. \A k \in Keys : limit'[k] # limit[k] =>
           k \in attempt[w] /\ k \notin attempt'[w] /\ limit'[k] = NoRow
    BY <1>0, <1>3 DEF Succeed
  <2>2. \A k \in Keys : limit'[k] # limit[k] => EndedByStraggler(k)
    BY <2>1 DEF EndedByStraggler
  <2> QED
    BY <1>2, <1>3, <2>2 DEF Succeed
<1>4. ASSUME NEW k \in Keys, CleanupRateLimits(k) PROVE LockKept
  <2>1. \A j \in Keys : Locked(j) => limit'[j] = limit[j]
    BY <1>0, <1>4 DEF CleanupRateLimits
  <2> QED
    BY <1>2, <1>4, <2>1 DEF CleanupRateLimits
<1>5. ASSUME UNCHANGED <<limit, late>> PROVE LockKept
  BY <1>2, <1>5
<1>6. CASE \E w \in Workers : (\E K \in SUBSET Keys : Inspect(w, K)) \/ RefuseUpgrade(w)
  BY <1>5, <1>6 DEF Inspect, RefuseUpgrade
<1>7. CASE Tick \/ UNCHANGED limitVars
  BY <1>5, <1>7 DEF Tick, limitVars
<1> QED
  BY <1>1, <1>3, <1>4, <1>6, <1>7 DEF LimitNext

-----------------------------------------------------------------------------
(* The manager sessions *)

(* A session that was logged out never stands again.                       *)
SessionInv ==
  /\ mgrSession \in [Tokens -> SessionRow]
  /\ signIn \in [Workers -> [user: Users \union {Legacy, NoUser}, role: Roles \union {"none"}]]
  /\ member \in [Users -> Roles \union {"none"}]
  /\ loggedOut \subseteq Tokens
  /\ \A t \in loggedOut : mgrSession[t].row \in {"revoked", "deleted"}

LEMMA SessionStep ==
  ASSUME SessionInv, now \in Nat, ManagerNext \/ UNCHANGED managerVars
  PROVE  SessionInv'
<1> USE DEF SessionInv
<1>1. CASE \E w \in Workers, u \in Users \union {Legacy} : LoginSucceeds(w, u)
  BY <1>1 DEF LoginSucceeds, Roles
<1>2. CASE \E w \in Workers, t \in Tokens : CreateManagerSession(w, t)
  <2> PICK w \in Workers, t \in Tokens : CreateManagerSession(w, t)
    BY <1>2
  <2>1. now + SessionLife \in Nat
    BY SessionAssumption
  <2>2. t \notin loggedOut
    BY DEF CreateManagerSession, NoSessionRow
  <2> QED
    BY <2>1, <2>2 DEF CreateManagerSession, SessionRow, NoSignIn
<1>3. CASE \E w \in Workers : SessionInsertFails(w)
  BY <1>3 DEF SessionInsertFails, NoSignIn
<1>4. CASE \E t \in Tokens : Logout(t)
  BY <1>4 DEF Logout, SessionRow
<1>5. CASE \E u \in Users, r \in {"admin", "viewer", "none"} : ChangeRole(u, r)
  BY <1>5 DEF ChangeRole, Roles
<1>6. CASE CleanupManagerSessions
  <2> DEFINE ends(t) == mgrSession[t].row \in {"live", "revoked"} /\ mgrSession[t].exp <= now
  <2>1. /\ mgrSession' = [t \in Tokens |-> IF ends(t) THEN [mgrSession[t] EXCEPT !.row = "deleted"]
                                                      ELSE mgrSession[t]]
        /\ UNCHANGED <<member, signIn, loggedOut>>
    BY <1>6 DEF CleanupManagerSessions
  <2> HIDE DEF ends
  <2> QED
    BY <2>1 DEF SessionRow
<1>7. CASE UNCHANGED managerVars
  BY <1>7 DEF managerVars
<1> QED
  BY <1>1, <1>2, <1>3, <1>4, <1>5, <1>6, <1>7 DEF ManagerNext

LEMMA SessionAuthority == SessionInv => AuthorityIsCurrent
<1> SUFFICES ASSUME SessionInv, NEW t \in Tokens, NEW p \in AllPermissions, Authorised(t, p)
             PROVE  /\ \A u \in Users : mgrSession[t].user = u => p \in Permissions[member[u]]
                    /\ t \notin loggedOut
  BY DEF AuthorityIsCurrent
<1>1. \A u \in Users : mgrSession[t].user = u => member[u] = mgrSession[t].role
  BY DEF Authorised, ValidClaims
<1>2. mgrSession[t].row = "live" /\ p \in Permissions[mgrSession[t].role]
  BY DEF Authorised, ValidClaims
<1> QED
  BY <1>1, <1>2 DEF SessionInv

-----------------------------------------------------------------------------
(* The sockets *)

(* The Set an open socket was added to is the one in the map, and holds it.*)
SocketInv ==
  /\ socket \in [SocketIds -> Socket]
  /\ sets \in Seq(Seq(SocketIds))
  /\ registry \in [Agents -> 0..Len(sets)]
  /\ \A s \in SocketIds : socket[s].state \in {"open", "closing"} =>
       socket[s].set \in 1..Len(sets)
  /\ \A s \in SocketIds : Open(s) =>
       /\ registry[socket[s].agent] = socket[s].set
       /\ s \in InSeq(sets[socket[s].set])

(* What an agent has spent and what it has left is what it was given.      *)
BudgetInv ==
  /\ bucket \in [Agents -> -1..BucketCapacity]
  /\ refills \in [Agents -> Nat] /\ handled \in [Agents -> Nat]
  /\ \A a \in Agents : handled[a] + (IF bucket[a] = -1 THEN BucketCapacity ELSE bucket[a])
                         <= BucketCapacity + refills[a]

LEMMA WithoutKeeps ==
  ASSUME NEW q \in Seq(SocketIds), NEW x
  PROVE  /\ Without(q, x) \in Seq(SocketIds)
         /\ \A y \in InSeq(q) : y # x => y \in InSeq(Without(q, x))
<1>1. CASE x \notin InSeq(q)
  BY <1>1 DEF Without
<1>2. CASE x \in InSeq(q)
  <2> DEFINE n == CHOOSE i \in 1..Len(q) : q[i] = x
             low == SubSeq(q, 1, n - 1)
             high == SubSeq(q, n + 1, Len(q))
  <2>1. n \in 1..Len(q) /\ q[n] = x
    BY <1>2 DEF InSeq
  <2>2. Without(q, x) = low \o high
    BY <1>2 DEF Without
  <2> HIDE DEF n
  <2>3. /\ low \in Seq(SocketIds) /\ Len(low) = n - 1 /\ \A i \in 1..(n-1) : low[i] = q[i]
        /\ high \in Seq(SocketIds) /\ Len(high) = Len(q) - n
        /\ \A i \in 1..(Len(q) - n) : high[i] = q[n + i]
    BY <2>1
  <2> DEFINE cat == low \o high
  <2>i. n \in Nat /\ Len(q) \in Nat /\ 1 <= n /\ n <= Len(q)
    BY <2>1
  <2> HIDE DEF low, high
  <2>4. /\ cat \in Seq(SocketIds) /\ Len(cat) = Len(q) - 1
        /\ \A i \in 1..(n-1) : cat[i] = q[i]
        /\ \A i \in 1..(Len(q) - n) : cat[(n - 1) + i] = q[n + i]
    <3>1. /\ cat \in Seq(SocketIds) /\ Len(cat) = Len(low) + Len(high)
          /\ \A i \in 1..(Len(low) + Len(high)) :
               cat[i] = IF i <= Len(low) THEN low[i] ELSE high[i - Len(low)]
      BY <2>3, ConcatProperties
    <3> HIDE DEF cat
    <3>2. Len(cat) = Len(q) - 1
      BY <2>i, <2>3, <3>1
    <3>4. \A i \in 1..(n-1) : cat[i] = q[i]
      <4> TAKE i \in 1..(n-1)
      <4>1. i \in 1..(Len(low) + Len(high)) /\ i <= Len(low)
        BY <2>i, <2>3
      <4> QED
        BY <2>3, <3>1, <4>1
    <3>3. \A i \in 1..(Len(q) - n) : cat[(n - 1) + i] = q[n + i]
      <4> TAKE i \in 1..(Len(q) - n)
      <4>1. /\ (n - 1) + i \in 1..(Len(low) + Len(high)) /\ ~((n - 1) + i <= Len(low))
            /\ ((n - 1) + i) - Len(low) = i
        BY <2>i, <2>3
      <4>2. cat[(n - 1) + i] = high[((n - 1) + i) - Len(low)]
        BY <3>1, <4>1
      <4> QED
        BY <2>3, <4>1, <4>2
    <3> QED
      BY <3>1, <3>2, <3>3, <3>4
  <2> HIDE DEF cat
  <2>5. ASSUME NEW y \in InSeq(q), y # x PROVE y \in InSeq(cat)
    <3>1. PICK i \in 1..Len(q) : q[i] = y
      BY DEF InSeq
    <3>2. CASE i < n
      <4>1. i \in 1..Len(cat) /\ cat[i] = y
        BY <2>i, <2>4, <3>1, <3>2
      <4> QED
        BY <4>1 DEF InSeq
    <3>3. CASE i > n
      <4>1. i - n \in 1..(Len(q) - n) /\ n + (i - n) = i /\ (n - 1) + (i - n) = i - 1
            /\ i - 1 \in 1..(Len(q) - 1)
        BY <2>i, <3>1, <3>3
      <4>2. i - 1 \in 1..Len(cat) /\ cat[i - 1] = y
        BY <2>4, <3>1, <4>1
      <4> QED
        BY <4>2 DEF InSeq
    <3> QED
      BY <2>i, <2>1, <2>5, <3>1, <3>2, <3>3
  <2> QED
    BY <2>2, <2>4, <2>5 DEF cat
<1> QED
  BY <1>1, <1>2

(* Sockets change, but none is opened or moved, and the Sets stay.         *)
LEMMA SocketsOnly ==
  ASSUME SocketInv, UNCHANGED <<sets, registry>>,
         socket' \in [SocketIds -> Socket],
         \A s \in SocketIds :
           /\ socket'[s].agent = socket[s].agent /\ socket'[s].set = socket[s].set
           /\ socket'[s].state = "open" => socket[s].state = "open"
           /\ socket'[s].state = "closing" => socket[s].state \in {"open", "closing"}
  PROVE  SocketInv'
BY DEF SocketInv, Open

LEMMA TerminatedSockets ==
  ASSUME SocketInv, NEW S
  PROVE  /\ Terminated(S) \in [SocketIds -> Socket]
         /\ \A s \in SocketIds : Terminated(S)[s] =
              IF s \in S /\ Open(s) THEN [socket[s] EXCEPT !.state = "closing"] ELSE socket[s]
         /\ \A s \in SocketIds : Terminated(S)[s].agent = socket[s].agent
         /\ \A s \in SocketIds : Terminated(S)[s].set = socket[s].set
         /\ \A s \in SocketIds : Terminated(S)[s].state =
              IF s \in S /\ Open(s) THEN "closing" ELSE socket[s].state
BY DEF Terminated, SocketInv, Socket

LEMMA TrackInv ==
  ASSUME SocketInv, NEW s \in SocketIds, NEW a \in Agents, NEW secret \in Nat, Track(s, a, secret)
  PROVE  SocketInv'
<1> DEFINE fresh == registry[a] = 0
           k == IF fresh THEN Len(sets) + 1 ELSE registry[a]
           q == Members(registry[a])
           victims == IF Len(q) >= MaxAgentSockets THEN {Head(q)} ELSE {}
           kept == IF victims = {} THEN q ELSE Tail(q)
           row == [agent |-> a, secret |-> secret, state |-> "open", set |-> k,
                   alive |-> TRUE, peer |-> TRUE]
<1>1. /\ socket' = [Terminated(victims) EXCEPT ![s] = row]
      /\ sets' = IF fresh THEN Append(sets, <<s>>) ELSE [sets EXCEPT ![k] = Append(kept, s)]
      /\ registry' = [registry EXCEPT ![a] = k]
  BY DEF Track, TrackWith
<1>2. /\ socket \in [SocketIds -> Socket] /\ sets \in Seq(Seq(SocketIds))
      /\ registry[a] \in 0..Len(sets) /\ Len(sets) \in Nat
      /\ registry \in [Agents -> 0..Len(sets)]
  BY DEF SocketInv
<1>3. k \in 1..(Len(sets) + 1) /\ (~fresh => k \in 1..Len(sets))
  BY <1>2
<1>4. q \in Seq(SocketIds) /\ (~fresh => q = sets[k])
  BY <1>2 DEF Members
<1>5. Len(q) \in Nat /\ (Len(q) >= MaxAgentSockets => q # <<>>)
  BY <1>4, SocketsAssumption
<1>6. /\ kept \in Seq(SocketIds)
      /\ \A x \in InSeq(q) : x \in victims \/ x \in InSeq(kept)
  <2>1. CASE Len(q) >= MaxAgentSockets
    <3>1. q # <<>> /\ kept = Tail(q) /\ victims = {Head(q)}
      BY <1>5, <2>1
    <3>2. /\ Tail(q) \in Seq(SocketIds) /\ Len(Tail(q)) = Len(q) - 1 /\ Head(q) = q[1]
          /\ \A i \in 1..(Len(q) - 1) : Tail(q)[i] = q[i + 1]
      BY <1>4, <3>1, HeadTailProperties
    <3>3. ASSUME NEW x \in InSeq(q), x # q[1] PROVE x \in InSeq(Tail(q))
      <4>1. PICK i \in 1..Len(q) : q[i] = x
        BY DEF InSeq
      <4> HIDE DEF q
      <4>2. i - 1 \in 1..(Len(q) - 1) /\ (i - 1) + 1 = i
        BY <1>5, <3>3, <4>1
      <4>3. i - 1 \in 1..Len(Tail(q)) /\ Tail(q)[i - 1] = x
        BY <3>2, <4>1, <4>2
      <4> QED
        BY <4>3 DEF InSeq
    <3> HIDE DEF q, kept, victims
    <3> QED
      BY <3>1, <3>2, <3>3
  <2>2. CASE ~(Len(q) >= MaxAgentSockets)
    <3>1. kept = q
      BY <2>2
    <3> HIDE DEF q, kept, victims
    <3> QED
      BY <1>4, <3>1
  <2> QED
    BY <2>1, <2>2
<1>7. /\ Append(kept, s) \in Seq(SocketIds) /\ s \in InSeq(Append(kept, s))
      /\ \A x \in InSeq(kept) : x \in InSeq(Append(kept, s))
      /\ <<s>> \in Seq(SocketIds) /\ s \in InSeq(<<s>>)
  <2> HIDE DEF kept
  <2>1. /\ Append(kept, s) \in Seq(SocketIds) /\ Len(Append(kept, s)) = Len(kept) + 1
        /\ Append(kept, s)[Len(kept) + 1] = s /\ Len(kept) \in Nat
        /\ \A i \in 1..Len(kept) : Append(kept, s)[i] = kept[i]
    BY <1>6
  <2>2. /\ Len(kept) + 1 \in 1..Len(Append(kept, s))
        /\ \A i \in 1..Len(kept) : i \in 1..Len(Append(kept, s))
    BY <2>1
  <2>3. <<s>> \in Seq(SocketIds) /\ Len(<<s>>) = 1 /\ <<s>>[1] = s
    OBVIOUS
  <2> QED
    BY <2>1, <2>2, <2>3 DEF InSeq
<1> DEFINE members == IF fresh THEN <<s>> ELSE Append(kept, s)
<1>8. /\ sets' \in Seq(Seq(SocketIds)) /\ k \in 1..Len(sets') /\ Len(sets') >= Len(sets)
      /\ Len(sets') \in Nat
      /\ sets'[k] = members
      /\ \A i \in 1..Len(sets) : i # k => sets'[i] = sets[i]
  <2>1. CASE fresh
    <3>1. sets' = Append(sets, <<s>>) /\ k = Len(sets) + 1 /\ members = <<s>>
      BY <1>1, <2>1
    <3> HIDE DEF k, fresh, members
    <3> QED
      BY <1>2, <1>7, <3>1
  <2>2. CASE ~fresh
    <3>1. sets' = [sets EXCEPT ![k] = members] /\ k \in 1..Len(sets) /\ members \in Seq(SocketIds)
      BY <1>1, <1>3, <1>7, <2>2
    <3> HIDE DEF k, fresh, members
    <3> QED
      BY <1>2, <3>1
  <2> QED
    BY <2>1, <2>2
<1>9. /\ row \in Socket /\ row.agent = a /\ row.set = k /\ row.state = "open"
  BY <1>3 DEF Socket
<1>10. /\ socket' \in [SocketIds -> Socket] /\ socket'[s] = row
       /\ \A t \in SocketIds \ {s} : socket'[t] = Terminated(victims)[t]
  BY <1>1, <1>9, TerminatedSockets
<1>11. registry' \in [Agents -> 0..Len(sets')] /\ registry'[a] = k
       /\ \A b \in Agents \ {a} : registry'[b] = registry[b]
  <2> HIDE DEF k
  <2> QED
    BY <1>1, <1>2, <1>8
<1>12. s \in InSeq(members)
  BY <1>7
<1>13. ASSUME NEW t \in SocketIds, Open(t)'
       PROVE  registry'[socket'[t].agent] = socket'[t].set /\ t \in InSeq(sets'[socket'[t].set])
  <2>1. CASE t = s
    BY <1>8, <1>9, <1>10, <1>11, <1>12, <2>1
  <2>2. CASE t # s
    <3>1. /\ Open(t) /\ t \notin victims
          /\ socket'[t].agent = socket[t].agent /\ socket'[t].set = socket[t].set
      BY <1>10, <1>13, <2>2, TerminatedSockets DEF Open
    <3>2. /\ registry[socket[t].agent] = socket[t].set /\ t \in InSeq(sets[socket[t].set])
          /\ socket[t].set \in 1..Len(sets) /\ socket[t].agent \in Agents
      BY <1>2, <3>1 DEF SocketInv, Open, Socket
    <3>3. socket[t].agent = a => ~fresh /\ k = socket[t].set
      BY <1>2, <3>2
    <3>4. socket[t].set = k => ~fresh /\ q = sets[k]
      BY <1>2, <1>4, <3>2
    <3>5. CASE socket[t].set = k
      <4>1. t \in InSeq(members)
        BY <1>6, <1>7, <3>1, <3>2, <3>4, <3>5
      <4> HIDE DEF k, fresh, members
      <4> QED
        BY <1>8, <1>11, <3>1, <3>2, <3>5, <4>1
    <3>6. CASE socket[t].set # k
      <4> HIDE DEF k, fresh, members
      <4> QED
        BY <1>8, <1>11, <3>1, <3>2, <3>3, <3>6
    <3> QED
      BY <3>5, <3>6
  <2> QED
    BY <2>1, <2>2
<1>14. ASSUME NEW t \in SocketIds, socket'[t].state \in {"open", "closing"}
       PROVE  socket'[t].set \in 1..Len(sets')
  <2>1. CASE t = s
    BY <1>8, <1>9, <1>10, <2>1
  <2>2. CASE t # s
    <3>1. socket'[t].set = socket[t].set /\ socket[t].state \in {"open", "closing"}
      BY <1>10, <1>14, <2>2, TerminatedSockets DEF Open
    <3> HIDE DEF k, members
    <3> QED
      BY <1>2, <1>8, <3>1 DEF SocketInv
  <2> QED
    BY <2>1, <2>2
<1> QED
  BY <1>8, <1>10, <1>11, <1>13, <1>14 DEF SocketInv

LEMMA CloseEventInv ==
  ASSUME SocketInv, NEW s \in SocketIds, CloseEvent(s)
  PROVE  SocketInv'
<1> DEFINE a == socket[s].agent
           k == socket[s].set
           rest == Without(sets[k], s)
<1>1. /\ socket[s].state = "closing"
      /\ socket' = [socket EXCEPT ![s].state = "closed"]
      /\ sets' = [sets EXCEPT ![k] = rest]
      /\ registry' = IF rest = <<>> /\ registry[a] = k THEN [registry EXCEPT ![a] = 0] ELSE registry
  BY DEF CloseEvent
<1>2. /\ socket \in [SocketIds -> Socket] /\ sets \in Seq(Seq(SocketIds))
      /\ registry \in [Agents -> 0..Len(sets)] /\ k \in 1..Len(sets) /\ a \in Agents
      /\ sets[k] \in Seq(SocketIds) /\ Len(sets) \in Nat
  BY <1>1 DEF SocketInv, Socket
<1>3. rest \in Seq(SocketIds) /\ \A y \in InSeq(sets[k]) : y # s => y \in InSeq(rest)
  BY <1>2, WithoutKeeps
<1> HIDE DEF rest, a, k
<1>4. /\ sets' \in Seq(Seq(SocketIds)) /\ Len(sets') = Len(sets) /\ sets'[k] = rest
      /\ \A i \in 1..Len(sets) : i # k => sets'[i] = sets[i]
  BY <1>1, <1>2, <1>3
<1>5. /\ socket' \in [SocketIds -> Socket] /\ socket'[s].state = "closed"
      /\ \A t \in SocketIds \ {s} : socket'[t] = socket[t]
  BY <1>1, <1>2 DEF Socket
<1>6. registry' \in [Agents -> 0..Len(sets')]
  BY <1>1, <1>2, <1>4
<1>7. ASSUME NEW t \in SocketIds, Open(t)'
      PROVE  registry'[socket'[t].agent] = socket'[t].set /\ t \in InSeq(sets'[socket'[t].set])
  <2>1. t # s /\ socket'[t] = socket[t] /\ Open(t)
    BY <1>5, <1>7 DEF Open
  <2>2. /\ registry[socket[t].agent] = socket[t].set /\ t \in InSeq(sets[socket[t].set])
        /\ socket[t].set \in 1..Len(sets)
    BY <2>1 DEF SocketInv, Open
  <2>3. CASE socket[t].set = k
    <3>1. t \in InSeq(rest)
      BY <1>3, <2>1, <2>2, <2>3
    <3>2. rest # <<>>
      BY <3>1 DEF InSeq
    <3> QED
      BY <1>1, <1>4, <2>1, <2>2, <2>3, <3>1, <3>2
  <2>4. CASE socket[t].set # k
    BY <1>1, <1>2, <1>4, <2>1, <2>2, <2>4
  <2> QED
    BY <2>3, <2>4
<1>8. \A t \in SocketIds : socket'[t].state \in {"open", "closing"} => socket'[t].set \in 1..Len(sets')
  BY <1>4, <1>5 DEF SocketInv
<1> QED
  BY <1>4, <1>5, <1>6, <1>7, <1>8 DEF SocketInv

LEMMA SocketStep ==
  ASSUME TablesInv, SocketInv, SocketNext \/ UNCHANGED socketVars
  PROVE  SocketInv'
<1>0. socket \in [SocketIds -> Socket]
  BY DEF SocketInv
<1>1. CASE \E s \in SocketIds, w \in Workers : Track(s, work[w].agent, work[w].num)
  <2> PICK s \in SocketIds, w \in Workers : Track(s, work[w].agent, work[w].num)
    BY <1>1
  <2>1. work[w].agent \in Agents /\ work[w].num \in Nat
    BY DEF TablesInv, RowsOK, Request
  <2> QED
    BY <2>1, TrackInv
<1>2. CASE \E s \in SocketIds : CloseEvent(s)
  BY <1>2, CloseEventInv
<1>a. ASSUME NEW s \in SocketIds, NEW row \in Socket, Open(s),
             row.agent = socket[s].agent, row.set = socket[s].set, row.state \in {"open", "closing"},
             socket' = [socket EXCEPT ![s] = row], UNCHANGED <<sets, registry>>
      PROVE  SocketInv'
  <2>1. socket' \in [SocketIds -> Socket] /\ \A t \in SocketIds : socket'[t] = IF t = s THEN row ELSE socket[t]
    BY <1>0, <1>a
  <2> QED
    BY <1>a, <2>1, SocketsOnly DEF Open
<1>b. \A s \in SocketIds : Open(s) =>
        /\ socket[s].state = "open" /\ socket[s] \in Socket
  BY <1>0 DEF Open, Socket
<1>3. CASE \E s \in SocketIds : PeerCloses(s) \/ PeerVanishes(s) \/ Pong(s)
  <2> PICK s \in SocketIds : PeerCloses(s) \/ PeerVanishes(s) \/ Pong(s)
    BY <1>3
  <2>1. Open(s) /\ UNCHANGED <<sets, registry>>
    BY DEF PeerCloses, PeerVanishes, Pong
  <2>2. \/ socket' = [socket EXCEPT ![s] = [socket[s] EXCEPT !.state = "closing"]]
        \/ socket' = [socket EXCEPT ![s] = [socket[s] EXCEPT !.peer = FALSE]]
        \/ socket' = [socket EXCEPT ![s] = [socket[s] EXCEPT !.alive = TRUE]]
    BY <1>0 DEF PeerCloses, PeerVanishes, Pong
  <2>3. \A row : row \in {[socket[s] EXCEPT !.state = "closing"], [socket[s] EXCEPT !.peer = FALSE],
                         [socket[s] EXCEPT !.alive = TRUE]} =>
          /\ row \in Socket /\ row.agent = socket[s].agent /\ row.set = socket[s].set
          /\ row.state \in {"open", "closing"}
    BY <1>b, <2>1 DEF Socket
  <2> QED
    BY <1>a, <2>1, <2>2, <2>3
<1>4. CASE \E s \in SocketIds : Message(s)
  <2> PICK s \in SocketIds : Message(s)
    BY <1>4
  <2>1. Open(s) /\ UNCHANGED <<sets, registry>>
    BY DEF Message
  <2>2. \/ socket' = [socket EXCEPT ![s] = [socket[s] EXCEPT !.alive = TRUE]]
        \/ socket' = [socket EXCEPT ![s] = [socket[s] EXCEPT !.alive = TRUE, !.state = "closing"]]
    BY <1>0 DEF Message
  <2>3. \A row : row \in {[socket[s] EXCEPT !.alive = TRUE],
                         [socket[s] EXCEPT !.alive = TRUE, !.state = "closing"]} =>
          /\ row \in Socket /\ row.agent = socket[s].agent /\ row.set = socket[s].set
          /\ row.state \in {"open", "closing"}
    BY <1>b, <2>1 DEF Socket
  <2> QED
    BY <1>a, <2>1, <2>2, <2>3
<1>5. CASE \E a \in Agents : CloseAll(a)
  <2> PICK a \in Agents : CloseAll(a)
    BY <1>5
  <2>1. socket' = Terminated(InSeq(Members(registry[a]))) /\ UNCHANGED <<sets, registry>>
    BY DEF CloseAll, ClosedFor
  <2> QED
    BY <2>1, TerminatedSockets, SocketsOnly DEF Open
<1>6. CASE \E a \in Agents : Refill(a) \/ PruneBucket(a)
  BY <1>0, <1>6, SocketsOnly DEF Refill, PruneBucket
<1>7. CASE PingSweep
  <2>1. /\ socket' = [s \in SocketIds |->
             IF ~Open(s) THEN socket[s]
             ELSE IF socket[s].alive THEN [socket[s] EXCEPT !.alive = FALSE]
             ELSE [socket[s] EXCEPT !.state = "closing"]]
        /\ UNCHANGED <<sets, registry>>
    BY <1>7 DEF PingSweep
  <2> QED
    BY <1>0, <2>1, SocketsOnly DEF Open, Socket
<1>8. CASE UNCHANGED socketVars
  BY <1>0, <1>8, SocketsOnly DEF socketVars
<1> QED
  BY <1>1, <1>2, <1>3, <1>4, <1>5, <1>6, <1>7, <1>8 DEF SocketNext

LEMMA BudgetStep ==
  ASSUME TablesInv, SocketInv, BudgetInv, SocketNext \/ UNCHANGED socketVars
  PROVE  BudgetInv'
<1>0. /\ BucketCapacity \in Nat /\ bucket \in [Agents -> -1..BucketCapacity]
      /\ refills \in [Agents -> Nat] /\ handled \in [Agents -> Nat]
      /\ \A s \in SocketIds : socket[s].agent \in Agents
  BY SocketsAssumption DEF BudgetInv, SocketInv, Socket
<1>1. CASE UNCHANGED <<bucket, refills, handled>>
  BY <1>1 DEF BudgetInv
<1>2. CASE \E s \in SocketIds, w \in Workers : Track(s, work[w].agent, work[w].num)
  BY <1>0, <1>2, <1>1 DEF Track, TrackWith
<1>3. CASE \E s \in SocketIds : Message(s)
  <2> PICK s \in SocketIds : Message(s)
    BY <1>3
  <2> DEFINE a == socket[s].agent
             tokens == IF bucket[a] = -1 THEN BucketCapacity ELSE bucket[a]
  <2>1. a \in Agents /\ tokens \in 0..BucketCapacity
    BY <1>0
  <2>2. /\ \/ /\ tokens >= 1 /\ bucket' = [bucket EXCEPT ![a] = tokens - 1]
              /\ handled' = [handled EXCEPT ![a] = handled[a] + 1]
           \/ bucket' = [bucket EXCEPT ![a] = tokens] /\ handled' = handled
        /\ refills' = refills
    BY DEF Message
  <2>3. handled[a] + tokens <= BucketCapacity + refills[a]
    BY <2>1 DEF BudgetInv
  <2> HIDE DEF a, tokens
  <2> QED
    BY <1>0, <2>1, <2>2, <2>3 DEF BudgetInv
<1>4. CASE \E a \in Agents : Refill(a)
  <2> PICK a \in Agents : Refill(a)
    BY <1>4
  <2>1. /\ refills' = [refills EXCEPT ![a] = refills[a] + 1] /\ handled' = handled
        /\ bucket' = [bucket EXCEPT ![a] = IF bucket[a] \in {-1, BucketCapacity} THEN bucket[a] ELSE bucket[a] + 1]
    BY DEF Refill
  <2> QED
    BY <1>0, <2>1 DEF BudgetInv
<1>5. CASE \E a \in Agents : PruneBucket(a)
  BY <1>0, <1>5 DEF PruneBucket, BudgetInv
<1>6. CASE \/ \E s \in SocketIds : CloseEvent(s) \/ PeerCloses(s) \/ PeerVanishes(s) \/ Pong(s)
           \/ \E a \in Agents : CloseAll(a)
           \/ PingSweep \/ UNCHANGED socketVars
  BY <1>1, <1>6 DEF CloseEvent, PeerCloses, PeerVanishes, Pong, CloseAll, PingSweep, socketVars
<1> QED
  BY <1>2, <1>3, <1>4, <1>5, <1>6 DEF SocketNext

-----------------------------------------------------------------------------
(* All together *)

(* What else the type invariant says.                                      *)
RestOK ==
  /\ notices \subseteq Agents
  /\ ListenerTypeOK
  /\ now <= MaxNow
  /\ workload \in Workloads

LEMMA RestStep ==
  ASSUME TablesInv, ListenerInv, LimitInv, RestOK, Next
  PROVE  RestOK'
<1>1. now' <= MaxNow
  <2>1. now \in Nat /\ now <= MaxNow /\ MaxNow \in Nat
    BY LimitsAssumption DEF RestOK, LimitInv
  <2>2. LimitNext \/ UNCHANGED limitVars
    BY PartSteps
  <2> QED
    BY <2>1, <2>2 DEF LimitNext, Inspect, Fail, RefuseUpgrade, Succeed, Tick, CleanupRateLimits, limitVars
<1>2. workload' \in Workloads
  BY DEF RestOK, Next, Pairing, Lifecycle, PrinterChanges, Heartbeats, Connecting, RefusedUpgrades,
    Disconnecting, CloseEvents, PeerLoss, Pings, Messages, Notifications, DiscoveryRequests, SignIns,
    Managing, Time, KeepDiscovery, KeepManagers
<1>3. ListenerTypeOK'
  <2>0. /\ held \subseteq Clients /\ broken \in [Clients -> 0..2]
        /\ activeClient \in Clients \union {NoClient} /\ setup \in Clients \union {NoClient}
        /\ connecting \in {"no", "pool", "listen"}
        /\ reconnectTimer \in BOOLEAN /\ stopped \in BOOLEAN /\ stopKnown \in BOOLEAN /\ wssClosed \in BOOLEAN
    BY DEF RestOK, ListenerTypeOK
  <2> USE <2>0 DEF ListenerTypeOK, ScheduleReconnect, ConnectReturns
  <2>1. CASE \E c \in Clients : PoolConnects(c)
    <3> PICK c \in Clients : PoolConnects(c)
      BY <2>1
    <3>1. broken' \in [Clients -> 0..2] /\ held' \subseteq Clients /\ setup' \in Clients \union {NoClient}
      BY DEF PoolConnects
    <3> QED
      BY <3>1 DEF PoolConnects
  <2>2. CASE \E c \in Clients : ClientEvent(c)
    <3> PICK c \in Clients : ClientEvent(c)
      BY <2>2
    <3>1. broken' \in [Clients -> 0..2] /\ held' \subseteq Clients /\ activeClient' \in Clients \union {NoClient}
      BY DEF ClientEvent
    <3>2. reconnectTimer' \in BOOLEAN
      BY DEF ClientEvent
    <3> QED
      BY <3>1, <3>2 DEF ClientEvent
  <2>3. CASE PoolFails
    BY <2>3 DEF PoolFails
  <2>4. CASE Adopt
    BY <2>4 DEF Adopt
  <2>5. CASE ListenFails
    <3>1. broken' \in [Clients -> 0..2]
      <4> DEFINE n == IF broken[setup] = 0 THEN 1 ELSE broken[setup]
      <4>1. broken' = [broken EXCEPT ![setup] = n]
        BY <2>5 DEF ListenFails
      <4>2. setup \in Clients => n \in 0..2
        BY <2>0
      <4> HIDE DEF n
      <4> QED
        BY <2>0, <4>1, <4>2
    <3> QED
      BY <2>5, <3>1 DEF ListenFails
  <2>6. CASE Reconnect
    BY <2>6 DEF Reconnect
  <2>7. CASE WssClose
    BY <2>7 DEF WssClose
  <2>8. CASE UNCHANGED listenerVars
    BY <2>8 DEF listenerVars
  <2>9. ListenerNext \/ UNCHANGED listenerVars
    BY PartSteps
  <2> QED
    BY <2>1, <2>2, <2>3, <2>4, <2>5, <2>6, <2>7, <2>8, <2>9 DEF ListenerNext
<1>4. notices' \subseteq Agents
  <2>0. notices \subseteq Agents
    BY DEF RestOK
  <2>1. CASE \E w \in Workers, here, delivered \in BOOLEAN : Teardown(w, here, delivered)
    <3> PICK w \in Workers, here \in BOOLEAN, delivered \in BOOLEAN : Teardown(w, here, delivered)
      BY <2>1
    <3>1. work[w].agent \in Agents
      BY DEF TablesInv, RowsOK, Request
    <3>2. notices' = IF delivered THEN notices \union {work[w].agent} ELSE notices
      BY DEF Teardown
    <3> QED
      BY <2>0, <3>1, <3>2
  <2>2. CASE \E a \in Agents : SessionClose(a)
    BY <2>0, <2>2 DEF SessionClose
  <2>3. CASE notices' = notices
    BY <2>0, <2>3
  <2>4. Pairing => notices' = notices
    BY DEF Pairing, CreateAgent, CodeExpires, RegisterInspect, RegisterResolve, RegisterCommit, agentVars
  <2>5. Lifecycle => \/ notices' = notices
                     \/ \E w \in Workers, here, delivered \in BOOLEAN : Teardown(w, here, delivered)
    BY DEF Lifecycle, StartTransition, CommitTransition, StartDelete, RefuseDelete,
      CommitDeleteWithDiscovery, CommitDelete
  <2>6. PrinterChanges \/ Heartbeats => notices' = notices
    BY DEF PrinterChanges, Heartbeats, StartPrinter, CommitPrinter, StartCreatePrinter, CommitCreatePrinter,
      HeartbeatAuth, HeartbeatAgent, HeartbeatLookup, HeartbeatInsert
  <2>7. Connecting => notices' = notices
    BY DEF Connecting, UpgradeInspect, UpgradeAuth, UpgradeTrack, agentVars
  <2>8. Disconnecting => notices' = notices \/ \E a \in Agents : SessionClose(a)
    BY DEF Disconnecting, agentVars
  <2>9. DiscoveryRequests => notices' = notices
    BY DEF DiscoveryRequests, StartDiscovery, InsertSession, StartCancel, StartReport, ReadSession,
      InsertDevice, EndSession, EndReport, Verify, StartProvision, ProvisionLock, ProvisionInsert, OnlyDiscovery
  <2>10. RefusedUpgrades \/ CloseEvents \/ PeerLoss \/ Pings \/ Messages \/ Notifications \/ SignIns
           \/ Managing \/ Time => notices' = notices
    BY DEF RefusedUpgrades, CloseEvents, PeerLoss, Pings, Messages, Notifications, SignIns, Managing, Time,
      agentVars
  <2> QED
    BY <2>1, <2>2, <2>3, <2>4, <2>5, <2>6, <2>7, <2>8, <2>9, <2>10 DEF Next
<1> QED
  BY <1>1, <1>2, <1>3, <1>4 DEF RestOK

ProcessInv == /\ TablesInv /\ ListenerInv /\ LimitInv /\ SessionInv
              /\ SocketInv /\ BudgetInv /\ RestOK

LEMMA InitProcess == Init => ProcessInv
<1> SUFFICES ASSUME Init PROVE ProcessInv
  OBVIOUS
<1>1. TablesInv
  BY InitTables
<1>2. ListenerInv /\ ListenerTypeOK
  <2>1. ListenerInit
    BY DEF Init, SocketInit
  <2>2. ListenerInv
    BY <2>1 DEF ListenerInit, ListenerInv
  <2>3. ListenerTypeOK
    <3>1. broken \in [Clients -> 0..2]
      BY <2>1 DEF ListenerInit
    <3> QED
      BY <2>1, <3>1, Zenon DEF ListenerInit, ListenerTypeOK
  <2> QED
    BY <2>2, <2>3
<1>3. LimitInv /\ now <= MaxNow
  <2>1. /\ now = 0 /\ localLock = 0 /\ \A k \in Keys : limit[k] = NoRow /\ tally[k] = 0 /\ late[k] = 0
        /\ DOMAIN limit = Keys /\ DOMAIN tally = Keys /\ DOMAIN late = Keys
        /\ limit \in [Keys -> LimitRow] /\ late \in [Keys -> Nat]
        /\ attempt \in [Workers -> SUBSET Keys]
    BY DEF Init, LimitInit, NoRow, LimitRow
  <2>2. \A k \in Keys : ~Locked(k) /\ limit[k].failures = tally[k]
    BY <2>1 DEF Locked, NoRow
  <2>3. LockDuration(0) \in Nat
    BY LocksGrow
  <2>4. LockEnds
    BY <2>1, <2>2, <2>3 DEF LockEnds, NoRow, Keys
  <2> QED
    BY <2>1, <2>2, <2>4, WorkerCount, LimitsAssumption DEF LimitInv, EveryFailureCounts
<1>4. SessionInv
  BY SessionAssumption DEF Init, ManagerInit, SessionInv, SessionRow, NoSessionRow, NoSignIn, Roles
<1>5. SocketInv
  <2>1. (CHOOSE a \in Agents : TRUE) \in Agents
    BY SocketsAssumption, Zenon
  <2> QED
    BY <2>1 DEF Init, SocketInit, SocketInv, Socket, Open
<1>6. BudgetInv
  BY SocketsAssumption DEF Init, SocketInit, BudgetInv
<1>7. notices \subseteq Agents /\ workload \in Workloads
  BY DEF Init, AgentInit
<1> QED
  BY <1>1, <1>2, <1>3, <1>4, <1>5, <1>6, <1>7 DEF ProcessInv, RestOK

LEMMA NextProcess == ProcessInv /\ [Next]_vars => ProcessInv'
<1> SUFFICES ASSUME ProcessInv, [Next]_vars PROVE ProcessInv'
  OBVIOUS
<1> USE DEF ProcessInv
<1>1. TablesInv'
  BY StepTables
<1>2. /\ LimitNext \/ UNCHANGED limitVars
      /\ ManagerNext \/ UNCHANGED managerVars
      /\ SocketNext \/ UNCHANGED socketVars
      /\ ListenerNext \/ UNCHANGED listenerVars
  BY PartSteps DEF vars
<1>3. ListenerInv'
  BY <1>2, ListenerStep
<1>4. LimitInv'
  BY <1>2, LimitStep
<1>5. SessionInv'
  BY <1>2, SessionStep DEF LimitInv
<1>6. SocketInv' /\ BudgetInv'
  BY <1>2, SocketStep, BudgetStep
<1>7. RestOK'
  <2>1. CASE Next
    BY <2>1, RestStep
  <2>2. CASE UNCHANGED vars
    BY <2>2 DEF vars, agentVars, listenerVars, limitVars, RestOK, ListenerTypeOK
  <2> QED
    BY <2>1, <2>2
<1> QED
  BY <1>1, <1>3, <1>4, <1>5, <1>6, <1>7

LEMMA ProcessInvariant == Spec => []ProcessInv
BY InitProcess, NextProcess, PTL DEF Spec

(* The type invariant of the control plane.                                *)
THEOREM ControlPlaneTypes == Spec => []TypeOK
<1>1. ProcessInv => TypeOK
  <2> SUFFICES ASSUME ProcessInv PROVE TypeOK
    OBVIOUS
  <2>1. AgentTypeOK
    BY DEF ProcessInv, TablesInv, RowsOK, RestOK, AgentTypeOK
  <2>2. SocketTypeOK
    BY DEF ProcessInv, SocketInv, BudgetInv, RestOK, SocketTypeOK
  <2>3. LimitTypeOK
    BY LimitsAssumption DEF ProcessInv, LimitInv, LimitRow, RestOK, LimitTypeOK
  <2>4. DiscoveryTypeOK
    BY DEF ProcessInv, TablesInv, ProvisionInv, DiscoveryTypeOK
  <2>5. ManagerTypeOK /\ workload \in Workloads
    BY DEF ProcessInv, SessionInv, ManagerTypeOK, RestOK
  <2> QED
    BY <2>1, <2>2, <2>3, <2>4, <2>5 DEF TypeOK
<1> QED
  BY ProcessInvariant, <1>1, PTL

(* However the listener's clients break and its set-up or the shutdown is  *)
(* interrupted, no pool client is checked out and forgotten.               *)
THEOREM ClientsAreReturned == Spec => []NoLeakedClient
<1>1. ProcessInv => NoLeakedClient
  BY DEF ProcessInv, ListenerInv, NoLeakedClient
<1> QED
  BY ProcessInvariant, <1>1, PTL

(* A row of auth_rate_limits counts every failure of its window, for any   *)
(* number of concurrent attempts.                                          *)
THEOREM FailuresAreCounted == Spec => []EveryFailureCounts
<1>1. ProcessInv => EveryFailureCounts
  BY DEF ProcessInv, LimitInv
<1> QED
  BY ProcessInvariant, <1>1, PTL

(* While a key is locked only attempts already under way reach its         *)
(* credentials, and only one of them can end the lock early, by a success  *)
(* or by a failure recorded after the window; for any window and any       *)
(* sorted table of durations.                                              *)
THEOREM LockoutsHold == Spec => LockoutHolds
<1>1. ProcessInv /\ [Next]_vars => [LockKept]_limitVars
  BY PartSteps, LockStep DEF ProcessInv, vars
<1>2. [][LockKept]_limitVars => LockoutHolds
  BY PTL DEF LockoutHolds, LockKept
<1> QED
  BY ProcessInvariant, <1>1, <1>2, PTL DEF Spec

(* A session allows what its user's membership grants now, and nothing     *)
(* once it was logged out.                                                 *)
THEOREM AuthorityStaysCurrent == Spec => []AuthorityIsCurrent
<1>1. ProcessInv => AuthorityIsCurrent
  BY SessionAuthority DEF ProcessInv
<1> QED
  BY ProcessInvariant, <1>1, PTL

(* An open socket is in the Set the map holds for its agent, for any cap   *)
(* and however late the close events come.                                 *)
THEOREM OpenSocketsAreReachable == Spec => []OpenSocketIsReachable
<1>1. ProcessInv => OpenSocketIsReachable
  <2> SUFFICES ASSUME ProcessInv, NEW s \in SocketIds, Open(s)
               PROVE  s \in InSeq(Members(registry[socket[s].agent]))
    BY DEF OpenSocketIsReachable
  <2>1. /\ registry[socket[s].agent] = socket[s].set /\ s \in InSeq(sets[socket[s].set])
        /\ socket[s].set \in 1..Len(sets) /\ Len(sets) \in Nat
    BY DEF ProcessInv, SocketInv, Open
  <2> QED
    BY <2>1 DEF Members
<1> QED
  BY ProcessInvariant, <1>1, PTL

(* Reconnecting earns no messages, for any capacity.                       *)
THEOREM BudgetsSurvive == Spec => []BudgetSurvivesReconnect
<1>1. ProcessInv => BudgetSurvivesReconnect
  <2> SUFFICES ASSUME ProcessInv, NEW a \in Agents PROVE handled[a] <= BucketCapacity + refills[a]
    BY DEF BudgetSurvivesReconnect
  <2>1. /\ bucket[a] \in -1..BucketCapacity /\ refills[a] \in Nat /\ handled[a] \in Nat
        /\ BucketCapacity \in Nat
        /\ handled[a] + (IF bucket[a] = -1 THEN BucketCapacity ELSE bucket[a]) <= BucketCapacity + refills[a]
    BY SocketsAssumption DEF ProcessInv, BudgetInv
  <2> QED
    BY <2>1
<1> QED
  BY ProcessInvariant, <1>1, PTL
=============================================================================
