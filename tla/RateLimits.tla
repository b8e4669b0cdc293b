----------------------------- MODULE RateLimits -----------------------------
(***************************************************************************)
(* The failure counters of auth_rate_limits (lib/auth-rate-limit.ts and    *)
(* lib/ws-rate-limit.ts): one row per key, shared by every Gateway         *)
(* process.  An attempt inspects its rows, does its work (a password hash, *)
(* the lookup of a code, validateAgent) and records a failure or a success *)
(* afterwards, so attempts that were let in together all count.  A sign-in *)
(* has two keys, its account's and its address's, bumped in parallel.      *)
(*                                                                         *)
(* Time is a small clock.  lockDurationMs (at 5, 10, 15, 20 failures: 30 s,*)
(* 5 min, 15 min, 60 min) keeps its shape: every Step failures move to the *)
(* next of LockFor's durations, the last one longer than the window.       *)
(***************************************************************************)
EXTENDS Integers, Sequences, FiniteSets

CONSTANTS
  Workers,       \* requests that can be in progress at once
  AccountKey, AddressKey, PairingKey, UpgradeKey,
  Step,          \* failures between two lock durations (5)
  LockFor,       \* the durations, shortest first
  Window,        \* AUTH_RATE_WINDOW_MS, PAIRING_RATE_WINDOW_MS, WINDOW_MS
  WsMaxFailures, \* MAX_FAILURES of ws-rate-limit.ts
  WsLock,        \* LOCK_MS of ws-rate-limit.ts
  MaxNow,        \* bound of the clock
  MaxFailures    \* bound of the failures recorded for a key

ASSUME LimitsAssumption ==
  /\ Step \in Nat \ {0}
  /\ LockFor \in Seq(Nat) \ {<<>>}
  /\ \A i, j \in DOMAIN LockFor : i <= j => LockFor[i] <= LockFor[j]
  /\ {Window, WsMaxFailures, WsLock, MaxNow} \subseteq Nat
  /\ IsFiniteSet(Workers) /\ Workers # {}

VARIABLES
  now,
  limit,         \* the auth_rate_limits row of each key
  localLock,     \* localLockedUntil: this process's cache of upgrade locks
  attempt,       \* the keys each attempt has yet to record, {} when none runs
  seen,          \* the counts each attempt saw when it was let in
  tally,         \* failures recorded for a key in its current window
  late           \* failures recorded while the key was already locked

limitVars == <<now, limit, localLock, attempt, seen, tally, late>>

Keys == {AccountKey, AddressKey, PairingKey, UpgradeKey}
LoginKeys == {AccountKey, AddressKey}

NoRow == [failures |-> 0, windowStart |-> 0, lockedUntil |-> 0]

LimitTypeOK ==
  /\ now \in 0..MaxNow
  /\ limit \in [Keys -> [failures: Nat, windowStart: Nat, lockedUntil: Nat]]
  /\ localLock \in Nat
  /\ attempt \in [Workers -> SUBSET Keys]

LimitInit ==
  /\ now = 0
  /\ limit = [k \in Keys |-> NoRow]
  /\ localLock = 0
  /\ attempt = [w \in Workers |-> {}]
  /\ seen = [w \in Workers |-> [k \in Keys |-> 0]]
  /\ tally = [k \in Keys |-> 0]
  /\ late = [k \in Keys |-> 0]

(* lockDurationMs and pairingLockDurationMs.                               *)
LockDuration(failures) ==
  LET tier == failures \div Step
  IN IF tier = 0 THEN 0
     ELSE LockFor[IF tier > Len(LockFor) THEN Len(LockFor) ELSE tier]

Locked(k) == limit[k].lockedUntil > now

(* Slip: the shorter of a sign-in's two locks decides.                     *)
AllowedByEither(K) == \E k \in K : ~Locked(k)

(* inspectAuthRateLimit, inspectPairingRateLimit and, for upgrades,        *)
(* inspectWsUpgradeRateLimit, which asks the process's cache first and     *)
(* also refuses a full count whose window still runs.                      *)
Allowed(K) ==
  /\ \A k \in K : ~Locked(k)
  /\ UpgradeKey \in K =>
       /\ localLock <= now
       /\ limit[UpgradeKey].windowStart > now - Window =>
            limit[UpgradeKey].failures < WsMaxFailures

WindowOver(k) == limit[k].failures # 0 /\ limit[k].windowStart < now - Window

Counted(k, failures) ==
  LET d == LockDuration(failures)
  IN [failures    |-> failures,
      windowStart |-> IF failures = 1 THEN now ELSE limit[k].windowStart,
      lockedUntil |-> IF d = 0 THEN 0 ELSE now + d]

(* Slip: the count is the one the attempt saw when it was let in.          *)
BumpStale(k, saw) == Counted(k, IF WindowOver(k) THEN 1 ELSE saw + 1)

(* bumpWith: under the row lock, one failure more, or the first of a new   *)
(* window; the lock is recomputed from the count.                          *)
Bump(k, saw) == Counted(k, IF WindowOver(k) THEN 1 ELSE limit[k].failures + 1)

(* recordWsUpgradeFailure's upsert.                                        *)
UpgradeBump ==
  LET r == limit[UpgradeKey]
      fresh == r.failures = 0 \/ WindowOver(UpgradeKey)
  IN IF fresh THEN [failures |-> 1, windowStart |-> now, lockedUntil |-> 0]
     ELSE [r EXCEPT !.failures = @ + 1,
                    !.lockedUntil = IF r.failures + 1 >= WsMaxFailures THEN now + WsLock ELSE 0]

(* An attempt is let in; one that is not is answered 429 and forgotten.    *)
Inspect(w, K) ==
  /\ attempt[w] = {}
  /\ Allowed(K)
  /\ attempt' = [attempt EXCEPT ![w] = K]
  /\ seen' = [seen EXCEPT ![w] = [k \in Keys |-> IF k \in K THEN limit[k].failures ELSE 0]]
  /\ UNCHANGED <<now, limit, localLock, tally, late>>

(* A refused upgrade leaves its lock in the process's cache.               *)
RefuseUpgrade(w) ==
  /\ attempt[w] = {}
  /\ ~Allowed({UpgradeKey})
  /\ localLock' = IF localLock > now THEN localLock
                  ELSE IF Locked(UpgradeKey) THEN limit[UpgradeKey].lockedUntil
                  ELSE now + WsLock
  /\ UNCHANGED <<now, limit, attempt, seen, tally, late>>

(* One of the attempt's failures is recorded.  A lock on upgrades is also  *)
(* cached by the process that recorded it: this one or another.            *)
Fail(w, k) ==
  LET r == IF k = UpgradeKey THEN UpgradeBump ELSE Bump(k, seen[w][k])
  IN /\ k \in attempt[w]
     /\ tally[k] < MaxFailures
     /\ attempt' = [attempt EXCEPT ![w] = @ \ {k}]
     /\ seen' = [seen EXCEPT ![w][k] = 0]
     /\ limit' = [limit EXCEPT ![k] = r]
     /\ localLock' \in IF k = UpgradeKey /\ r.lockedUntil > now
                         THEN {localLock, r.lockedUntil} ELSE {localLock}
     /\ tally' = [tally EXCEPT ![k] = IF WindowOver(k) THEN 1 ELSE @ + 1]
     /\ late' = [late EXCEPT ![k] = IF Locked(k) THEN @ + 1 ELSE 0]
     /\ UNCHANGED now

(* recordAuthSuccess and recordPairingSuccess delete the account's or the  *)
(* pairing row; an address's row and an upgrade's stay.                    *)
Succeed(w) ==
  LET cleared == attempt[w] \ {AddressKey, UpgradeKey}
  IN /\ attempt[w] # {}
     /\ attempt' = [attempt EXCEPT ![w] = {}]
     /\ seen' = [seen EXCEPT ![w] = [k \in Keys |-> 0]]
     /\ limit' = [k \in Keys |-> IF k \in cleared THEN NoRow ELSE limit[k]]
     /\ tally' = [k \in Keys |-> IF k \in cleared THEN 0 ELSE tally[k]]
     /\ UNCHANGED <<now, localLock, late>>

(* cleanupAuthRateLimits: rows untouched for a day, far beyond any window  *)
(* or lock, are deleted.                                                   *)
CleanupRateLimits(k) ==
  /\ WindowOver(k) /\ ~Locked(k)
  /\ limit' = [limit EXCEPT ![k] = NoRow]
  /\ tally' = [tally EXCEPT ![k] = 0]
  /\ UNCHANGED <<now, localLock, attempt, seen, late>>

Tick == /\ now < MaxNow
        /\ now' = now + 1
        /\ UNCHANGED <<limit, localLock, attempt, seen, tally, late>>

(* No failure is lost: a row counts every failure recorded in its window,  *)
(* however many attempts were in progress together (bumpWith's FOR UPDATE, *)
(* recordWsUpgradeFailure's upsert).                                       *)
EveryFailureCounts == \A k \in Keys : limit[k].failures = tally[k]

(* An attempt let in before the lock ends it: its success deletes the row, *)
(* or its failure, recorded after the row's window, begins a new count.    *)
EndedByStraggler(k) ==
  \E w \in Workers : /\ k \in attempt[w] /\ k \notin attempt'[w]
                     /\ limit'[k] = NoRow \/ WindowOver(k)

(* While a key is locked, only the attempts that had passed their          *)
(* inspection before reach the credentials, and each at most once; the     *)
(* lock is never shortened but by one of those, whose success deletes the  *)
(* row or whose failure, recorded after the window ended, starts it anew   *)
(* (bumpWith): a lock longer than its window does not last by itself       *)
(* (inspectAuthRateLimit and inspectWsUpgradeRateLimit against the record  *)
(* functions).                                                             *)
LockoutHolds ==
  [][\A k \in Keys : Locked(k) =>
       /\ late'[k] < Cardinality(Workers)
       /\ limit'[k].lockedUntil < limit[k].lockedUntil => EndedByStraggler(k)]_limitVars

=============================================================================
