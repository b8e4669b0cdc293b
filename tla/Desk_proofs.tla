---------------------------- MODULE Desk_proofs ----------------------------
(***************************************************************************)
(* Invariants of the print desk, first part: the parts of PrintDesk that   *)
(* can be proved about by themselves.                                      *)
(*                                                                         *)
(*   - the body guard: the bytes reserved are those of the bodies held;    *)
(*   - the workstation: while commands do not overlap, the running agent   *)
(*     is the one the manager owns;                                        *)
(*   - admission: what every step of the desk may do to the rows, and the  *)
(*     types, the keys' answers and the ceilings that follow.              *)
(*                                                                         *)
(* Each step of the desk is a step of one part or leaves the part alone.   *)
(***************************************************************************)
EXTENDS PrintDesk, FiniteSetTheorems, SequenceTheorems, TLAPS

-----------------------------------------------------------------------------
(* The body guard.  A sum over a set is a count: of the units of length,    *)
(* each with the request it belongs to.                                     *)

Sum(b, S) == MapThenSumSet(LAMBDA r : b[r].length, S)

Units(b, S) == {u \in S \X (1 .. MaxLength) : u[2] <= b[u[1]].length}

LEMMA UnitsOfNone ==
  ASSUME NEW b
  PROVE  IsFiniteSet(Units(b, {})) /\ Cardinality(Units(b, {})) = 0
<1>1. Units(b, {}) = {}
  BY DEF Units
<1> QED
  BY <1>1, FS_EmptySet

LEMMA UnitsOfOneMore ==
  ASSUME NEW b, NEW S, NEW x \in S, b[x].length \in Lengths,
         IsFiniteSet(Units(b, S \ {x}))
  PROVE  /\ IsFiniteSet(Units(b, S))
         /\ Cardinality(Units(b, S)) = b[x].length + Cardinality(Units(b, S \ {x}))
<1> DEFINE n == b[x].length
           Own == {x} \X (1 .. n)
           Others == Units(b, S \ {x})
<1>1. n \in Nat /\ n <= MaxLength /\ MaxLength \in Nat
  BY GuardAssumption DEF Lengths
<1>2. Units(b, S) = Own \cup Others /\ Own \cap Others = {}
  BY <1>1 DEF Units
<1>3. IsFiniteSet(1 .. n) /\ Cardinality(1 .. n) = n
  <2> HIDE DEF n
  <2>1. IsFiniteSet(1 .. n)
        /\ Cardinality(1 .. n) = IF 1 > n THEN 0 ELSE n - 1 + 1
    BY <1>1, FS_Interval
  <2> QED
    BY <1>1, <2>1
<1>4. IsFiniteSet(Own) /\ Cardinality(Own) = n
  <2>1. IsFiniteSet({x}) /\ Cardinality({x}) = 1
    BY FS_Singleton
  <2>2. IsFiniteSet(Own) /\ Cardinality(Own) = 1 * n
    BY <1>3, <2>1, FS_Product
  <2> QED
    BY <1>1, <2>2
<1>5. /\ IsFiniteSet(Own \cup Others)
      /\ Cardinality(Own \cup Others)
           = Cardinality(Own) + Cardinality(Others) - Cardinality(Own \cap Others)
  BY <1>4, FS_Union
<1> HIDE DEF n, Own, Others
<1>6. Cardinality(Others) \in Nat
  BY FS_CardinalityType DEF Others
<1>7. Cardinality(Own \cap Others) = 0
  BY <1>2, FS_EmptySet
<1>8. IsFiniteSet(Units(b, S)) /\ Cardinality(Units(b, S)) = n + Cardinality(Others)
  BY <1>1, <1>2, <1>4, <1>5, <1>6, <1>7
<1> QED
  BY <1>8 DEF n, Others

LEMMA UnitsAreFinite ==
  ASSUME NEW b, NEW S, IsFiniteSet(S)
  PROVE  IsFiniteSet(Units(b, S)) /\ Cardinality(Units(b, S)) \in Nat
<1>1. IsFiniteSet(1 .. MaxLength)
  BY GuardAssumption, FS_Interval
<1>2. IsFiniteSet(S \X (1 .. MaxLength))
  BY <1>1, FS_Product
<1> QED
  BY <1>2, FS_Subset, FS_CardinalityType DEF Units

(* MapThenSumSet takes the elements one by one; by well-founded induction  *)
(* over the subsets it arrives at the count.                               *)
LEMMA SumIsACount ==
  ASSUME NEW b, NEW S, IsFiniteSet(S), \A x \in S : b[x].length \in Lengths
  PROVE  Sum(b, S) = Cardinality(Units(b, S))
<1> DEFINE Pick(s) == CHOOSE x \in s : TRUE
           Unfold(f) == [s \in SUBSET S |->
                        IF s = {} THEN 0 ELSE b[Pick(s)].length + f[s \ {Pick(s)}]]
           iter == CHOOSE f : f = Unfold(f)
           count == [s \in SUBSET S |-> Cardinality(Units(b, s))]
<1>1. Sum(b, S) = iter[S]
  BY DEF Sum, MapThenSumSet, MapThenFoldSet
<1>2. count = Unfold(count)
  <2>1. ASSUME NEW s \in SUBSET S, s # {}
        PROVE  count[s] = b[Pick(s)].length + count[s \ {Pick(s)}]
    <3>1. Pick(s) \in s
      BY <2>1
    <3> HIDE DEF Pick
    <3>2. s \ {Pick(s)} \in SUBSET S /\ b[Pick(s)].length \in Lengths
      BY <3>1
    <3>3. IsFiniteSet(Units(b, s \ {Pick(s)}))
      BY <3>2, FS_Subset, UnitsAreFinite
    <3>4. Cardinality(Units(b, s)) = b[Pick(s)].length + Cardinality(Units(b, s \ {Pick(s)}))
      BY <3>1, <3>2, <3>3, UnitsOfOneMore
    <3> QED
      BY <3>2, <3>4
  <2>2. count[{}] = 0
    BY UnitsOfNone
  <2> HIDE DEF Pick
  <2>3. \A s \in SUBSET S : count[s] = IF s = {} THEN 0 ELSE b[Pick(s)].length + count[s \ {Pick(s)}]
    BY <2>1, <2>2
  <2> HIDE DEF count
  <2>4. count = [s \in SUBSET S |-> count[s]]
    BY DEF count
  <2> QED
    BY <2>3, <2>4
<1>3. iter = Unfold(iter)
  <2>1. \E f : f = Unfold(f)
    BY <1>2
  <2> HIDE DEF Unfold
  <2> QED
    BY <2>1
<1> HIDE DEF iter
<1>4. \A s \in SUBSET S : iter[s] = count[s]
  <2> DEFINE wrong == {s \in SUBSET S : iter[s] # count[s]}
  <2> SUFFICES ASSUME wrong # {} PROVE FALSE
    OBVIOUS
  <2>1. IsWellFoundedOn(StrictSubsetOrdering(S), SUBSET S)
    BY FS_StrictSubsetOrderingWellFounded, FS_FiniteSubsetsOfFinite
  <2>2. PICK s \in wrong : \A t \in wrong : ~(<<t, s>> \in StrictSubsetOrdering(S))
    <3>1. wrong \subseteq SUBSET S
      OBVIOUS
    <3> HIDE DEF wrong
    <3> QED
      BY <2>1, <3>1, WFMin
  <2>3. s # {}
    BY <1>2, <1>3
  <2>4. Pick(s) \in s
    BY <2>3
  <2> HIDE DEF Pick
  <2>5. <<s \ {Pick(s)}, s>> \in StrictSubsetOrdering(S)
    BY <2>4 DEF StrictSubsetOrdering
  <2>6. iter[s \ {Pick(s)}] = count[s \ {Pick(s)}]
    BY <2>2, <2>5
  <2>7. iter[s] = b[Pick(s)].length + iter[s \ {Pick(s)}]
    BY <1>3, <2>3
  <2>8. count[s] = b[Pick(s)].length + count[s \ {Pick(s)}]
    <3> HIDE DEF count
    <3> QED
      BY <1>2, <2>3
  <2> QED
    BY <2>2, <2>6, <2>7, <2>8
<1>5. iter[S] = count[S]
  BY <1>4
<1> QED
  BY <1>1, <1>5

(* The requests whose length is still reserved.                            *)
Counting(b) == {r \in Bodies : b[r].state = "open" /\ b[r].heard = 0}

LEMMA CountOfBodies ==
  ASSUME NEW b, \A r \in Bodies : b[r].length \in Lengths
  PROVE  /\ Sum(b, Counting(b)) = Cardinality(Units(b, Counting(b)))
         /\ \A S \in SUBSET Bodies : IsFiniteSet(Units(b, S)) /\ Cardinality(Units(b, S)) \in Nat
<1>1. \A S \in SUBSET Bodies : IsFiniteSet(S)
  BY GuardAssumption, FS_Subset
<1>2. Counting(b) \in SUBSET Bodies
  BY DEF Counting
<1> QED
  BY <1>1, <1>2, SumIsACount, UnitsAreFinite

GuardInv ==
  /\ GuardTypeOK
  /\ reserved = Sum(body, Counting(body)) /\ reserved <= Capacity
  /\ \A r \in Bodies : /\ body[r].state = "none" => body[r].heard = 0
                       /\ body[r].released <=> body[r].heard # 0

LEMMA GuardStep == GuardInv /\ (GuardNext \/ UNCHANGED guardVars) => GuardInv'
<1> SUFFICES ASSUME GuardInv, GuardNext \/ UNCHANGED guardVars PROVE GuardInv'
  OBVIOUS
<1> USE GuardAssumption DEF GuardInv, GuardTypeOK
<1>1. \A r \in Bodies : body[r].length \in Lengths
  OBVIOUS
<1>2. reserved = Cardinality(Units(body, Counting(body))) /\ reserved \in Nat
  BY <1>1, CountOfBodies
<1>3. CASE UNCHANGED guardVars
  BY <1>3 DEF guardVars
(* A step that leaves the lengths reserved alone.                          *)
<1>4. ASSUME GuardTypeOK', Counting(body') = Counting(body), reserved' = reserved,
             \A r \in Counting(body) : body'[r].length = body[r].length
      PROVE  reserved' = Sum(body', Counting(body'))
  <2>1. Units(body', Counting(body')) = Units(body, Counting(body))
    BY <1>4 DEF Units
  <2>2. Sum(body', Counting(body')) = Cardinality(Units(body', Counting(body')))
    BY <1>4, CountOfBodies
  <2> QED
    BY <1>2, <1>4, <2>1, <2>2
<1>5. ASSUME NEW r \in Bodies, NEW state \in {"refused", "passed"},
             Settles(r, state), UNCHANGED reserved
      PROVE  GuardInv'
  <2>1. GuardTypeOK' /\ Counting(body') = Counting(body)
    BY <1>5 DEF Settles, Counting
  <2>2. /\ \A x \in Bodies : /\ body'[x].length = body[x].length
                             /\ body'[x].heard = body[x].heard /\ body'[x].released = body[x].released
                             /\ body'[x].state = "none" => body[x].state = "none"
    BY <1>5 DEF Settles
  <2>3. reserved' = Sum(body', Counting(body'))
    BY <1>4, <1>5, <2>1, <2>2 DEF Counting
  <2> QED
    BY <1>5, <2>1, <2>2, <2>3
<1>6. ASSUME NEW r \in Bodies, NEW length \in Lengths, Reserve(r, length)
      PROVE  GuardInv'
  <2>1. GuardTypeOK'
    <3>1. length \in Nat /\ reserved \in Nat
      BY DEF Lengths
    <3>2. reserved' \in Nat
      BY <3>1, <1>6 DEF Reserve
    <3>3. body' \in [Bodies -> [state : {"none", "refused", "passed", "open"}, length : Lengths,
                                released : BOOLEAN, heard : 0 .. Listeners]]
      BY <1>6 DEF Reserve
    <3> QED
      BY <3>2, <3>3
  <2>2. Counting(body') = Counting(body) \cup {r} /\ r \notin Counting(body)
    BY <1>6 DEF Reserve, Counting
  <2>3. Units(body', Counting(body') \ {r}) = Units(body, Counting(body))
    <3>1. \A x \in Counting(body) : body'[x].length = body[x].length
      BY <1>6 DEF Reserve, Counting
    <3>2. Counting(body') \ {r} = Counting(body)
      BY <2>2
    <3> QED
      BY <3>1, <3>2 DEF Units
  <2>4. body'[r].length = length
    BY <1>6 DEF Reserve
  <2>5. IsFiniteSet(Units(body, Counting(body)))
    BY <1>1, CountOfBodies DEF Counting
  <2>6. Cardinality(Units(body', Counting(body'))) = length + reserved
    BY <1>2, <2>2, <2>3, <2>4, <2>5, UnitsOfOneMore
  <2>7. reserved' = Sum(body', Counting(body'))
    <3>1. reserved' = length + reserved
      BY <1>2, <1>6 DEF Reserve, Lengths
    <3>2. \A x \in Bodies : body'[x].length \in Lengths
      BY <2>1
    <3>3. Sum(body', Counting(body')) = Cardinality(Units(body', Counting(body')))
      BY <3>2, CountOfBodies
    <3> QED
      BY <2>6, <3>1, <3>3
  <2>8. \A x \in Bodies : /\ body'[x].state = "none" => body[x].state = "none"
                          /\ body'[x].heard = body[x].heard /\ body'[x].released = body[x].released
    BY <1>6 DEF Reserve
  <2> QED
    BY <1>6, <2>1, <2>7, <2>8 DEF Reserve, Fits
<1>7. ASSUME NEW r \in Bodies, ReleaseOnce(r)
      PROVE  GuardInv'
  <2>1. /\ \A x \in Bodies : /\ x # r => body'[x] = body[x]
                             /\ body'[x].length = body[x].length /\ body'[x].state = body[x].state
        /\ body'[r].heard = body[r].heard + 1 /\ body'[r].released
        /\ body[r].state = "open" /\ body[r].heard \in Nat
    BY <1>7 DEF ReleaseOnce, Listeners
  <2>2. \A x \in Bodies : /\ body'[x].state = "none" => body'[x].heard = 0
                          /\ body'[x].released <=> body'[x].heard # 0
    BY <2>1
  <2>3. body' \in [Bodies -> [state : {"none", "refused", "passed", "open"}, length : Lengths,
                              released : BOOLEAN, heard : 0 .. Listeners]]
    <3>1. body[r].heard + 1 \in 0 .. Listeners
      BY <1>7 DEF ReleaseOnce, Listeners
    <3> QED
      BY <1>7, <3>1 DEF ReleaseOnce
  <2>4. CASE body[r].released
    <3>1. reserved' = reserved
      BY <1>7, <2>4 DEF ReleaseOnce
    <3>2. Counting(body') = Counting(body)
      BY <2>1, <2>4 DEF Counting
    <3>3. reserved' = Sum(body', Counting(body'))
      BY <1>2, <1>4, <2>1, <2>3, <3>1, <3>2 DEF Counting
    <3> HIDE DEF GuardTypeOK
    <3>4. GuardTypeOK'
      BY <2>3, <3>1 DEF GuardTypeOK
    <3> QED
      BY <2>2, <3>1, <3>3, <3>4
  <2>5. CASE ~body[r].released
    <3>1. r \in Counting(body) /\ Counting(body') = Counting(body) \ {r}
      BY <2>1, <2>5 DEF Counting
    <3>2. Units(body', Counting(body')) = Units(body, Counting(body) \ {r})
      BY <2>1, <3>1 DEF Units, Counting
    <3>3. /\ IsFiniteSet(Units(body, Counting(body) \ {r}))
          /\ Cardinality(Units(body, Counting(body) \ {r})) \in Nat
      BY <1>1, CountOfBodies DEF Counting
    <3>4. reserved = body[r].length + Cardinality(Units(body, Counting(body) \ {r}))
      BY <1>1, <1>2, <3>1, <3>3, UnitsOfOneMore
    <3>5. reserved' = Cardinality(Units(body, Counting(body) \ {r})) /\ reserved' <= reserved
      <4>1. reserved' = IF reserved > body[r].length THEN reserved - body[r].length ELSE 0
        BY <1>7, <2>5 DEF ReleaseOnce
      <4>2. body[r].length \in Nat
        BY <1>1 DEF Lengths
      <4> QED
        BY <3>3, <3>4, <4>1, <4>2
    <3>6. Sum(body', Counting(body')) = Cardinality(Units(body', Counting(body')))
      BY <1>1, <2>1, CountOfBodies
    <3>7. reserved' = Sum(body', Counting(body')) /\ reserved' \in Nat /\ reserved' <= Capacity
      BY <1>2, <3>2, <3>3, <3>5, <3>6
    <3>8. GuardTypeOK'
      BY <2>3, <3>7
    <3> HIDE DEF GuardTypeOK
    <3> QED
      BY <2>2, <3>7, <3>8
  <2> QED
    BY <2>4, <2>5
<1> QED
  BY <1>3, <1>5, <1>6, <1>7 DEF GuardNext, RefuseUnsized, PassAnonymous, RefuseForRoom

LEMMA GuardBegins == GuardInit => GuardInv
<1> SUFFICES ASSUME GuardInit PROVE GuardInv
  OBVIOUS
<1>1. GuardTypeOK /\ Counting(body) = {}
  BY GuardAssumption DEF GuardInit, GuardTypeOK, Untouched, Lengths, Listeners, Counting
<1>2. Sum(body, Counting(body)) = 0
  BY <1>1, CountOfBodies, UnitsOfNone DEF GuardTypeOK
<1> QED
  BY <1>1, <1>2, GuardAssumption DEF GuardInit, GuardInv, Untouched

-----------------------------------------------------------------------------
(* The workstation.  One command at a time keeps the agent to itself: what *)
(* it looked at still holds when it acts, except that an agent may end.    *)

OneAgent ==
  /\ \A t, u \in Threads : Busy(t) /\ Busy(u) => t = u
  /\ service = "running" => processes = {}
  /\ (\A t \in Threads : ~At(t, "persist")) => processes \subseteq {pidFile}

Secured(t) ==
  /\ At(t, "spawn") => ~Running
  /\ At(t, "persist") => service # "running" /\ processes \subseteq {command[t].pid}
  /\ At(t, "kill") \/ At(t, "wait") => service # "running" /\ command[t].pid = pidFile
  /\ At(t, "clear") => processes = {}

WorkInv == /\ WorkstationTypeOK
           /\ ~overlapped => OneAgent /\ \A t \in Threads : Secured(t)

WorkstationNext ==
  \/ \E t \in Threads : Goes(t) \/ \E kind \in {"start", "stop", "restart"} : Command(t, kind)
  \/ AgentExits \/ RefreshStatus \/ \E answer \in BOOLEAN : StatusAnswered(answer)

LEMMA WorkstationTypes ==
  WorkstationTypeOK /\ (WorkstationNext \/ UNCHANGED workstationVars) => WorkstationTypeOK'
<1> SUFFICES ASSUME WorkstationTypeOK, WorkstationNext \/ UNCHANGED workstationVars
             PROVE  WorkstationTypeOK'
  OBVIOUS
<1> USE WorkstationAssumption DEF WorkstationTypeOK, Rest
<1>1. CASE UNCHANGED workstationVars
  BY <1>1 DEF workstationVars
<1>2. Running \in BOOLEAN
  BY DEF Running
<1>3. Asks => reads' \in [BOOLEAN -> 0 .. MaxReads]
  BY <1>2 DEF Asks
<1>4. ASSUME NEW t \in Threads, StartLooks(t) PROVE WorkstationTypeOK'
  BY <1>3, <1>4 DEF StartLooks, Succeeds, GoesTo
<1>5. ASSUME NEW t \in Threads, Spawn(t) \/ Persist(t) PROVE WorkstationTypeOK'
  BY <1>3, <1>5 DEF Spawn, Persist, Succeeds, Fails, KeepWindow
<1>6. ASSUME NEW t \in Threads, StopLooks(t) PROVE WorkstationTypeOK'
  BY <1>3, <1>6 DEF StopLooks, Stopped, Succeeds, Fails, GoesTo
<1>7. ASSUME NEW t \in Threads, Kill(t) \/ Wait(t) \/ Clear(t) PROVE WorkstationTypeOK'
  BY <1>3, <1>7 DEF Kill, Wait, Clear, Stopped, Succeeds, Fails, GoesTo, KeepWindow
<1>8. ASSUME NEW t \in Threads, NEW kind \in {"start", "stop", "restart"}, Command(t, kind)
      PROVE  WorkstationTypeOK'
  BY <1>8 DEF Command, KeepAgents
<1>9. CASE AgentExits
  BY <1>9 DEF AgentExits, KeepWindow
<1>10. CASE RefreshStatus
  BY <1>3, <1>10 DEF RefreshStatus, KeepAgents
<1>11. ASSUME NEW answer \in BOOLEAN, StatusAnswered(answer) PROVE WorkstationTypeOK'
  BY <1>11 DEF StatusAnswered, KeepAgents
<1> QED
  BY <1>1, <1>4, <1>5, <1>6, <1>7, <1>8, <1>9, <1>10, <1>11 DEF WorkstationNext, Goes

LEMMA WorkStep == WorkInv /\ (WorkstationNext \/ UNCHANGED workstationVars) => WorkInv'
<1> SUFFICES ASSUME WorkInv, WorkstationNext \/ UNCHANGED workstationVars PROVE WorkInv'
  OBVIOUS
<1>1. WorkstationTypeOK /\ WorkstationTypeOK'
  BY WorkstationTypes DEF WorkInv
<1>2. SUFFICES ASSUME ~overlapped' PROVE OneAgent' /\ \A t \in Threads : Secured(t)'
  BY <1>1 DEF WorkInv
<1> USE WorkstationAssumption DEF OneAgent, Secured, At, Busy, Rest
<1>3. CASE UNCHANGED workstationVars
  BY <1>2, <1>3 DEF workstationVars, WorkInv, Running
<1>4. \A t \in Threads : command[t].step # "none" => Busy(t)
  BY <1>1 DEF WorkstationTypeOK
<1>5. ASSUME NEW t \in Threads, NEW kind \in {"start", "stop", "restart"}, Command(t, kind)
      PROVE  OneAgent' /\ \A u \in Threads : Secured(u)'
  <2>1. /\ \A u \in Threads : command[u] = Rest /\ ~overlapped
        /\ UNCHANGED <<processes, service, pidFile>>
        /\ \A u \in Threads : u # t => command'[u] = Rest
        /\ command'[t].step \in {"start", "stop"}
    BY <1>1, <1>2, <1>5 DEF Command, KeepAgents, WorkstationTypeOK
  <2> QED
    BY <2>1 DEF WorkInv
<1>6. CASE AgentExits
  BY <1>1, <1>2, <1>6 DEF AgentExits, KeepWindow, WorkInv, Running, WorkstationTypeOK
<1>7. CASE RefreshStatus \/ \E answer \in BOOLEAN : StatusAnswered(answer)
  BY <1>2, <1>7 DEF RefreshStatus, StatusAnswered, KeepAgents, WorkInv, Running
<1>8. ASSUME NEW t \in Threads, Goes(t) PROVE OneAgent' /\ \A u \in Threads : Secured(u)'
  <2>1. ~overlapped /\ OneAgent /\ \A u \in Threads : Secured(u)
    BY <1>2, <1>8 DEF Goes, StartLooks, Spawn, Persist, StopLooks, Kill, Wait, Clear, KeepWindow, WorkInv
  <2>2. Busy(t) /\ \A u \in Threads : u # t => command[u] = Rest
    BY <1>4, <1>8, <2>1 DEF Goes, StartLooks, Spawn, Persist, StopLooks, Kill, Wait, Clear
  <2>3. \A u \in Threads : u # t => command'[u] = Rest
    BY <1>1, <1>8, <2>2 DEF Goes, StartLooks, Spawn, Persist, StopLooks, Kill, Wait, Clear, Stopped,
      Succeeds, Fails, GoesTo, WorkstationTypeOK
  <2>4. SUFFICES /\ service' = "running" => processes' = {}
                 /\ ~At(t, "persist")' => processes' \subseteq {pidFile'}
                 /\ Secured(t)'
    BY <2>3
  <2>5. ~At(t, "persist") => processes \subseteq {pidFile}
    BY <2>1, <2>2
  <2> USE <1>1, <2>1, <2>5 DEF WorkstationTypeOK
  <2>6. CASE StartLooks(t)
    BY <2>6 DEF StartLooks, Succeeds, GoesTo, Running
  <2>7. CASE Spawn(t)
    BY <2>7 DEF Spawn, Running
  <2>8. CASE Persist(t)
    BY <2>8 DEF Persist, Succeeds, Fails
  <2>9. CASE StopLooks(t)
    BY <2>9 DEF StopLooks, Stopped, Succeeds, Fails, GoesTo, Running
  <2>10. CASE Kill(t)
    BY <2>10 DEF Kill, GoesTo
  <2>11. CASE Wait(t)
    BY <2>11 DEF Wait, Fails, GoesTo, Running
  <2>12. CASE Clear(t)
    BY <2>12 DEF Clear, Stopped, Succeeds, GoesTo
  <2> QED
    BY <1>8, <2>6, <2>7, <2>8, <2>9, <2>10, <2>11, <2>12 DEF Goes
<1> QED
  BY <1>3, <1>5, <1>6, <1>7, <1>8 DEF WorkstationNext

LEMMA WorkBegins == WorkstationInit => WorkInv
<1> SUFFICES ASSUME WorkstationInit PROVE WorkInv
  OBVIOUS
<1>1. WorkstationTypeOK
  <2>1. PICK t \in Threads :
          command = [u \in Threads |-> IF u = t THEN [Rest EXCEPT !.kind = "setup", !.step = "start"]
                                                ELSE Rest]
    BY DEF WorkstationInit
  <2>2. command \in [Threads -> [kind : {"none", "setup", "start", "stop", "restart"},
                                 step : {"none", "stop", "kill", "wait", "clear",
                                         "start", "spawn", "persist"},
                                 pid : Pids \cup {NoPid}]]
    BY <2>1 DEF Rest
  <2>3. reads \in [BOOLEAN -> 0 .. MaxReads]
    BY WorkstationAssumption DEF WorkstationInit
  <2> QED
    BY <2>2, <2>3 DEF WorkstationInit, WorkstationTypeOK
<1> QED
  BY <1>1, WorkstationAssumption DEF WorkstationInit, WorkInv, OneAgent, Secured, Busy, At, Rest, Running

LEMMA WorkIsOwned == WorkInv => AgentIsOwned
<1> SUFFICES ASSUME WorkInv, ~overlapped
             PROVE  Cardinality(processes) + (IF service = "running" THEN 1 ELSE 0) <= 1
  BY DEF WorkInv, OneAgent, AgentIsOwned
<1>1. PICK pid : processes \subseteq {pid}
  BY DEF WorkInv, OneAgent, Secured
<1>2. Cardinality({}) = 0 /\ Cardinality({pid}) = 1
  BY FS_EmptySet, FS_Singleton
<1>3. CASE processes = {}
  BY <1>2, <1>3
<1>4. CASE processes = {pid}
  <2>1. service # "running"
    <3>1. pid \in processes
      BY <1>4
    <3> QED
      BY <3>1 DEF WorkInv, OneAgent
  <2>2. Cardinality(processes) = 1
    BY <1>2, <1>4
  <2> QED
    BY <2>1, <2>2
<1> QED
  BY <1>1, <1>3, <1>4

-----------------------------------------------------------------------------
(* Admission.  Once inserted, a row only fades: it keeps what was asked    *)
(* for, never comes back to life, and is deleted for good.                 *)

Dead(job) == job.status \in TerminalStatuses /\ PhysicalOutcome(job.status, job.error) = "not_printed"

Faded(new, old) ==
  /\ new.key = old.key /\ new.idem = old.idem
  /\ new.printer = old.printer /\ new.document = old.document
  /\ old.deleted => new.deleted
  /\ new.recent => old.recent
  /\ Live(new) => Live(old)
  /\ Dead(old) => Dead(new)

RowsChange ==
  \/ \E i \in 1..MaxJobs : Deliver(i) \/ Expire(i) \/ JobTtlPasses(i)
  \/ MinutePasses
  \/ \E last \in 1..MaxJobs : Cleanup(last)

SettingsChange ==
  \/ PresenceChanges
  \/ \E k \in Keys : \/ RateWindowPasses(k) \/ CreateKey(k) \/ RevokeKey(k) \/ RemoveKey(k)
                     \/ \E new \in Keys : RotateKey(k, new)

Asked(c) ==
  \/ \E key \in Keys, idem \in IdemKey, p \in Printers, document \in Documents :
       Receive(c, key, idem, p, document)
  \/ \E p \in Printers, document \in Documents : ManagerPrints(c, p, document)
  \/ \E i \in 1..MaxJobs : ReprintRead(c, i)

AdmissionNext ==
  \/ RowsChange \/ SettingsChange
  \/ \E c \in Clerks : Asked(c) \/ Serve(c) \/ Close(c)

LEMMA SequenceLike ==
  ASSUME NEW S, NEW s \in Seq(S), NEW f, f \in [DOMAIN s -> S]
  PROVE  f \in Seq(S) /\ Len(f) = Len(s) /\ DOMAIN f = DOMAIN s
<1>1. DOMAIN s = 1 .. Len(s) /\ Len(s) \in Nat
  BY LenProperties
<1>2. f \in [1 .. Len(s) -> S]
  BY <1>1
<1> QED
  BY <1>1, <1>2, IsASeq, LenProperties

LEMMA RowsFade ==
  ASSUME jobs \in Seq(JobRow), RowsChange
  PROVE  /\ jobs' \in Seq(JobRow) /\ Len(jobs') = Len(jobs) /\ DOMAIN jobs' = DOMAIN jobs
         /\ \A i \in DOMAIN jobs : Faded(jobs'[i], jobs[i])
         /\ UNCHANGED <<lock, clerk, told, keyState>>
<1> DEFINE Fades == jobs' \in [DOMAIN jobs -> JobRow] /\ \A i \in DOMAIN jobs : Faded(jobs'[i], jobs[i])
<1>1. \A i \in DOMAIN jobs : jobs[i] \in JobRow
  OBVIOUS
<1>2. ASSUME NEW i \in DOMAIN jobs, NEW status \in Statuses, NEW error \in Errors,
             Becomes(i, status, error),
             Live([jobs[i] EXCEPT !.status = status, !.error = error]) => Live(jobs[i]),
             ~Dead(jobs[i])
      PROVE  Fades
  BY <1>1, <1>2 DEF Becomes, JobRow, Faded
<1>3. ASSUME NEW i \in 1..MaxJobs, Deliver(i) \/ Expire(i)
      PROVE  Fades
  <2>1. i \in DOMAIN jobs /\ jobs[i].status \in Statuses
    BY <1>1, <1>3 DEF Deliver, Expire, Exists, JobRow
  <2>2. CASE \E d \in Deliveries : jobs[i].status = d[1] /\ Becomes(i, d[2], d[3])
    BY <1>1, <1>2, <2>1, <2>2 DEF Deliveries, Live, Dead, Statuses, Errors, UnknownMarkers,
      TerminalStatuses, JobRow
  <2>3. CASE /\ jobs[i].status \in {"failed", "expired"} /\ jobs[i].error \in UnknownMarkers
             /\ Becomes(i, "success", "LATE_SUCCESS")
    BY <1>1, <1>2, <2>1, <2>3 DEF Live, Dead, Statuses, Errors, TerminalStatuses, PhysicalOutcome, JobRow
  <2>4. CASE \E d \in Expiries : jobs[i].status = d[1] /\ Becomes(i, d[2], d[3])
    BY <1>1, <1>2, <2>1, <2>4 DEF Expiries, Live, Dead, Statuses, Errors, UnknownMarkers,
      TerminalStatuses, JobRow
  <2>5. CASE ExpiryReported(i)
    BY <1>1, <2>1, <2>5 DEF ExpiryReported, Becomes, JobRow, Faded, Live, Dead, Statuses, Errors,
      UnknownMarkers, TerminalStatuses, PhysicalOutcome
  <2> QED
    BY <1>3, <2>2, <2>3, <2>4, <2>5 DEF Deliver, Expire
<1>4. ASSUME NEW i \in 1..MaxJobs, JobTtlPasses(i)
      PROVE  Fades
  BY <1>1, <1>4 DEF JobTtlPasses, Exists, JobRow, Faded, Live, Dead
<1>5. ASSUME MinutePasses PROVE Fades
  <2>1. PICK i \in DOMAIN jobs : jobs' = [jobs EXCEPT ![i].recent = FALSE]
    BY <1>5 DEF MinutePasses
  <2>2. jobs' \in [DOMAIN jobs -> JobRow]
    BY <1>1, <2>1 DEF JobRow
  <2>3. \A k \in DOMAIN jobs : k # i => jobs'[k] = jobs[k]
    BY <2>1
  <2>4. jobs'[i] = [jobs[i] EXCEPT !.recent = FALSE]
    BY <2>1
  <2>5. Faded(jobs'[i], jobs[i])
    BY <1>1, <2>4 DEF JobRow, Faded, Live, Dead
  <2>6. \A k \in DOMAIN jobs : Faded(jobs[k], jobs[k])
    BY DEF Faded
  <2>7. \A k \in DOMAIN jobs : Faded(jobs'[k], jobs[k])
    <3> TAKE k \in DOMAIN jobs
    <3> QED
      BY <2>3, <2>5, <2>6
  <2> QED
    BY <2>2, <2>7
<1>6. ASSUME NEW last \in 1..MaxJobs, Cleanup(last)
      PROVE  Fades
  BY <1>1, <1>6 DEF Cleanup, JobRow, Faded, Live, Dead
<1>7. Fades
  BY <1>3, <1>4, <1>5, <1>6 DEF RowsChange
<1>8. UNCHANGED <<lock, clerk, told, keyState>>
  BY DEF RowsChange, Deliver, Expire, JobTtlPasses, MinutePasses, Cleanup, KeepSurroundings, KeepRequests
<1> QED
  BY <1>7, <1>8, SequenceLike

(* What a clerk that has answered, or is about to, knows of a job.         *)
AnswerRight(c) ==
  clerk[c] # Idle =>
    /\ clerk[c].step = "answered" /\ clerk[c].code \in {200, 201} =>
         clerk[c].job \in DOMAIN jobs /\ clerk[c].body.status \in Statuses
    /\ clerk[c].step = "answered" /\ clerk[c].code = 201 => clerk[c].body.status = "queued"
    /\ clerk[c].step = "reread" => clerk[c].job \in DOMAIN jobs
    /\ clerk[c].step = "count" => clerk[c].idem = NoIdem

AnswersInv == AdmissionTypeOK /\ \A c \in Clerks : AnswerRight(c)

Says(reply, code, job) ==
  /\ reply.step = "answered" /\ reply.code = code /\ reply.job = job
  /\ reply.body = IF job = 0 THEN NoBody ELSE Body(job)

LEMMA Answering ==
  ASSUME AdmissionTypeOK, NEW c \in Clerks, clerk[c] # Idle, NEW code \in Codes, NEW job \in Nat,
         Answer(c, code, job)
  PROVE  /\ clerk' \in [Clerks -> RequestRow \cup {Idle}] /\ clerk'[c] # Idle
         /\ \A d \in Clerks : d # c => clerk'[d] = clerk[d]
         /\ clerk'[c] = [clerk[c] EXCEPT !.step = "answered", !.code = code, !.job = job,
                                         !.body = clerk'[c].body]
         /\ Says(clerk'[c], code, job)
<1> DEFINE said == IF job = 0 THEN NoBody ELSE Body(job)
<1>1. \A i \in DOMAIN jobs : jobs[i].status \in Statuses /\ jobs[i].error \in Errors
  <2>1. \A i \in DOMAIN jobs : jobs[i] \in JobRow
    BY DEF AdmissionTypeOK
  <2> QED
    BY <2>1 DEF JobRow
<1>2. said \in [status : Statuses \cup {"none"}, error : Errors]
  BY <1>1 DEF Body, NoBody, Statuses, Errors
<1>3. clerk[c] \in RequestRow
  BY DEF AdmissionTypeOK
<1>4. clerk' = [clerk EXCEPT ![c] = [@ EXCEPT !.step = "answered", !.code = code, !.job = job,
                                              !.body = said]]
  BY DEF Answer
<1> HIDE DEF said
<1>5. [clerk[c] EXCEPT !.step = "answered", !.code = code, !.job = job, !.body = said] \in RequestRow
  BY <1>2, <1>3 DEF RequestRow, ClerkSteps
<1>6. /\ clerk' \in [Clerks -> RequestRow \cup {Idle}]
      /\ clerk'[c] = [clerk[c] EXCEPT !.step = "answered", !.code = code, !.job = job, !.body = said]
      /\ \A d \in Clerks : d # c => clerk'[d] = clerk[d]
  BY <1>4, <1>5 DEF AdmissionTypeOK
<1>7. /\ clerk'[c].step = "answered" /\ clerk'[c].code = code /\ clerk'[c].job = job
      /\ clerk'[c].body = said
  BY <1>3, <1>6 DEF RequestRow
<1> QED
  BY <1>5, <1>6, <1>7, AdmissionAssumption DEF said, Says

(* What serving a request does: the clerk keeps what was asked for, and    *)
(* the table gains at most the row that was asked for.                     *)
Inserted(c) ==
  /\ clerk[c].step = "insert" /\ Storable(clerk[c])
  /\ jobs' = Append(jobs, NewJob(clerk[c]))
  /\ clerk'[c].step = "answered" /\ clerk'[c].code = 201 /\ clerk'[c].job = Len(jobs) + 1

KeepsRequest(c) ==
  /\ clerk' \in [Clerks -> RequestRow \cup {Idle}]
  /\ clerk'[c] # Idle
  /\ \A d \in Clerks : d # c => clerk'[d] = clerk[d]
  /\ clerk'[c].key = clerk[c].key /\ clerk'[c].printer = clerk[c].printer
  /\ clerk'[c].document = clerk[c].document
  /\ clerk[c].step # "count" => clerk'[c].idem = clerk[c].idem

LEMMA AnsweringServes ==
  ASSUME AdmissionTypeOK, NEW c \in Clerks, clerk[c] # Idle, NEW code \in Codes, NEW job \in Nat,
         Answer(c, code, job)
  PROVE  KeepsRequest(c)
<1>1. clerk[c] \in RequestRow
  BY DEF AdmissionTypeOK
<1>2. clerk'[c] = [clerk[c] EXCEPT !.step = "answered", !.code = code, !.job = job,
                                   !.body = clerk'[c].body]
  BY Answering
<1>3. /\ clerk'[c].key = clerk[c].key /\ clerk'[c].printer = clerk[c].printer
      /\ clerk'[c].document = clerk[c].document /\ clerk'[c].idem = clerk[c].idem
  BY <1>1, <1>2 DEF RequestRow
<1> QED
  BY <1>3, Answering DEF KeepsRequest

(* A step that only moves the request on.                                  *)
LEMMA MovingServes ==
  ASSUME AdmissionTypeOK, NEW c \in Clerks, clerk[c] # Idle, NEW step \in ClerkSteps, NEW job \in Nat,
         clerk' = [clerk EXCEPT ![c] = [@ EXCEPT !.step = step, !.job = job]]
  PROVE  KeepsRequest(c) /\ clerk'[c].step = step /\ clerk'[c].job = job
<1>1. clerk[c] \in RequestRow
  BY DEF AdmissionTypeOK
<1>2. [clerk[c] EXCEPT !.step = step, !.job = job] \in RequestRow
  BY <1>1 DEF RequestRow
<1> QED
  BY <1>1, <1>2, AdmissionAssumption DEF AdmissionTypeOK, KeepsRequest, RequestRow

LEMMA RowsAreFinite ==
  ASSUME jobs \in Seq(JobRow), NEW S, S \subseteq DOMAIN jobs
  PROVE  IsFiniteSet(S) /\ Cardinality(S) \in Nat
<1>1. DOMAIN jobs = 1 .. Len(jobs) /\ Len(jobs) \in Nat
  BY LenProperties
<1>2. IsFiniteSet(1 .. Len(jobs))
  BY <1>1, FS_Interval
<1> QED
  BY <1>1, <1>2, FS_Subset, FS_CardinalityType

LEMMA ServeEffects ==
  ASSUME AnswersInv, NEW c \in Clerks, Serve(c)
  PROVE  /\ clerk[c] # Idle /\ clerk[c].step # "answered"
         /\ KeepsRequest(c)
         /\ clerk[c].step = "count" => clerk'[c].step = "check" /\ clerk'[c].idem.kind = "gw-reprint"
         /\ UNCHANGED jobs \/ Inserted(c)
         /\ AnswerRight(c)'
         /\ UNCHANGED keyState
<1> DEFINE Goal == /\ clerk[c] # Idle /\ clerk[c].step # "answered"
                   /\ KeepsRequest(c)
                   /\ clerk[c].step = "count" => /\ clerk'[c].step = "check"
                                                 /\ clerk'[c].idem.kind = "gw-reprint"
                   /\ UNCHANGED jobs \/ Inserted(c)
                   /\ AnswerRight(c)'
                   /\ UNCHANGED keyState
<1> USE DEF AnswersInv
<1>1. DOMAIN jobs = 1 .. Len(jobs) /\ Len(jobs) \in Nat
  BY LenProperties DEF AdmissionTypeOK
<1>2. \A i \in DOMAIN jobs : jobs[i].status \in Statuses
  <2>1. \A i \in DOMAIN jobs : jobs[i] \in JobRow
    BY DEF AdmissionTypeOK
  <2> QED
    BY <2>1 DEF JobRow
(* Answering about a job in the table, or with a refusal.                  *)
<1>3. ASSUME NEW i \in DOMAIN jobs, clerk[c] # Idle, Answer(c, 200, i), UNCHANGED jobs
      PROVE  KeepsRequest(c) /\ AnswerRight(c)'
  <2>1. i \in Nat /\ i # 0 /\ 200 \in Codes
    BY <1>1 DEF Codes
  <2>2. clerk'[c].step = "answered" /\ clerk'[c].code = 200 /\ clerk'[c].job = i
        /\ clerk'[c].body = Body(i)
    <3>1. Says(clerk'[c], 200, i)
      BY <1>3, <2>1, Answering
    <3> QED
      BY <2>1, <3>1 DEF Says
  <2>3. clerk'[c].body.status \in Statuses
    BY <1>2, <2>2 DEF Body
  <2> QED
    BY <1>3, <2>1, <2>2, <2>3, AnsweringServes DEF AnswerRight
<1>4. ASSUME NEW code \in Codes \ {200, 201}, clerk[c] # Idle, Answer(c, code, 0)
      PROVE  KeepsRequest(c) /\ AnswerRight(c)'
  <2>1. clerk'[c].step = "answered" /\ clerk'[c].code = code
    BY <1>4, Answering DEF Says
  <2> QED
    BY <1>4, <2>1, AnsweringServes DEF AnswerRight
<1>5. \A request : Under(request.key, request.idem) \subseteq DOMAIN jobs
  BY DEF Under, Rows
<1>6. clerk[c] # Idle => clerk[c] \in RequestRow /\ clerk[c].job \in Nat
  BY DEF AdmissionTypeOK, RequestRow
<1>7. CASE ReprintCount(c)
  <2>1. clerk[c] # Idle /\ clerk[c].step = "count" /\ UNCHANGED <<jobs, keyState>>
    BY <1>7 DEF ReprintCount, KeepSurroundings
  <2>2. PICK n \in Nat : clerk' = [clerk EXCEPT ![c].step = "check", ![c].job = 0,
                                               ![c].idem = ReprintKey(clerk[c].job, n)]
    <3> DEFINE Reprints == {k \in Rows : jobs[k].idem.kind = "gw-reprint"
                                            /\ jobs[k].idem.of = clerk[c].job}
               Number == Cardinality(Reprints) + 1
    <3>1. Cardinality(Reprints) \in Nat
      BY RowsAreFinite DEF Rows, AdmissionTypeOK
    <3>2. clerk' = [clerk EXCEPT ![c].step = "check", ![c].job = 0,
                                 ![c].idem = ReprintKey(clerk[c].job, Number)]
      BY <1>7, Zenon DEF ReprintCount
    <3>3. Number \in Nat
      BY <3>1
    <3> HIDE DEF Number
    <3> QED
      BY <3>2, <3>3, Zenon
  <2>3. ReprintKey(clerk[c].job, n) \in IdemKey
    BY <1>6, <2>1 DEF ReprintKey, IdemKey
  <2>4. [clerk[c] EXCEPT !.step = "check", !.job = 0, !.idem = ReprintKey(clerk[c].job, n)] \in RequestRow
    BY <1>6, <2>1, <2>3 DEF RequestRow, ClerkSteps
  <2>5. KeepsRequest(c)
    BY <1>6, <2>1, <2>2, <2>4, AdmissionAssumption DEF AdmissionTypeOK, KeepsRequest, RequestRow
  <2>6. clerk'[c].step = "check" /\ clerk'[c].idem.kind = "gw-reprint"
    BY <1>6, <2>1, <2>2 DEF AdmissionTypeOK, RequestRow, ReprintKey
  <2> QED
    BY <2>1, <2>5, <2>6 DEF AnswerRight
<1>8. CASE Lookup(c)
  <2>1. clerk[c] # Idle /\ clerk[c].step = "lookup" /\ UNCHANGED <<jobs, keyState>>
    BY <1>8 DEF Lookup, KeepSurroundings
  <2>2. CASE clerk' = [clerk EXCEPT ![c].step = "check"]
    <3>1. clerk' = [clerk EXCEPT ![c] = [@ EXCEPT !.step = "check", !.job = clerk[c].job]]
      BY <1>6, <2>1, <2>2 DEF AdmissionTypeOK, RequestRow
    <3>2. KeepsRequest(c) /\ clerk'[c].step = "check"
      BY <1>6, <2>1, <3>1, MovingServes DEF ClerkSteps
    <3> QED
      BY <2>1, <3>2 DEF AnswerRight
  <2>3. CASE \E i \in DOMAIN jobs : Answer(c, 200, i)
    BY <1>3, <2>1, <2>3
  <2>4. CASE Answer(c, 409, 0)
    BY <1>4, <2>1, <2>4 DEF Codes
  <2> QED
    BY <1>5, <1>8, <2>2, <2>3, <2>4 DEF Lookup
<1>9. CASE Check(c)
  <2>1. clerk[c] # Idle /\ clerk[c].step = "check" /\ UNCHANGED <<jobs, keyState>>
    BY <1>9 DEF Check, KeepSurroundings
  <2>2. CASE clerk' = [clerk EXCEPT ![c].step = "admit"]
    <3>1. clerk' = [clerk EXCEPT ![c] = [@ EXCEPT !.step = "admit", !.job = clerk[c].job]]
      BY <1>6, <2>1, <2>2 DEF AdmissionTypeOK, RequestRow
    <3>2. KeepsRequest(c) /\ clerk'[c].step = "admit"
      BY <1>6, <2>1, <3>1, MovingServes DEF ClerkSteps
    <3> QED
      BY <2>1, <3>2 DEF AnswerRight
  <2>3. CASE Refusal(clerk[c]) # 0 /\ Answer(c, Refusal(clerk[c]), 0)
    <3>1. Refusal(clerk[c]) \in Codes \ {200, 201}
      BY DEF Refusal, Codes
    <3> QED
      BY <1>4, <2>1, <2>3, <3>1
  <2> QED
    BY <1>9, <2>2, <2>3 DEF Check
<1>10. CASE Admit(c)
  <2>1. clerk[c] # Idle /\ clerk[c].step = "admit" /\ UNCHANGED <<jobs, keyState>>
    BY <1>10 DEF Admit, KeepSurroundings
  <2>2. ASSUME NEW i \in DOMAIN jobs, NEW step \in {"reread", "conflict"},
               clerk' = [clerk EXCEPT ![c].step = step, ![c].job = i]
        PROVE  Goal
    <3>1. clerk' = [clerk EXCEPT ![c] = [@ EXCEPT !.step = step, !.job = i]]
      BY <2>2
    <3>2. KeepsRequest(c) /\ clerk'[c].step = step /\ clerk'[c].job = i
      <4>1. i \in Nat /\ step \in ClerkSteps
        BY <1>1 DEF ClerkSteps
      <4> QED
        BY <2>1, <3>1, <4>1, MovingServes
    <3> QED
      BY <2>1, <3>2 DEF AnswerRight
  <2>3. CASE Answer(c, 503, 0)
    BY <1>4, <2>1, <2>3 DEF Codes
  <2>4. CASE clerk' = [clerk EXCEPT ![c].step = "insert"]
    <3>1. clerk' = [clerk EXCEPT ![c] = [@ EXCEPT !.step = "insert", !.job = clerk[c].job]]
      BY <1>6, <2>1, <2>4 DEF AdmissionTypeOK, RequestRow
    <3>2. KeepsRequest(c) /\ clerk'[c].step = "insert"
      BY <1>6, <2>1, <3>1, MovingServes DEF ClerkSteps
    <3> QED
      BY <2>1, <3>2 DEF AnswerRight
  <2> QED
    BY <1>5, <1>10, <2>2, <2>3, <2>4 DEF Admit
<1>11. CASE Insert(c)
  <2>1. clerk[c] # Idle /\ clerk[c].step = "insert" /\ UNCHANGED keyState
    BY <1>11 DEF Insert, KeepSurroundings
  <2>2. CASE Storable(clerk[c]) /\ jobs' = Append(jobs, NewJob(clerk[c])) /\ Answer(c, 201, Len(jobs) + 1)
    <3>1. Len(jobs) + 1 \in Nat /\ Len(jobs) + 1 # 0 /\ 201 \in Codes
      BY <1>1 DEF Codes
    <3>2. clerk'[c].step = "answered" /\ clerk'[c].code = 201 /\ clerk'[c].job = Len(jobs) + 1
          /\ clerk'[c].body = Body(Len(jobs) + 1)
      <4>1. Says(clerk'[c], 201, Len(jobs) + 1)
        BY <2>1, <2>2, <3>1, Answering
      <4> QED
        BY <3>1, <4>1 DEF Says
    <3>3. clerk'[c].body.status = "queued"
      BY <1>1, <3>2 DEF Body
    <3>4. Len(jobs) + 1 \in DOMAIN jobs'
      BY <1>1, <2>2, AppendProperties DEF AdmissionTypeOK
    <3>5. AnswerRight(c)'
      BY <3>2, <3>3, <3>4 DEF AnswerRight, Statuses
    <3> QED
      BY <2>1, <2>2, <3>1, <3>2, <3>5, AnsweringServes DEF Inserted
  <2>3. CASE UNCHANGED jobs /\ Answer(c, 500, 0)
    BY <1>4, <2>1, <2>3 DEF Codes
  <2> QED
    BY <1>11, <2>2, <2>3 DEF Insert
<1>12. CASE RollBack(c)
  BY <1>4, <1>12 DEF RollBack, KeepSurroundings, Codes
<1>13. CASE Reread(c)
  <2>1. clerk[c] # Idle /\ clerk[c].step = "reread" /\ UNCHANGED <<jobs, keyState>>
    BY <1>13 DEF Reread, KeepSurroundings
  <2>2. clerk[c].job \in DOMAIN jobs
    BY <2>1 DEF AnswerRight
  <2> QED
    BY <1>3, <1>4, <1>13, <2>1, <2>2 DEF Reread, Codes
<1>14. CASE Conflict(c)
  <2>1. clerk[c] # Idle /\ clerk[c].step = "conflict" /\ UNCHANGED <<jobs, keyState>>
    BY <1>14 DEF Conflict, KeepSurroundings
  <2> QED
    BY <1>3, <1>4, <1>5, <1>14, <2>1 DEF Conflict, Codes
<1> QED
  BY <1>7, <1>8, <1>9, <1>10, <1>11, <1>12, <1>13, <1>14 DEF Serve

LEMMA AskedEffects ==
  ASSUME AnswersInv, NEW c \in Clerks, Asked(c)
  PROVE  /\ clerk[c] = Idle /\ clerk'[c] # Idle
         /\ clerk' \in [Clerks -> RequestRow \cup {Idle}]
         /\ \A d \in Clerks : d # c => clerk'[d] = clerk[d]
         /\ clerk'[c].step \in {"answered", "lookup", "check", "count"}
         /\ AnswerRight(c)'
         /\ UNCHANGED <<jobs, lock, told, keyState>>
<1> DEFINE Starts(request) ==
      /\ request.step \in {"answered", "lookup", "check", "count"}
      /\ request.step = "answered" => request.code \notin {200, 201}
      /\ request.step = "count" => request.idem = NoIdem
<1>1. ASSUME NEW request \in RequestRow, Starts(request),
             clerk[c] = Idle, clerk' = [clerk EXCEPT ![c] = request],
             UNCHANGED <<jobs, lock, told, keyState>>
      PROVE  /\ clerk[c] = Idle /\ clerk'[c] # Idle
             /\ clerk' \in [Clerks -> RequestRow \cup {Idle}]
             /\ \A d \in Clerks : d # c => clerk'[d] = clerk[d]
             /\ clerk'[c].step \in {"answered", "lookup", "check", "count"}
             /\ AnswerRight(c)'
             /\ UNCHANGED <<jobs, lock, told, keyState>>
  BY <1>1, AdmissionAssumption DEF AnswersInv, AdmissionTypeOK, AnswerRight
<1>2. NoIdem \in IdemKey
  BY DEF NoIdem, IdemKey
<1>3. ASSUME NEW step \in ClerkSteps, NEW key \in Keys \cup {NoKey}, NEW idem \in IdemKey,
             NEW p \in Printers, NEW document \in Documents
      PROVE  Request(step, key, idem, p, document) \in RequestRow
  BY DEF Request, RequestRow, Codes, NoBody, Errors
<1>4. ASSUME NEW key \in Keys, NEW idem \in IdemKey, NEW p \in Printers, NEW document \in Documents,
             Receive(c, key, idem, p, document)
      PROVE  \E request \in RequestRow : Starts(request) /\ clerk' = [clerk EXCEPT ![c] = request]
  <2>1. Request("lookup", key, idem, p, document) \in RequestRow
    BY <1>3 DEF ClerkSteps
  <2> DEFINE request == Request("lookup", key, idem, p, document)
             code == IF ~ValidOdooKey(key) THEN 401
                     ELSE IF ~KeyWrites(key, document) THEN 403
                     ELSE IF ~ValidPayload(Languages[document]) THEN 400 ELSE 0
             first == IF code # 0 THEN [request EXCEPT !.step = "answered", !.code = code]
                      ELSE IF idem = NoIdem THEN [request EXCEPT !.step = "check"] ELSE request
  <2>2. clerk' = [clerk EXCEPT ![c] = first]
    BY <1>4 DEF Receive
  <2>3. code \in Codes /\ code \notin {200, 201}
    BY DEF Codes
  <2> HIDE DEF code
  <2>4. request.step = "lookup"
    BY DEF Request
  <2> HIDE DEF request
  <2>5. first \in RequestRow /\ Starts(first)
    BY <2>1, <2>3, <2>4 DEF RequestRow, ClerkSteps, request
  <2> HIDE DEF first
  <2> QED
    BY <2>2, <2>5
<1>5. ASSUME NEW p \in Printers, NEW document \in Documents, ManagerPrints(c, p, document)
      PROVE  \E request \in RequestRow : Starts(request) /\ clerk' = [clerk EXCEPT ![c] = request]
  <2>1. Request("check", NoKey, NoIdem, p, document) \in RequestRow
    BY <1>2, <1>3 DEF ClerkSteps
  <2> QED
    BY <1>5, <2>1 DEF ManagerPrints, Request
<1>6. ASSUME NEW i \in 1..MaxJobs, ReprintRead(c, i)
      PROVE  \E request \in RequestRow : Starts(request) /\ clerk' = [clerk EXCEPT ![c] = request]
  <2>1. i \in Nat /\ jobs[i].printer \in Printers /\ jobs[i].document \in Documents
    <3>1. i \in DOMAIN jobs /\ jobs[i] \in JobRow
      BY <1>6 DEF ReprintRead, Exists, AnswersInv, AdmissionTypeOK
    <3> QED
      BY <3>1 DEF JobRow
  <2>2. Request("count", NoKey, NoIdem, jobs[i].printer, jobs[i].document) \in RequestRow
    BY <1>2, <1>3, <2>1 DEF ClerkSteps
  <2>3. [Request("count", NoKey, NoIdem, jobs[i].printer, jobs[i].document) EXCEPT !.job = i] \in RequestRow
    BY <2>1, <2>2 DEF RequestRow
  <2> QED
    BY <1>6, <2>2, <2>3 DEF ReprintRead, Request
<1>7. clerk[c] = Idle /\ UNCHANGED <<jobs, lock, told, keyState>>
  BY DEF Asked, Receive, ManagerPrints, ReprintRead, KeepSurroundings
<1>8. PICK request \in RequestRow : Starts(request) /\ clerk' = [clerk EXCEPT ![c] = request]
  BY <1>4, <1>5, <1>6 DEF Asked
<1> HIDE DEF Starts
<1> QED
  BY <1>1, <1>7, <1>8

LEMMA CloseEffects ==
  ASSUME AdmissionTypeOK, NEW c \in Clerks, Close(c)
  PROVE  /\ clerk[c] # Idle /\ clerk[c].step = "answered" /\ clerk'[c] = Idle
         /\ clerk' \in [Clerks -> RequestRow \cup {Idle}]
         /\ \A d \in Clerks : d # c => clerk'[d] = clerk[d]
         /\ UNCHANGED <<jobs, lock, told, keyState>>
BY DEF AdmissionTypeOK, Close, KeepSurroundings

(* What serving does to the tenant's lock.                                 *)
LEMMA LockEffects ==
  ASSUME AnswersInv, NEW c \in Clerks, Serve(c)
  PROVE  \/ /\ lock = NoClerk /\ lock' = c /\ clerk'[c].step = "insert"
            /\ HasRoom(OwnerOf[clerk[c].printer]) /\ UNCHANGED jobs
         \/ /\ clerk[c].step = "insert" /\ clerk'[c].step = "answered"
            /\ lock' = IF lock = c THEN NoClerk ELSE lock
         \/ /\ clerk[c].step # "insert" /\ clerk'[c].step # "insert"
            /\ UNCHANGED <<lock, jobs>>
<1>1. clerk[c] # Idle /\ clerk[c] \in RequestRow
  BY ServeEffects DEF AnswersInv, AdmissionTypeOK
<1>2. ASSUME NEW code \in Codes, NEW job \in Nat, Answer(c, code, job)
      PROVE  clerk'[c].step = "answered"
  BY <1>1, <1>2, Answering DEF AnswersInv, Says
<1>3. \A i \in DOMAIN jobs : i \in Nat
  BY LenProperties DEF AnswersInv, AdmissionTypeOK
<1>4. \A request : Under(request.key, request.idem) \subseteq DOMAIN jobs
  BY DEF Under, Rows
<1>5. ASSUME NEW step, clerk' = [clerk EXCEPT ![c].step = step]
      PROVE  clerk'[c].step = step
  BY <1>1, <1>5 DEF AnswersInv, AdmissionTypeOK, RequestRow
<1>6. ASSUME NEW step, NEW job, clerk' = [clerk EXCEPT ![c].step = step, ![c].job = job]
      PROVE  clerk'[c].step = step
  BY <1>1, <1>6 DEF AnswersInv, AdmissionTypeOK, RequestRow
<1>7. {0, 200, 201, 409, 500, 503} \subseteq Codes /\ 0 \in Nat
  BY DEF Codes
<1>8. CASE ReprintCount(c)
  <2>1. clerk[c].step = "count" /\ UNCHANGED <<lock, jobs>>
    BY <1>8 DEF ReprintCount
  <2> QED
    BY <2>1, ServeEffects
<1>9. CASE Lookup(c)
  <2>1. clerk[c].step = "lookup" /\ UNCHANGED <<lock, jobs>>
    BY <1>9 DEF Lookup
  <2>2. clerk'[c].step \in {"check", "answered"}
    BY <1>2, <1>3, <1>4, <1>5, <1>7, <1>9 DEF Lookup
  <2> QED
    BY <2>1, <2>2
<1>10. CASE Check(c)
  <2>1. clerk[c].step = "check" /\ UNCHANGED <<lock, jobs>>
    BY <1>10 DEF Check
  <2>2. Refusal(clerk[c]) \in Codes
    BY DEF Refusal, Codes
  <2>3. clerk'[c].step \in {"admit", "answered"}
    BY <1>2, <1>5, <1>7, <1>10, <2>2 DEF Check
  <2> QED
    BY <2>1, <2>3
<1>11. CASE Admit(c)
  <2>1. clerk[c].step = "admit" /\ lock = NoClerk /\ UNCHANGED jobs
    BY <1>11 DEF Admit
  <2>2. \/ clerk'[c].step \in {"reread", "conflict", "answered"} /\ UNCHANGED lock
        \/ HasRoom(OwnerOf[clerk[c].printer]) /\ clerk'[c].step = "insert" /\ lock' = c
    <3>1. CASE \E i \in DOMAIN jobs, step \in {"reread", "conflict"} :
                 clerk' = [clerk EXCEPT ![c].step = step, ![c].job = i] /\ UNCHANGED lock
      BY <1>6, <3>1
    <3>2. CASE Answer(c, 503, 0) /\ UNCHANGED lock
      BY <1>2, <1>7, <3>2
    <3>3. CASE HasRoom(OwnerOf[clerk[c].printer]) /\ lock' = c
               /\ clerk' = [clerk EXCEPT ![c].step = "insert"]
      BY <1>5, <3>3
    <3> QED
      BY <1>4, <1>11, <3>1, <3>2, <3>3 DEF Admit
  <2> QED
    BY <2>1, <2>2
<1>12. CASE Insert(c)
  <2>1. Len(jobs) + 1 \in Nat
    BY LenProperties DEF AnswersInv, AdmissionTypeOK
  <2> QED
    BY <1>2, <1>7, <1>12, <2>1 DEF Insert
<1>13. CASE RollBack(c)
  BY <1>2, <1>7, <1>13 DEF RollBack
<1>14. CASE Reread(c)
  <2>1. clerk[c].step = "reread" /\ UNCHANGED <<lock, jobs>> /\ clerk[c].job \in Nat
    BY <1>1, <1>14 DEF Reread, RequestRow
  <2>2. clerk'[c].step = "answered"
    BY <1>2, <1>7, <1>14, <2>1 DEF Reread
  <2> QED
    BY <2>1, <2>2
<1>15. CASE Conflict(c)
  <2>1. clerk[c].step = "conflict" /\ UNCHANGED <<lock, jobs>>
    BY <1>15 DEF Conflict
  <2>2. clerk'[c].step = "answered"
    BY <1>2, <1>3, <1>4, <1>7, <1>15 DEF Conflict
  <2> QED
    BY <2>1, <2>2
<1> QED
  BY <1>8, <1>9, <1>10, <1>11, <1>12, <1>13, <1>14, <1>15 DEF Serve

LEMMA NewJobTyped ==
  ASSUME NEW request \in RequestRow
  PROVE  NewJob(request) \in JobRow
BY DEF RequestRow, NewJob, JobRow, Statuses, Errors

(* Every row stays, and at most one is added.                              *)
RowsKept == \A i \in DOMAIN jobs : i \in DOMAIN jobs' /\ Faded(jobs'[i], jobs[i])

LEMMA InsertedRow ==
  ASSUME AdmissionTypeOK, NEW c \in Clerks, clerk[c] # Idle, Inserted(c)
  PROVE  /\ jobs' \in Seq(JobRow) /\ Len(jobs') = Len(jobs) + 1
         /\ DOMAIN jobs' = DOMAIN jobs \cup {Len(jobs) + 1} /\ Len(jobs) + 1 \notin DOMAIN jobs
         /\ jobs'[Len(jobs) + 1] = NewJob(clerk[c])
         /\ \A i \in DOMAIN jobs : jobs'[i] = jobs[i] /\ i < Len(jobs) + 1
<1>1. NewJob(clerk[c]) \in JobRow
  BY NewJobTyped DEF AdmissionTypeOK
<1>2. /\ jobs' \in Seq(JobRow) /\ Len(jobs') = Len(jobs) + 1
      /\ jobs'[Len(jobs) + 1] = NewJob(clerk[c])
      /\ \A i \in 1 .. Len(jobs) : jobs'[i] = jobs[i]
  BY <1>1, AppendProperties DEF Inserted, AdmissionTypeOK
<1>3. DOMAIN jobs = 1 .. Len(jobs) /\ DOMAIN jobs' = 1 .. Len(jobs') /\ Len(jobs) \in Nat
  BY <1>2, LenProperties DEF AdmissionTypeOK
<1> QED
  BY <1>2, <1>3

LEMMA FadedItself == \A job : Faded(job, job)
BY DEF Faded

LEMMA RowsAreKept ==
  ASSUME AnswersInv, AdmissionNext
  PROVE  RowsKept
<1>1. CASE RowsChange
  BY <1>1, RowsFade DEF RowsKept, AnswersInv, AdmissionTypeOK
<1>2. CASE UNCHANGED jobs
  BY <1>2, FadedItself DEF RowsKept
<1>3. ASSUME NEW c \in Clerks, Inserted(c), clerk[c] # Idle PROVE RowsKept
  BY <1>3, InsertedRow, FadedItself DEF RowsKept, AnswersInv
<1>4. SettingsChange => UNCHANGED jobs
  BY DEF SettingsChange, PresenceChanges, RateWindowPasses, CreateKey, RevokeKey, RemoveKey, RotateKey,
    KeepAllButKeys
<1>5. ASSUME NEW c \in Clerks, Serve(c) PROVE RowsKept
  BY <1>2, <1>3, <1>5, ServeEffects
<1> QED
  BY <1>1, <1>2, <1>4, <1>5, AskedEffects, CloseEffects DEF AdmissionNext, AnswersInv

LEMMA AnswersStep == AnswersInv /\ (AdmissionNext \/ UNCHANGED admissionVars) => AnswersInv'
<1> SUFFICES ASSUME AnswersInv, AdmissionNext PROVE AnswersInv'
  BY DEF AnswersInv, admissionVars, AdmissionTypeOK, AnswerRight
<1>1. \A i \in DOMAIN jobs : i \in DOMAIN jobs'
  BY RowsAreKept DEF RowsKept
<1>2. ASSUME NEW d \in Clerks, clerk'[d] = clerk[d] \/ clerk'[d] = Idle PROVE AnswerRight(d)'
  BY <1>1, <1>2 DEF AnswersInv, AnswerRight
<1> USE DEF AnswersInv
<1>3. CASE RowsChange
  <2>1. AdmissionTypeOK'
    BY <1>3, RowsFade DEF AdmissionTypeOK
  <2> QED
    BY <1>2, <1>3, <2>1, RowsFade DEF AdmissionTypeOK
<1>4. CASE SettingsChange
  <2>1. UNCHANGED <<jobs, lock, clerk>>
    BY <1>4 DEF SettingsChange, PresenceChanges, RateWindowPasses, CreateKey, RevokeKey, RemoveKey,
      RotateKey, KeepAllButKeys, KeepRequests, KeepSurroundings
  <2>2. keyState' \in [Keys -> {"unborn", "active", "revoked", "removed"}]
    BY <1>4 DEF AdmissionTypeOK, SettingsChange, PresenceChanges, RateWindowPasses, CreateKey, RevokeKey,
      RemoveKey, RotateKey, KeepSurroundings
  <2>3. AdmissionTypeOK'
    BY <2>1, <2>2 DEF AdmissionTypeOK
  <2> QED
    BY <1>2, <2>1, <2>3
<1>5. ASSUME NEW c \in Clerks, Asked(c) PROVE AnswersInv'
  <2>1. AdmissionTypeOK'
    BY <1>5, AskedEffects DEF AdmissionTypeOK
  <2> QED
    BY <1>2, <1>5, <2>1, AskedEffects
<1>6. ASSUME NEW c \in Clerks, Close(c) PROVE AnswersInv'
  <2>1. AdmissionTypeOK'
    BY <1>6, CloseEffects DEF AdmissionTypeOK
  <2> QED
    BY <1>2, <1>6, <2>1, CloseEffects
<1>7. ASSUME NEW c \in Clerks, Serve(c) PROVE AnswersInv'
  <2>1. clerk' \in [Clerks -> RequestRow \cup {Idle}] /\ clerk[c] # Idle /\ UNCHANGED keyState
    BY <1>7, ServeEffects DEF KeepsRequest
  <2>2. jobs' \in Seq(JobRow)
    BY <1>7, <2>1, ServeEffects, InsertedRow DEF AdmissionTypeOK
  <2>3. lock' \in Clerks \cup {NoClerk}
    BY <1>7, LockEffects DEF AdmissionTypeOK
  <2>4. AdmissionTypeOK'
    BY <2>1, <2>2, <2>3 DEF AdmissionTypeOK
  <2>5. AnswerRight(c)' /\ \A d \in Clerks : d # c => clerk'[d] = clerk[d]
    BY <1>7, ServeEffects DEF KeepsRequest
  <2> QED
    BY <1>2, <2>4, <2>5
<1> QED
  BY <1>3, <1>4, <1>5, <1>6, <1>7 DEF AdmissionNext

-----------------------------------------------------------------------------
(* Idempotency keys.  At most one row of a key is not deleted, and what a  *)
(* request was told, or is about to be told, is such a row or was one.     *)

Stands(i, request) ==
  /\ i \in DOMAIN jobs /\ request.idem # NoIdem
  /\ jobs[i].key = request.key /\ jobs[i].idem = request.idem
  /\ jobs[i].printer = request.printer /\ jobs[i].document = request.document

KeysInv ==
  /\ \A i, k \in DOMAIN jobs :
       i < k /\ jobs[i].key = jobs[k].key /\ jobs[i].idem = jobs[k].idem /\ jobs[i].idem # NoIdem
         => jobs[i].deleted
  /\ \A t \in told : Stands(t.job, t)
  /\ \A c \in Clerks : clerk[c] # Idle /\ clerk[c].step = "reread" => Stands(clerk[c].job, clerk[c])

(* Only what matches is told, and only what matches is read again.         *)
LEMMA TellEffects ==
  ASSUME AnswersInv, KeysInv, NEW c \in Clerks, Serve(c)
  PROVE  /\ \/ UNCHANGED told
            \/ \E job : told' = told \cup {[key |-> clerk[c].key, idem |-> clerk[c].idem, job |-> job,
                                            printer |-> clerk[c].printer, document |-> clerk[c].document]}
                        /\ clerk[c].idem # NoIdem /\ Stands(job, clerk[c])'
         /\ clerk'[c].step = "reread" => Stands(clerk[c].job, clerk[c])'
<1> USE DEF AnswersInv
<1>1. /\ clerk[c] # Idle /\ clerk[c] \in RequestRow
      /\ clerk'[c] # Idle /\ clerk'[c] \in RequestRow
      /\ clerk[c].step # "count" => clerk'[c].idem = clerk[c].idem
      /\ clerk'[c].key = clerk[c].key /\ clerk'[c].printer = clerk[c].printer
      /\ clerk'[c].document = clerk[c].document
  BY ServeEffects DEF KeepsRequest, AdmissionTypeOK
<1>2. ASSUME NEW code \in Codes, NEW job \in Nat, Answer(c, code, job)
      PROVE  clerk'[c].step = "answered"
  BY <1>1, <1>2, Answering DEF Says
<1>3. \A i \in DOMAIN jobs : i \in Nat
  BY LenProperties DEF AdmissionTypeOK
<1>4. ASSUME NEW i \in Under(clerk[c].key, clerk[c].idem), Matches(i, clerk[c]), clerk[c].idem # NoIdem
      PROVE  i \in DOMAIN jobs /\ Stands(i, clerk[c])
  BY <1>4 DEF Under, Rows, Matches, Fingerprint, Stands
<1>5. ASSUME NEW job, Tell(c, job), clerk[c].step # "count",
             clerk[c].idem # NoIdem => \/ Stands(job, clerk[c]) /\ UNCHANGED jobs
                                       \/ Inserted(c) /\ job = Len(jobs) + 1
      PROVE  \/ UNCHANGED told
             \/ \E j : told' = told \cup {[key |-> clerk[c].key, idem |-> clerk[c].idem, job |-> j,
                                           printer |-> clerk[c].printer, document |-> clerk[c].document]}
                       /\ clerk[c].idem # NoIdem /\ Stands(j, clerk[c])'
  <2>1. CASE clerk[c].idem = NoIdem
    BY <1>5, <2>1 DEF Tell
  <2>2. CASE clerk[c].idem # NoIdem
    <3>1. Stands(job, clerk[c]) /\ UNCHANGED jobs => Stands(job, clerk[c])'
      BY <1>1, <1>5, <2>2 DEF Stands
    <3>2. Inserted(c) /\ job = Len(jobs) + 1 => Stands(job, clerk[c])'
      <4> SUFFICES ASSUME Inserted(c), job = Len(jobs) + 1 PROVE Stands(job, clerk[c])'
        OBVIOUS
      <4>1. job \in DOMAIN jobs' /\ jobs'[job] = NewJob(clerk[c])
        BY <1>1, InsertedRow
      <4> QED
        BY <1>1, <1>5, <2>2, <4>1 DEF Stands, NewJob
    <3> QED
      BY <1>5, <2>2, <3>1, <3>2 DEF Tell
  <2> QED
    BY <2>1, <2>2
<1>6. {0, 200, 201, 409, 500, 503} \subseteq Codes /\ 0 \in Nat
  BY DEF Codes
<1>7. \A request : Under(request.key, request.idem) \subseteq DOMAIN jobs
  BY DEF Under, Rows
<1>8. CASE ReprintCount(c)
  <2>1. clerk[c].step = "count" /\ UNCHANGED told
    BY <1>8 DEF ReprintCount
  <2> QED
    BY <2>1, ServeEffects
<1>9. CASE Lookup(c)
  <2>1. clerk[c].step = "lookup" /\ UNCHANGED jobs
    BY <1>9 DEF Lookup
  <2>2. CASE clerk' = [clerk EXCEPT ![c].step = "check"] /\ UNCHANGED told
    <3>1. clerk'[c].step = "check"
      BY <1>1, <2>2 DEF AdmissionTypeOK, RequestRow
    <3> QED
      BY <2>2, <3>1
  <2>3. CASE \E i \in Under(clerk[c].key, clerk[c].idem) :
               Matches(i, clerk[c]) /\ Answer(c, 200, i) /\ Tell(c, i)
    <3>1. PICK i \in Under(clerk[c].key, clerk[c].idem) :
                 Matches(i, clerk[c]) /\ Answer(c, 200, i) /\ Tell(c, i)
      BY <2>3
    <3>2. clerk'[c].step = "answered"
      BY <1>2, <1>3, <1>6, <1>7, <3>1
    <3>3. clerk[c].idem # NoIdem => Stands(i, clerk[c])
      BY <1>4, <3>1
    <3> QED
      BY <1>5, <2>1, <3>1, <3>2, <3>3
  <2>4. CASE Answer(c, 409, 0) /\ UNCHANGED told
    BY <1>2, <1>6, <2>4
  <2> QED
    BY <1>9, <2>2, <2>3, <2>4 DEF Lookup
<1>10. CASE Check(c)
  <2>1. UNCHANGED told
    BY <1>10 DEF Check
  <2>2. CASE clerk' = [clerk EXCEPT ![c].step = "admit"]
    <3>1. clerk'[c].step = "admit"
      BY <1>1, <2>2 DEF AdmissionTypeOK, RequestRow
    <3> QED
      BY <2>1, <3>1
  <2>3. CASE Answer(c, Refusal(clerk[c]), 0)
    <3>1. Refusal(clerk[c]) \in Codes
      BY DEF Refusal, Codes
    <3> QED
      BY <1>2, <1>6, <2>1, <2>3, <3>1
  <2> QED
    BY <1>10, <2>2, <2>3 DEF Check
<1>11. CASE Admit(c)
  <2>1. UNCHANGED <<told, jobs>> /\ clerk[c].step = "admit"
    BY <1>11 DEF Admit
  <2>2. ASSUME NEW i \in DOMAIN jobs, NEW step,
               clerk' = [clerk EXCEPT ![c].step = step, ![c].job = i]
        PROVE  clerk'[c].step = step /\ clerk'[c].job = i
    BY <1>1, <2>2 DEF AdmissionTypeOK, RequestRow
  <2>3. CASE \E i \in IF clerk[c].idem = NoIdem THEN {} ELSE Under(clerk[c].key, clerk[c].idem) :
               clerk' = [clerk EXCEPT ![c].step = IF Matches(i, clerk[c]) THEN "reread" ELSE "conflict",
                                      ![c].job = i]
    <3>1. PICK i \in Under(clerk[c].key, clerk[c].idem) :
            /\ clerk[c].idem # NoIdem
            /\ clerk' = [clerk EXCEPT ![c].step = IF Matches(i, clerk[c]) THEN "reread" ELSE "conflict",
                                      ![c].job = i]
      BY <2>3
    <3>2. clerk'[c].step = (IF Matches(i, clerk[c]) THEN "reread" ELSE "conflict") /\ clerk'[c].job = i
      BY <1>7, <2>2, <3>1
    <3>3. clerk'[c].step = "reread" => Stands(i, clerk[c])
      BY <1>4, <3>1, <3>2
    <3>4. clerk'[c].step = "reread" => Stands(clerk[c].job, clerk[c])'
      BY <1>1, <2>1, <3>2, <3>3 DEF Stands
    <3> QED
      BY <2>1, <3>4
  <2>4. CASE Answer(c, 503, 0)
    BY <1>2, <1>6, <2>1, <2>4
  <2>5. CASE clerk' = [clerk EXCEPT ![c].step = "insert"]
    <3>1. clerk'[c].step = "insert"
      BY <1>1, <2>5 DEF AdmissionTypeOK, RequestRow
    <3> QED
      BY <2>1, <3>1
  <2> QED
    BY <1>11, <2>3, <2>4, <2>5 DEF Admit
<1>12. CASE Insert(c)
  <2>1. clerk[c].step = "insert" /\ Len(jobs) + 1 \in Nat
    BY <1>12, LenProperties DEF Insert, AdmissionTypeOK
  <2>2. clerk'[c].step = "answered"
    BY <1>2, <1>6, <1>12, <2>1 DEF Insert
  <2>3. CASE Tell(c, Len(jobs) + 1) /\ Storable(clerk[c]) /\ Answer(c, 201, Len(jobs) + 1)
             /\ jobs' = Append(jobs, NewJob(clerk[c]))
    <3>1. Says(clerk'[c], 201, Len(jobs) + 1)
      BY <1>1, <1>6, <2>1, <2>3, Answering
    <3>2. Inserted(c)
      BY <2>1, <2>3, <3>1 DEF Inserted, Says
    <3> QED
      BY <1>5, <2>1, <2>2, <2>3, <3>2
  <2> QED
    BY <1>12, <2>2, <2>3 DEF Insert
<1>13. CASE RollBack(c)
  BY <1>2, <1>6, <1>13 DEF RollBack
<1>14. CASE Reread(c)
  <2>1. clerk[c].step = "reread" /\ UNCHANGED jobs /\ Stands(clerk[c].job, clerk[c]) /\ clerk[c].job \in Nat
    BY <1>1, <1>14 DEF Reread, KeysInv, RequestRow
  <2>2. clerk'[c].step = "answered"
    BY <1>2, <1>6, <1>14, <2>1 DEF Reread
  <2>3. UNCHANGED told \/ Tell(c, clerk[c].job)
    BY <1>14 DEF Reread
  <2> QED
    BY <1>5, <2>1, <2>2, <2>3
<1>15. CASE Conflict(c)
  <2>1. clerk[c].step = "conflict" /\ UNCHANGED jobs
    BY <1>15 DEF Conflict
  <2>2. CASE \E i \in Under(clerk[c].key, clerk[c].idem) :
               Matches(i, clerk[c]) /\ Answer(c, 200, i) /\ Tell(c, i)
    <3>1. PICK i \in Under(clerk[c].key, clerk[c].idem) :
                 Matches(i, clerk[c]) /\ Answer(c, 200, i) /\ Tell(c, i)
      BY <2>2
    <3>2. clerk'[c].step = "answered"
      BY <1>2, <1>3, <1>6, <1>7, <3>1
    <3>3. clerk[c].idem # NoIdem => Stands(i, clerk[c])
      BY <1>4, <3>1
    <3> QED
      BY <1>5, <2>1, <3>1, <3>2, <3>3
  <2>3. CASE Answer(c, 409, 0) /\ UNCHANGED told
    BY <1>2, <1>6, <2>3
  <2> QED
    BY <1>15, <2>2, <2>3 DEF Conflict
<1> QED
  BY <1>8, <1>9, <1>10, <1>11, <1>12, <1>13, <1>14, <1>15 DEF Serve

LEMMA KeysStep == AnswersInv /\ KeysInv /\ (AdmissionNext \/ UNCHANGED admissionVars) => KeysInv'
<1> SUFFICES ASSUME AnswersInv, KeysInv, AdmissionNext PROVE KeysInv'
  BY DEF KeysInv, Stands, admissionVars
<1>1. RowsKept
  BY RowsAreKept
<1>2. ASSUME NEW i, NEW request, Stands(i, request)
      PROVE  /\ i \in DOMAIN jobs' /\ request.idem # NoIdem
             /\ jobs'[i].key = request.key /\ jobs'[i].idem = request.idem
             /\ jobs'[i].printer = request.printer /\ jobs'[i].document = request.document
  BY <1>1, <1>2 DEF Stands, RowsKept, Faded
<1>3. DOMAIN jobs = 1 .. Len(jobs) /\ Len(jobs) \in Nat
  BY LenProperties DEF AnswersInv, AdmissionTypeOK
<1>4. ASSUME DOMAIN jobs' = DOMAIN jobs
      PROVE  \A i, k \in DOMAIN jobs' :
               i < k /\ jobs'[i].key = jobs'[k].key /\ jobs'[i].idem = jobs'[k].idem
                     /\ jobs'[i].idem # NoIdem => jobs'[i].deleted
  <2>1. ASSUME NEW i \in DOMAIN jobs', NEW k \in DOMAIN jobs', i < k, jobs'[i].key = jobs'[k].key,
               jobs'[i].idem = jobs'[k].idem, jobs'[i].idem # NoIdem
        PROVE  jobs'[i].deleted
    BY <1>1, <1>4, <2>1 DEF RowsKept, Faded, KeysInv
  <2> QED
    BY <2>1
<1>5. ASSUME NEW c \in Clerks, clerk[c] # Idle, Inserted(c)
      PROVE  \A i, k \in DOMAIN jobs' :
               i < k /\ jobs'[i].key = jobs'[k].key /\ jobs'[i].idem = jobs'[k].idem
                     /\ jobs'[i].idem # NoIdem => jobs'[i].deleted
  <2> DEFINE new == Len(jobs) + 1
  <2>1. /\ DOMAIN jobs' = DOMAIN jobs \cup {new} /\ jobs'[new] = NewJob(clerk[c])
        /\ \A i \in DOMAIN jobs : jobs'[i] = jobs[i] /\ i < new
    BY <1>5, InsertedRow DEF AnswersInv
  <2>2. ASSUME NEW i \in DOMAIN jobs, jobs[i].key = clerk[c].key, jobs[i].idem = clerk[c].idem,
               clerk[c].idem # NoIdem
        PROVE  jobs[i].deleted
    BY <1>5, <2>2 DEF Inserted, Storable, Under, Rows
  <2>3. jobs'[new].key = clerk[c].key /\ jobs'[new].idem = clerk[c].idem /\ new \in Nat
    BY <1>3, <2>1 DEF NewJob
  <2> HIDE DEF new
  <2> SUFFICES ASSUME NEW i \in DOMAIN jobs', NEW k \in DOMAIN jobs', i < k, jobs'[i].key = jobs'[k].key,
                      jobs'[i].idem = jobs'[k].idem, jobs'[i].idem # NoIdem
               PROVE  jobs'[i].deleted
    OBVIOUS
  <2>4. i \in DOMAIN jobs
    BY <1>3, <2>1, <2>3
  <2>5. CASE k \in DOMAIN jobs
    BY <2>1, <2>4, <2>5 DEF KeysInv
  <2>6. CASE k = new
    BY <2>1, <2>2, <2>3, <2>4, <2>6
  <2> QED
    BY <2>1, <2>5, <2>6
<1>6. \A i, k \in DOMAIN jobs' :
        i < k /\ jobs'[i].key = jobs'[k].key /\ jobs'[i].idem = jobs'[k].idem
              /\ jobs'[i].idem # NoIdem => jobs'[i].deleted
  <2>1. CASE RowsChange
    BY <1>4, <2>1, RowsFade DEF AnswersInv, AdmissionTypeOK
  <2>2. SettingsChange => UNCHANGED jobs
    BY DEF SettingsChange, PresenceChanges, RateWindowPasses, CreateKey, RevokeKey, RemoveKey, RotateKey,
      KeepAllButKeys
  <2>3. ASSUME NEW c \in Clerks, Serve(c) PROVE UNCHANGED jobs \/ (Inserted(c) /\ clerk[c] # Idle)
    BY <2>3, ServeEffects
  <2> QED
    BY <1>4, <1>5, <2>1, <2>2, <2>3, AskedEffects, CloseEffects DEF AdmissionNext, AnswersInv
<1>7. ASSUME NEW d \in Clerks, clerk'[d] = clerk[d], clerk'[d] # Idle, clerk'[d].step = "reread"
      PROVE  Stands(clerk[d].job, clerk[d])'
  BY <1>2, <1>7 DEF KeysInv, Stands
<1>8. CASE RowsChange \/ SettingsChange
  <2>1. UNCHANGED <<told, clerk>>
    BY <1>8, RowsFade DEF SettingsChange, PresenceChanges, RateWindowPasses, CreateKey, RevokeKey,
      RemoveKey, RotateKey, KeepAllButKeys, KeepRequests, AnswersInv, AdmissionTypeOK
  <2>2. \A t \in told' : Stands(t.job, t)'
    BY <1>2, <2>1 DEF KeysInv, Stands
  <2> QED
    BY <1>6, <1>7, <2>1, <2>2 DEF KeysInv
<1>9. ASSUME NEW c \in Clerks, Asked(c) \/ Close(c) PROVE KeysInv'
  <2>1. UNCHANGED told /\ \A d \in Clerks : d # c => clerk'[d] = clerk[d]
    BY <1>9, AskedEffects, CloseEffects DEF AnswersInv
  <2>2. clerk'[c] = Idle \/ clerk'[c].step # "reread"
    BY <1>9, AskedEffects, CloseEffects DEF AnswersInv
  <2>3. \A t \in told' : Stands(t.job, t)'
    BY <1>2, <2>1 DEF KeysInv, Stands
  <2> QED
    BY <1>6, <1>7, <2>1, <2>2, <2>3 DEF KeysInv
<1>10. ASSUME NEW c \in Clerks, Serve(c) PROVE KeysInv'
  <2>1. \A d \in Clerks : d # c => clerk'[d] = clerk[d]
    BY <1>10, ServeEffects DEF KeepsRequest
  <2>2. clerk'[c].step = "reread" => Stands(clerk[c].job, clerk[c])'
    BY <1>10, TellEffects
  <2>3. \A t \in told : Stands(t.job, t)'
    BY <1>2 DEF KeysInv, Stands
  <2>4. \A t \in told' : Stands(t.job, t)'
    <3>1. CASE UNCHANGED told
      BY <2>3, <3>1
    <3>2. ASSUME NEW job,
                 told' = told \cup {[key |-> clerk[c].key, idem |-> clerk[c].idem, job |-> job,
                                     printer |-> clerk[c].printer, document |-> clerk[c].document]},
                 clerk[c].idem # NoIdem, Stands(job, clerk[c])'
          PROVE  \A t \in told' : Stands(t.job, t)'
      <4>1. /\ clerk'[c].key = clerk[c].key /\ clerk'[c].printer = clerk[c].printer
            /\ clerk'[c].document = clerk[c].document
            /\ clerk[c].step = "count" => clerk[c].idem = NoIdem
            /\ clerk[c].step # "count" => clerk'[c].idem = clerk[c].idem
        BY <1>10, ServeEffects DEF KeepsRequest, AnswersInv, AnswerRight
      <4> DEFINE t == [key |-> clerk[c].key, idem |-> clerk[c].idem, job |-> job,
                       printer |-> clerk[c].printer, document |-> clerk[c].document]
      <4>2. /\ job \in DOMAIN jobs' /\ t.idem # NoIdem /\ t.job = job
            /\ jobs'[job].key = t.key /\ jobs'[job].idem = t.idem
            /\ jobs'[job].printer = t.printer /\ jobs'[job].document = t.document
        BY <3>2, <4>1 DEF Stands
      <4> HIDE DEF t
      <4>3. told' = told \cup {t}
        BY <3>2 DEF t
      <4> QED
        BY <2>3, <4>2, <4>3 DEF Stands
    <3> QED
      BY <1>10, <3>1, <3>2, TellEffects
  <2> QED
    BY <1>6, <1>7, <2>1, <2>2, <2>4 DEF KeysInv
<1> QED
  BY <1>8, <1>9, <1>10 DEF AdmissionNext

LEMMA KeysAgree == AnswersInv /\ KeysInv => AnswersAgree
<1> SUFFICES ASSUME AnswersInv, KeysInv PROVE AnswersAgree
  OBVIOUS
<1>1. \A i \in DOMAIN jobs : i \in Nat
  BY LenProperties DEF AnswersInv, AdmissionTypeOK
<1> QED
  BY <1>1 DEF AnswersAgree, KeysInv, Stands

-----------------------------------------------------------------------------
(* The ceilings.  Who holds the tenant's lock has counted room, and until  *)
(* it inserts its row the counts only go down.                             *)

Unfinished(a) == {i \in Rows : OwnerOf[jobs[i].printer] = a /\ Live(jobs[i])}
Recent == {i \in Rows : jobs[i].recent}

RoomFor(a) ==
  /\ Cardinality(Unfinished(a)) <= MaxQueued + MaxInFlight - 2
  /\ Cardinality(LiveOfTenant) <= MaxConcurrent - 1
  /\ Cardinality(Recent) <= TenantPerMinute - 1

LockInv ==
  /\ \A c \in Clerks : clerk[c] # Idle /\ clerk[c].step = "insert" <=> lock = c
  /\ \A c \in Clerks : lock = c => RoomFor(OwnerOf[clerk[c].printer])

CeilingInv ==
  /\ \A a \in Agents : Cardinality(Unfinished(a)) <= MaxQueued + MaxInFlight - 1
  /\ Cardinality(LiveOfTenant) <= MaxConcurrent
  /\ Cardinality(Recent) <= TenantPerMinute

LEMMA CountsAreFinite ==
  ASSUME jobs \in Seq(JobRow), NEW a
  PROVE  /\ IsFiniteSet(Unfinished(a)) /\ Cardinality(Unfinished(a)) \in Nat
         /\ IsFiniteSet(LiveOfTenant) /\ Cardinality(LiveOfTenant) \in Nat
         /\ IsFiniteSet(Recent) /\ Cardinality(Recent) \in Nat
         /\ IsFiniteSet(QueuedOf(a)) /\ Cardinality(QueuedOf(a)) \in Nat
         /\ IsFiniteSet(InFlightOf(a)) /\ Cardinality(InFlightOf(a)) \in Nat
BY RowsAreFinite DEF Unfinished, LiveOfTenant, Recent, QueuedOf, InFlightOf, OfAgent, Rows

LEMMA UnfinishedIsCounted == \A a : Unfinished(a) = QueuedOf(a) \cup InFlightOf(a)
BY DEF Unfinished, QueuedOf, InFlightOf, OfAgent, Live

(* Where no row is added, nothing grows.                                   *)
LEMMA CountsShrink ==
  ASSUME AnswersInv, RowsKept, DOMAIN jobs' = DOMAIN jobs, NEW a
  PROVE  /\ Cardinality(Unfinished(a))' <= Cardinality(Unfinished(a))
         /\ Cardinality(LiveOfTenant)' <= Cardinality(LiveOfTenant)
         /\ Cardinality(Recent)' <= Cardinality(Recent)
<1>1. /\ Unfinished(a)' \subseteq Unfinished(a) /\ LiveOfTenant' \subseteq LiveOfTenant
      /\ Recent' \subseteq Recent
  BY DEF Unfinished, LiveOfTenant, Recent, Rows, RowsKept, Faded
<1> QED
  BY <1>1, CountsAreFinite, FS_Subset DEF AnswersInv, AdmissionTypeOK

(* A new row adds one to what it counts for.                               *)
LEMMA CountsGrow ==
  ASSUME AnswersInv, NEW c \in Clerks, clerk[c] # Idle, Inserted(c), NEW a
  PROVE  /\ Cardinality(Unfinished(a))' <= Cardinality(Unfinished(a)) + 1
         /\ a # OwnerOf[clerk[c].printer] => Cardinality(Unfinished(a))' <= Cardinality(Unfinished(a))
         /\ Cardinality(LiveOfTenant)' <= Cardinality(LiveOfTenant) + 1
         /\ Cardinality(Recent)' <= Cardinality(Recent) + 1
<1> DEFINE new == Len(jobs) + 1
<1>1. /\ DOMAIN jobs' = DOMAIN jobs \cup {new} /\ new \notin DOMAIN jobs
      /\ jobs'[new] = NewJob(clerk[c]) /\ \A i \in DOMAIN jobs : jobs'[i] = jobs[i]
  BY InsertedRow DEF AnswersInv
<1> HIDE DEF new
<1>2. jobs'[new].printer = clerk[c].printer
  BY <1>1 DEF NewJob
<1>3. /\ Unfinished(a)' \subseteq Unfinished(a) \cup {new}
      /\ a # OwnerOf[clerk[c].printer] => Unfinished(a)' \subseteq Unfinished(a)
      /\ LiveOfTenant' \subseteq LiveOfTenant \cup {new}
      /\ Recent' \subseteq Recent \cup {new}
  BY <1>1, <1>2 DEF Unfinished, LiveOfTenant, Recent, Rows
<1>4. ASSUME NEW S, NEW T, IsFiniteSet(T), S \subseteq T \cup {new}
      PROVE  Cardinality(S) <= Cardinality(T) + 1
  <2>1. IsFiniteSet(T \cup {new}) /\ Cardinality(T \cup {new}) <= Cardinality(T) + 1
    <3>1. Cardinality(T) \in Nat
      BY <1>4, FS_CardinalityType
    <3>2. /\ IsFiniteSet(T \cup {new})
          /\ Cardinality(T \cup {new}) = IF new \in T THEN Cardinality(T) ELSE Cardinality(T) + 1
      BY <1>4, FS_AddElement
    <3> QED
      BY <3>1, <3>2
  <2>2. Cardinality(S) <= Cardinality(T \cup {new}) /\ IsFiniteSet(S)
    BY <1>4, <2>1, FS_Subset
  <2> QED
    BY <1>4, <2>1, <2>2, FS_CardinalityType
<1>5. /\ IsFiniteSet(Unfinished(a)) /\ IsFiniteSet(LiveOfTenant) /\ IsFiniteSet(Recent)
  BY CountsAreFinite DEF AnswersInv, AdmissionTypeOK
<1>6. a # OwnerOf[clerk[c].printer] => Cardinality(Unfinished(a)') <= Cardinality(Unfinished(a))
  BY <1>3, <1>5, FS_Subset
<1>7. /\ Cardinality(Unfinished(a)') <= Cardinality(Unfinished(a)) + 1
      /\ Cardinality(LiveOfTenant') <= Cardinality(LiveOfTenant) + 1
      /\ Cardinality(Recent') <= Cardinality(Recent) + 1
  BY <1>3, <1>4, <1>5
<1> QED
  BY <1>6, <1>7

LEMMA RoomIsCounted ==
  ASSUME AnswersInv, NEW a, HasRoom(a)
  PROVE  RoomFor(a)
<1>1. Cardinality(Unfinished(a)) <= Cardinality(QueuedOf(a)) + Cardinality(InFlightOf(a))
  <2>1. /\ IsFiniteSet(QueuedOf(a)) /\ Cardinality(QueuedOf(a)) \in Nat
        /\ IsFiniteSet(InFlightOf(a)) /\ Cardinality(InFlightOf(a)) \in Nat
    BY CountsAreFinite DEF AnswersInv, AdmissionTypeOK
  <2>2. Cardinality(QueuedOf(a) \cup InFlightOf(a))
          = Cardinality(QueuedOf(a)) + Cardinality(InFlightOf(a)) - Cardinality(QueuedOf(a) \cap InFlightOf(a))
    BY <2>1, FS_Union
  <2>3. Cardinality(QueuedOf(a) \cap InFlightOf(a)) \in Nat
    BY <2>1, FS_Intersection, FS_CardinalityType
  <2> QED
    <3>1. Unfinished(a) = QueuedOf(a) \cup InFlightOf(a)
      BY UnfinishedIsCounted
    <3> QED
      BY <2>1, <2>2, <2>3, <3>1
<1>2. /\ Cardinality(QueuedOf(a)) \in Nat /\ Cardinality(InFlightOf(a)) \in Nat
      /\ Cardinality(LiveOfTenant) \in Nat /\ Cardinality(Recent) \in Nat
      /\ Cardinality(Unfinished(a)) \in Nat
  BY CountsAreFinite DEF AnswersInv, AdmissionTypeOK
<1>3. /\ Cardinality(Recent) < TenantPerMinute /\ Cardinality(LiveOfTenant) < MaxConcurrent
      /\ Cardinality(QueuedOf(a)) < MaxQueued /\ Cardinality(InFlightOf(a)) < MaxInFlight
  BY DEF HasRoom, Recent
<1> QED
  BY <1>1, <1>2, <1>3, AdmissionAssumption DEF RoomFor, CeilingAssumption

LEMMA CeilingStep ==
  AnswersInv /\ LockInv /\ CeilingInv /\ (AdmissionNext \/ UNCHANGED admissionVars)
    => LockInv' /\ CeilingInv'
<1> SUFFICES ASSUME AnswersInv, LockInv, CeilingInv, AdmissionNext PROVE LockInv' /\ CeilingInv'
  BY DEF LockInv, RoomFor, CeilingInv, Unfinished, LiveOfTenant, Recent, Rows, admissionVars
<1>1. RowsKept
  BY RowsAreKept
<1>2. AnswersInv'
  BY AnswersStep
<1>3. \A a : /\ Cardinality(Unfinished(a)) \in Nat /\ Cardinality(Unfinished(a))' \in Nat
             /\ Cardinality(LiveOfTenant) \in Nat /\ Cardinality(LiveOfTenant)' \in Nat
             /\ Cardinality(Recent) \in Nat /\ Cardinality(Recent)' \in Nat
  <2> TAKE a
  <2>1. /\ Cardinality(Unfinished(a)) \in Nat /\ Cardinality(LiveOfTenant) \in Nat
        /\ Cardinality(Recent) \in Nat
    BY CountsAreFinite DEF AnswersInv, AdmissionTypeOK
  <2>2. jobs' \in Seq(JobRow)
    BY <1>2 DEF AnswersInv, AdmissionTypeOK
  <2>3. \A S \in SUBSET DOMAIN jobs' : Cardinality(S) \in Nat
    <3>1. DOMAIN jobs' = 1 .. Len(jobs') /\ Len(jobs') \in Nat
      BY <2>2, LenProperties
    <3>2. IsFiniteSet(1 .. Len(jobs'))
      BY <3>1, FS_Interval
    <3> QED
      BY <3>1, <3>2, FS_Subset, FS_CardinalityType
  <2>4. Unfinished(a)' \subseteq DOMAIN jobs' /\ LiveOfTenant' \subseteq DOMAIN jobs'
        /\ Recent' \subseteq DOMAIN jobs'
    BY DEF Unfinished, LiveOfTenant, Recent, Rows
  <2> QED
    BY <2>1, <2>3, <2>4
<1> USE AdmissionAssumption DEF CeilingAssumption
(* The counts.                                                             *)
<1>4. ASSUME DOMAIN jobs' = DOMAIN jobs
      PROVE  CeilingInv' /\ \A a : RoomFor(a) => RoomFor(a)'
  BY <1>1, <1>3, <1>4, CountsShrink DEF CeilingInv, RoomFor
<1>5. ASSUME NEW c \in Clerks, clerk[c] # Idle, Inserted(c)
      PROVE  CeilingInv'
  <2>1. RoomFor(OwnerOf[clerk[c].printer])
    BY <1>5 DEF LockInv, Inserted
  <2> QED
    BY <1>3, <1>5, <2>1, CountsGrow DEF CeilingInv, RoomFor
(* Who holds the lock.                                                     *)
<1>6. CASE UNCHANGED <<lock, clerk>> /\ DOMAIN jobs' = DOMAIN jobs
  BY <1>4, <1>6 DEF LockInv
<1>7. RowsChange \/ SettingsChange => UNCHANGED <<lock, clerk>> /\ DOMAIN jobs' = DOMAIN jobs
  BY RowsFade DEF SettingsChange, PresenceChanges, RateWindowPasses, CreateKey, RevokeKey, RemoveKey,
    RotateKey, KeepAllButKeys, KeepRequests, AnswersInv, AdmissionTypeOK
<1>8. ASSUME NEW c \in Clerks, Asked(c) \/ Close(c) PROVE LockInv' /\ CeilingInv'
  <2>1. /\ UNCHANGED <<jobs, lock>> /\ \A d \in Clerks : d # c => clerk'[d] = clerk[d]
        /\ clerk'[c] = Idle \/ clerk'[c].step # "insert"
        /\ clerk[c] = Idle \/ clerk[c].step # "insert"
    BY <1>8, AskedEffects, CloseEffects DEF AnswersInv
  <2>2. lock # c
    BY <2>1 DEF LockInv
  <2> QED
    BY <1>4, <2>1, <2>2 DEF LockInv
<1>9. ASSUME NEW c \in Clerks, Serve(c) PROVE LockInv' /\ CeilingInv'
  <2>1. /\ clerk[c] # Idle /\ clerk'[c] # Idle /\ \A d \in Clerks : d # c => clerk'[d] = clerk[d]
        /\ clerk'[c].printer = clerk[c].printer
        /\ UNCHANGED jobs \/ Inserted(c)
    BY <1>9, ServeEffects DEF KeepsRequest
  <2>2. CeilingInv' /\ (UNCHANGED jobs => \A a : RoomFor(a) => RoomFor(a)')
    BY <1>4, <1>5, <2>1
  <2>3. CASE /\ lock = NoClerk /\ lock' = c /\ clerk'[c].step = "insert"
             /\ HasRoom(OwnerOf[clerk[c].printer]) /\ UNCHANGED jobs
    <3>1. \A d \in Clerks : ~(clerk[d] # Idle /\ clerk[d].step = "insert")
      BY <2>3 DEF LockInv
    <3>2. RoomFor(OwnerOf[clerk[c].printer])'
      BY <2>1, <2>2, <2>3, RoomIsCounted DEF RoomFor, Unfinished, LiveOfTenant, Recent, Rows
    <3> QED
      BY <2>1, <2>2, <2>3, <3>1, <3>2 DEF LockInv
  <2>4. CASE /\ clerk[c].step = "insert" /\ clerk'[c].step = "answered"
             /\ lock' = IF lock = c THEN NoClerk ELSE lock
    <3>1. lock = c /\ lock' = NoClerk /\ \A d \in Clerks : d # c => ~(clerk[d] # Idle /\ clerk[d].step = "insert")
      BY <2>1, <2>4 DEF LockInv
    <3> QED
      BY <2>1, <2>2, <2>4, <3>1 DEF LockInv
  <2>5. CASE /\ clerk[c].step # "insert" /\ clerk'[c].step # "insert"
             /\ UNCHANGED <<lock, jobs>>
    <3>1. lock # c
      BY <2>5 DEF LockInv
    <3>2. \A a : RoomFor(a) => RoomFor(a)'
      BY <2>2, <2>5
    <3> QED
      BY <2>1, <2>2, <2>5, <3>1, <3>2 DEF LockInv
  <2> QED
    BY <1>9, <2>3, <2>4, <2>5, LockEffects
<1> QED
  BY <1>4, <1>6, <1>7, <1>8, <1>9 DEF AdmissionNext

AdmissionInv == AnswersInv /\ KeysInv /\ LockInv /\ CeilingInv

LEMMA AdmissionStep == AdmissionInv /\ (AdmissionNext \/ UNCHANGED admissionVars) => AdmissionInv'
BY AnswersStep, KeysStep, CeilingStep DEF AdmissionInv

LEMMA AdmissionBegins == AdmissionInit => AdmissionInv
<1> SUFFICES ASSUME AdmissionInit PROVE AdmissionInv
  OBVIOUS
<1>1. jobs \in Seq(JobRow) /\ DOMAIN jobs = {}
  BY EmptySeq, LenProperties DEF AdmissionInit
<1>2. AnswersInv
  BY <1>1, AdmissionAssumption DEF AdmissionInit, AnswersInv, AdmissionTypeOK, AnswerRight
<1>3. KeysInv /\ LockInv
  BY <1>1, AdmissionAssumption DEF AdmissionInit, KeysInv, LockInv
<1>4. CeilingInv
  <2>1. \A a : Unfinished(a) = {} /\ LiveOfTenant = {} /\ Recent = {}
    BY <1>1 DEF Unfinished, LiveOfTenant, Recent, Rows
  <2>2. Cardinality({}) = 0
    BY FS_EmptySet
  <2> QED
    <3>1. 0 <= MaxQueued + MaxInFlight - 1 /\ 0 <= MaxConcurrent /\ 0 <= TenantPerMinute
      BY AdmissionAssumption DEF CeilingAssumption
    <3>2. \A a : Cardinality(Unfinished(a)) = 0
      BY <2>1, <2>2
    <3>3. Cardinality(LiveOfTenant) = 0 /\ Cardinality(Recent) = 0
      BY <2>1, <2>2
    <3> QED
      BY <3>1, <3>2, <3>3 DEF CeilingInv
<1> QED
  BY <1>2, <1>3, <1>4 DEF AdmissionInv

LEMMA CeilingsAreBounds == CeilingInv => LiveJobsBounded
BY UnfinishedIsCounted DEF CeilingInv, LiveJobsBounded, Recent

-----------------------------------------------------------------------------
(* Which steps touch what *)

Submitters == Web \cup Cron

Unread(c) == \A s \in Submitters : sub[s] # Idle /\ sub[s].step = "sent" => sub[s].clerk # c

(* Who asks the Gateway besides the outbox.                                *)
OthersAsk(c) ==
  \/ \E key \in Keys, idem \in {NoIdem, ApiIdem(1)}, p \in Printers, document \in Documents :
       Receive(c, key, idem, p, document)
  \/ \E p \in Printers, document \in Documents : ManagerPrints(c, p, document)
  \/ \E i \in 1..MaxJobs : ReprintRead(c, i)

AdmissionAlone ==
  \/ RowsChange \/ SettingsChange
  \/ \E c \in Clerks : OthersAsk(c) \/ Serve(c) \/ (Close(c) /\ Unread(c))

(* The keys the outbox gives its operations: nobody else makes such keys.  *)
OwnKinds == {"caller", "kitchen", "odoo-reprint"}
OwnKey == {key \in IdemKey : key.kind \in OwnKinds}

OutboxAlone ==
  \/ \E s \in Web, idem \in OwnKey, p \in Printers, document \in Documents : Click(s, idem, p, document)
  \/ \E s \in Web, o \in 1..MaxOps : Retry(s, o) \/ ForceReprint(s, o)
  \/ \E k \in Keys : ConfigureKey(k)
  \/ \E s \in Cron, o \in 1..MaxOps : StartCron(s, o)
  \/ \E s \in Submitters : \/ StartClick(s) \/ Commit(s) \/ FailOver(s) \/ PutOff(s) \/ TimeOut(s)
                           \/ HiddenAnswer(s) \/ Dies(s)
  \/ \E o \in 1..MaxOps : BackoffEnds(o) \/ Sync(o)

PosAlone ==
  \/ \E k \in Prints : \/ StartPrint(k) \/ EnabledIsAnswered(k) \/ OrderUnknown(k)
                       \/ CallFails(k) \/ RetryKitchen(k)
  \/ SwitchGateway
  \/ \E call \in calls : ServeNative(call) \/ ServeRaises(call)
  \/ \E s \in Web : ServeAnswers(s)

ConsoleNext == PresenceNext \/ PollNext \/ ListNext \/ InspectorNext

DeskNext ==
  \/ AdmissionAlone /\ UNCHANGED <<outboxVars, posVars>>
  \/ (\E s \in Submitters, c \in Clerks : Send(s, c)) /\ UNCHANGED posVars
  \/ (\E s \in Submitters : Answered(s)) /\ UNCHANGED posVars
  \/ OutboxAlone /\ UNCHANGED <<admissionVars, posVars>>
  \/ (\E s \in Web, call \in calls : ServeRoute(s, call)) /\ UNCHANGED admissionVars
  \/ PosAlone /\ UNCHANGED <<admissionVars, outboxVars>>
  \/ UNCHANGED <<admissionVars, outboxVars, posVars>>

LEMMA DeskSteps ==
  ASSUME Next, workload \in Workloads
  PROVE  /\ DeskNext
         /\ GuardNext \/ UNCHANGED guardVars
         /\ WorkstationNext \/ UNCHANGED workstationVars
         /\ ConsoleNext \/ UNCHANGED consoleVars
         /\ UNCHANGED workload
         /\ (budget > 0 /\ budget' = budget - 1) \/ UNCHANGED budget
<1> DEFINE Goal == /\ DeskNext
                   /\ GuardNext \/ UNCHANGED guardVars
                   /\ WorkstationNext \/ UNCHANGED workstationVars
                   /\ ConsoleNext \/ UNCHANGED consoleVars
                   /\ UNCHANGED workload
                   /\ (budget > 0 /\ budget' = budget - 1) \/ UNCHANGED budget
<1>0. \A w \in workload.orders : w[1] \in Printers /\ w[2] \in Documents
  BY DeskAssumption
<1>00. workload.prints \subseteq Prints
  BY DeskAssumption
<1> USE DEF OnlyAdmission, OnlyOutbox, KeepEdges, Spend, KeepWorkload
<1>1. CASE ApiRequests \/ ManagerRequests \/ ReprintRequests
  <2>1. \E c \in Clerks : OthersAsk(c)
    <3>1. CASE ApiRequests
      <4>1. PICK c \in Clerks, k \in Keys, n \in 0..1, w \in workload.orders :
              Receive(c, k, IF n = 0 THEN NoIdem ELSE ApiIdem(n), w[1], w[2])
        BY <3>1 DEF ApiRequests
      <4>2. (IF n = 0 THEN NoIdem ELSE ApiIdem(n)) \in {NoIdem, ApiIdem(1)}
        OBVIOUS
      <4> QED
        BY <1>0, <4>1, <4>2 DEF OthersAsk
    <3>2. CASE ManagerRequests
      BY <1>0, <3>2 DEF ManagerRequests, OthersAsk, ManagerTests
    <3>3. CASE ReprintRequests
      BY <3>3 DEF ReprintRequests, OthersAsk
    <3> QED
      BY <1>1, <3>1, <3>2, <3>3
  <2>2. AdmissionAlone
    BY <2>1 DEF AdmissionAlone
  <2> QED
    BY <1>1, <2>2 DEF DeskNext, ApiRequests, ManagerRequests, ReprintRequests
<1>2. CASE Served
  <2>1. AdmissionAlone
    BY <1>2 DEF Served, ServeAlone, CloseUnread, AdmissionAlone, Unread, Submitters
  <2> QED
    BY <1>2, <2>1 DEF DeskNext, Served, ServeAlone, CloseUnread
<1>3. CASE Delivered \/ (\E i \in 1..MaxJobs : JobEnds(i)) \/ Minutes \/ Cleanups \/ Presence \/ ApiKeys
  <2>1. AdmissionAlone
    BY <1>3 DEF Delivered, JobEnds, Minutes, Cleanups, Presence, ApiKeys, AdmissionAlone, RowsChange,
      SettingsChange
  <2> QED
    BY <1>3, <2>1 DEF DeskNext, Delivered, JobEnds, Minutes, Cleanups, Presence, ApiKeys
<1>4. CASE Clicks
  <2>1. Idem(1) \in OwnKey
    BY DEF Idem, IdemKey, OwnKey, OwnKinds
  <2>2. OutboxAlone /\ UNCHANGED <<admissionVars, posVars>>
    BY <1>0, <1>4, <2>1 DEF Clicks, OutboxAlone
  <2> QED
    BY <1>4, <2>2 DEF DeskNext, Clicks
<1>5. CASE OperatorsRetry \/ KeyConfigured
  <2>1. OutboxAlone /\ UNCHANGED <<admissionVars, posVars>>
    BY <1>5 DEF OperatorsRetry, KeyConfigured, OutboxAlone
  <2> QED
    BY <1>5, <2>1 DEF DeskNext, OperatorsRetry, KeyConfigured
<1>6. CASE OutboxMoves
  <2>1. CASE \E s \in Cron, o \in 1..MaxOps : CronPicks(s, o)
    BY <2>1 DEF CronPicks, DeskNext, OutboxAlone
  <2>2. CASE \E s \in Web \cup Cron : SubmissionFaults(s)
    BY <2>2 DEF SubmissionFaults, DeskNext, OutboxAlone, Submitters
  <2>3. CASE \E o \in 1..MaxOps : Later(o) \/ Synchronised(o)
    BY <2>3 DEF Later, Synchronised, DeskNext, OutboxAlone
  <2>4. ASSUME NEW s \in Submitters, Attempts(s) PROVE Goal
    <3>1. UNCHANGED <<posVars, consoleVars, guardVars, workstationVars, workload, budget>>
      BY <2>4 DEF Attempts
    <3>2. DeskNext
      BY <2>4, <3>1 DEF Attempts, DeskNext, OutboxAlone
    <3> QED
      BY <3>1, <3>2
  <2> QED
    BY <1>6, <2>1, <2>2, <2>3, <2>4 DEF OutboxMoves, Submitters
<1>7. CASE Printing
  <2>1. UNCHANGED <<admissionVars, consoleVars, workload, budget, guardVars, workstationVars>>
    BY <1>7 DEF Printing, OnlyPos
  <2>2. \/ \E s \in Web, call \in calls : ServeRoute(s, call)
        \/ PosAlone
    BY <1>00, <1>7 DEF Printing, PosAlone
  <2>3. PosAlone => UNCHANGED outboxVars
    BY DEF PosAlone, StartPrint, EnabledIsAnswered, OrderUnknown, CallFails, RetryKitchen, SwitchGateway,
      ServeNative, ServeRaises, ServeAnswers, CallServer, KeepServer
  <2> QED
    BY <2>1, <2>2, <2>3 DEF DeskNext
<1>8. CASE Watching
  BY <1>8 DEF Watching, OnlyConsole, DeskNext, ConsoleNext
<1>9. CASE Guarding
  BY <1>9 DEF Guarding, OnlyGuard, KeepDesk, DeskNext
<1>10. CASE Commands
  BY <1>10 DEF Commands, OnlyWorkstation, KeepDesk, DeskNext, WorkstationNext
<1>11. CASE WorkstationMoves
  BY <1>11 DEF WorkstationMoves, Desktop, OnlyWorkstation, KeepDesk, DeskNext, WorkstationNext
<1> QED
  BY <1>1, <1>2, <1>3, <1>4, <1>5, <1>6, <1>7, <1>8, <1>9, <1>10, <1>11 DEF Next

EdgeInv == workload \in Workloads /\ budget \in 0 .. workload.requests /\ GuardInv /\ WorkInv

LEMMA EdgeInvariant == Spec => []EdgeInv
<1>1. Init => EdgeInv
  <2> SUFFICES ASSUME Init PROVE EdgeInv
    OBVIOUS
  <2>1. workload \in Workloads /\ budget = workload.requests /\ GuardInit /\ WorkstationInit
    BY DEF Init
  <2>2. workload.requests \in Nat
    BY <2>1, DeskAssumption
  <2>3. budget \in 0 .. workload.requests
    BY <2>1, <2>2
  <2> QED
    BY <2>1, <2>3, GuardBegins, WorkBegins DEF EdgeInv
<1>2. EdgeInv /\ [Next]_vars => EdgeInv'
  <2> SUFFICES ASSUME EdgeInv, [Next]_vars PROVE EdgeInv'
    OBVIOUS
  <2>1. CASE UNCHANGED vars
    BY <2>1, GuardStep, WorkStep DEF vars, EdgeInv
  <2>2. CASE Next
    <3>1. /\ GuardNext \/ UNCHANGED guardVars
          /\ WorkstationNext \/ UNCHANGED workstationVars
          /\ UNCHANGED workload
          /\ (budget > 0 /\ budget' = budget - 1) \/ UNCHANGED budget
      BY <2>2, DeskSteps DEF EdgeInv
    <3>2. workload.requests \in Nat
      BY DeskAssumption DEF EdgeInv
    <3>3. budget' \in 0 .. workload'.requests
      BY <3>1, <3>2 DEF EdgeInv
    <3> QED
      BY <3>1, <3>3, GuardStep, WorkStep DEF EdgeInv
  <2> QED
    BY <2>1, <2>2
<1> QED
  BY <1>1, <1>2, PTL DEF Spec

(* Whatever closes a request first, and however often: the budget for      *)
(* request bodies in memory is never exceeded, and what is counted against *)
(* it is exactly what is still held.                                       *)
THEOREM BodiesStayInBudget == Spec => []BodiesFitTheBudget
<1>1. EdgeInv => BodiesFitTheBudget
  BY DEF EdgeInv, GuardInv, BodiesFitTheBudget, Sum, Counting
<1> QED
  BY EdgeInvariant, <1>1, PTL

(* As long as commands are given one after another, no workstation ever    *)
(* has two agents, or one that its record does not name.                   *)
THEOREM AgentsStayOwned == Spec => []AgentIsOwned
<1>1. EdgeInv => AgentIsOwned
  BY WorkIsOwned DEF EdgeInv
<1> QED
  BY EdgeInvariant, <1>1, PTL
=============================================================================
