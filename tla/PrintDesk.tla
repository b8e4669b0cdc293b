----------------------------- MODULE PrintDesk -----------------------------
(***************************************************************************)
(* Where print jobs come from and who looks at them: the Gateway's         *)
(* admission of jobs, Odoo's outbox that submits them, the web clients     *)
(* that feed the outbox, the body guard all API calls pass, and those who  *)
(* watch: the manager's console and the workstation's desktop manager.     *)
(*                                                                         *)
(* As in ControlPlane, a workload chosen at the start says which kinds of  *)
(* requests arrive in a behaviour, how many of those it bounds (`budget`),  *)
(* and for which printers and documents (`orders`, `prints`).              *)
(***************************************************************************)
EXTENDS PosPrinting, Console, RequestGuard, Workstation

CONSTANT Workloads

ASSUME DeskAssumption ==
  \A load \in Workloads : /\ load.orders \subseteq Printers \X Documents
                          /\ load.prints \subseteq Prints /\ load.requests \in Nat

VARIABLES workload, budget

vars == <<admissionVars, outboxVars, posVars, consoleVars, guardVars, workstationVars,
          workload, budget>>

TypeOK ==
  /\ AdmissionTypeOK /\ OutboxTypeOK /\ PosTypeOK /\ GuardTypeOK /\ WorkstationTypeOK
  /\ selected \in ConsoleJobs \cup {NoJob} /\ list \in Filters
  /\ workload \in Workloads /\ budget \in 0 .. workload.requests

Arrives(kind) == kind \in workload.kinds

Init ==
  /\ workload \in Workloads
  /\ budget = workload.requests
  /\ AdmissionInit /\ OutboxInit /\ PosInit /\ ConsoleInit /\ GuardInit /\ WorkstationInit
  /\ Arrives("clients") \/ gatewayOn
  /\ Arrives("presence page") \/ machine.alive
  /\ Arrives("workstation") \/ service = "absent"

Spend == budget > 0 /\ budget' = budget - 1
KeepWorkload == UNCHANGED <<workload, budget>>
KeepEdges == UNCHANGED <<guardVars, workstationVars>>
KeepDesk == UNCHANGED <<admissionVars, outboxVars, posVars, consoleVars>>
OnlyAdmission == UNCHANGED <<outboxVars, posVars, consoleVars, workload>> /\ KeepEdges
OnlyOutbox == UNCHANGED <<admissionVars, posVars, consoleVars, workload>> /\ KeepEdges
OnlyPos == UNCHANGED <<admissionVars, consoleVars>> /\ KeepWorkload /\ KeepEdges
OnlyConsole == UNCHANGED <<admissionVars, outboxVars, posVars>> /\ KeepWorkload /\ KeepEdges
OnlyGuard == KeepDesk /\ UNCHANGED workstationVars /\ KeepWorkload
OnlyWorkstation == KeepDesk /\ UNCHANGED <<guardVars, workload>>

(* Clerks are interchangeable: the free one of the lowest number serves.   *)
FreeClerk(c) == clerk[c] = Idle /\ \A b \in Clerks : b < c => clerk[b] # Idle

-----------------------------------------------------------------------------
(* Admission                                                               *)

(* Requests of other callers of the API, of managers, and for reprints.    *)
ApiRequests ==
  /\ Arrives("api") /\ Spend /\ OnlyAdmission
  /\ \E c \in Clerks, k \in {k \in Keys : keyState[k] # "unborn"}, n \in 0..1, w \in workload.orders :
       /\ FreeClerk(c) /\ (n = 0 => Arrives("unkeyed"))
       /\ Receive(c, k, IF n = 0 THEN NoIdem ELSE ApiIdem(n), w[1], w[2])

ManagerRequests ==
  /\ Arrives("managers") /\ Spend /\ OnlyAdmission
  /\ \E c \in Clerks, w \in workload.orders :
       /\ FreeClerk(c)
       /\ \/ ManagerPrints(c, w[1], w[2])
          \/ Arrives("test pages") /\ ManagerTests(c, w[1], w[2])

ReprintRequests ==
  /\ Arrives("reprints") /\ Spend /\ OnlyAdmission
  /\ \E c \in Clerks, i \in 1..MaxJobs : FreeClerk(c) /\ ReprintRead(c, i)

ServeAlone(c) == Serve(c) /\ OnlyAdmission /\ UNCHANGED budget

(* A clerk whose submitter still waits is closed by reading its answer.    *)
CloseUnread(c) ==
  /\ \A s \in Web \cup Cron : sub[s] # Idle /\ sub[s].step = "sent" => sub[s].clerk # c
  /\ Close(c) /\ OnlyAdmission /\ UNCHANGED budget

Served == \E c \in Clerks : ServeAlone(c) \/ CloseUnread(c)

Delivered ==
  /\ Arrives("delivery") /\ OnlyAdmission /\ UNCHANGED budget
  /\ \E i \in 1..MaxJobs : Deliver(i)

JobEnds(i) ==
  /\ Arrives("expiry") /\ OnlyAdmission /\ UNCHANGED budget
  /\ JobTtlPasses(i) \/ Expire(i)

Minutes ==
  /\ Arrives("minutes") /\ OnlyAdmission /\ UNCHANGED budget
  /\ MinutePasses \/ \E k \in Keys : RateWindowPasses(k)

Cleanups ==
  /\ Arrives("cleanup") /\ Spend /\ OnlyAdmission
  /\ \E last \in 1..MaxJobs : Cleanup(last)

Presence ==
  /\ Arrives("presence") /\ Spend /\ OnlyAdmission
  /\ PresenceChanges

ApiKeys ==
  /\ Arrives("keys") /\ Spend /\ OnlyAdmission
  /\ \E k \in Keys : \/ CreateKey(k) \/ RevokeKey(k) \/ RemoveKey(k)
                     \/ \E new \in Keys : RotateKey(k, new)

-----------------------------------------------------------------------------
(* The outbox                                                              *)

Clicks ==
  /\ Arrives("clicks") /\ Spend /\ OnlyOutbox
  /\ \E s \in Web, w \in workload.orders : Click(s, Idem(1), w[1], w[2])

OperatorsRetry ==
  /\ Arrives("operators") /\ Spend /\ OnlyOutbox
  /\ \E s \in Web, o \in 1..MaxOps : Retry(s, o) \/ ForceReprint(s, o)

KeyConfigured ==
  /\ Arrives("keys") /\ Spend /\ OnlyOutbox
  /\ \E k \in Keys : ConfigureKey(k)

CronPicks(s, o) == StartCron(s, o) /\ OnlyOutbox /\ UNCHANGED budget

(* What a submission does by itself, from its first step to its commit.    *)
Attempts(s) ==
  /\ sub[s] # Idle
  /\ UNCHANGED <<posVars, consoleVars>> /\ KeepWorkload /\ KeepEdges
  /\ \/ \E c \in Clerks : FreeClerk(c) /\ Send(s, c)
     \/ Answered(s)
     \/ UNCHANGED admissionVars /\ (StartClick(s) \/ Commit(s))
     \/ UNCHANGED admissionVars /\ Arrives("no network") /\ (FailOver(s) \/ PutOff(s))
     \/ UNCHANGED admissionVars /\ Arrives("timeouts") /\ TimeOut(s)

SubmissionFaults(s) ==
  Arrives("faults") /\ OnlyOutbox /\ UNCHANGED budget /\ (HiddenAnswer(s) \/ Dies(s))

Later(o) == BackoffEnds(o) /\ OnlyOutbox /\ UNCHANGED budget
Synchronised(o) == Sync(o) /\ OnlyOutbox /\ UNCHANGED budget

OutboxMoves ==
  \/ \E s \in Cron, o \in 1..MaxOps : CronPicks(s, o)
  \/ \E s \in Web \cup Cron : Attempts(s) \/ SubmissionFaults(s)
  \/ \E o \in 1..MaxOps : Later(o) \/ Synchronised(o)

-----------------------------------------------------------------------------
(* Clients                                                                 *)

Printing ==
  /\ Arrives("clients") /\ OnlyPos
  /\ \/ \E k \in workload.prints : StartPrint(k)
     \/ \E k \in Prints : \/ EnabledIsAnswered(k) \/ OrderUnknown(k)
                          \/ CallFails(k) \/ RetryKitchen(k)
     \/ SwitchGateway
     \/ \E call \in calls : \/ ServeNative(call) \/ ServeRaises(call)
                            \/ \E s \in Web : ServeRoute(s, call)
     \/ \E s \in Web : ServeAnswers(s)

Watching ==
  /\ OnlyConsole
  /\ \/ Arrives("presence page") /\ PresenceNext
     \/ Arrives("polls") /\ PollNext
     \/ Arrives("list page") /\ ListNext
     \/ Arrives("inspector") /\ InspectorNext

-----------------------------------------------------------------------------
(* The body guard and the workstation                                      *)

Guarding == Arrives("bodies") /\ OnlyGuard /\ GuardNext

Commands ==
  /\ Arrives("workstation") /\ Spend /\ OnlyWorkstation
  /\ \E t \in Threads, kind \in {"start", "stop", "restart"} : Command(t, kind)

Desktop(A) == Arrives("workstation") /\ OnlyWorkstation /\ UNCHANGED budget /\ A

WorkstationMoves ==
  Desktop(\/ \E t \in Threads : Goes(t)
          \/ AgentExits \/ RefreshStatus
          \/ \E answer \in BOOLEAN : StatusAnswered(answer))

-----------------------------------------------------------------------------

Next ==
  \/ ApiRequests \/ ManagerRequests \/ ReprintRequests \/ Served
  \/ Delivered \/ (\E i \in 1..MaxJobs : JobEnds(i)) \/ Minutes \/ Cleanups \/ Presence \/ ApiKeys
  \/ Clicks \/ OperatorsRetry \/ KeyConfigured \/ OutboxMoves
  \/ Printing \/ Watching \/ Guarding \/ Commands \/ WorkstationMoves

Spec == Init /\ [][Next]_vars

(* Requests in the Gateway are served, submissions go on until they commit, *)
(* the cron jobs of Odoo come back, jobs end by their TTL (GatewayJobs);    *)
(* the pages' timers fire, of their polls and queries some succeed, and    *)
(* none is under way for ever.                                             *)
Fairness ==
  /\ WF_vars(Served)
  /\ WF_vars(\E i \in 1..MaxJobs : JobEnds(i))
  /\ WF_vars(\E s \in Web \cup Cron : Attempts(s))
  /\ WF_vars(\E o \in 1..MaxOps : Later(o) \/ Synchronised(o))
  /\ WF_vars(\E s \in Cron, o \in 1..MaxOps : CronPicks(s, o))
  /\ WF_vars(Desktop(RefreshStatus))
  /\ \A answer \in BOOLEAN : WF_vars(Desktop(StatusAnswered(answer)))
  /\ LET Page(kind, A) == Arrives(kind) /\ OnlyConsole /\ A IN
       /\ WF_vars(Page("presence page", ClockAdvances))
       /\ WF_vars(Page("presence page", NowTick))
       /\ WF_vars(Page("polls", PollStarts))
       /\ WF_vars(Page("list page", FilterSettles))
       /\ WF_vars(Page("list page", \E q \in queriesOut : q.filter # filterRef /\ QueryAnswered(q)))
       /\ SF_vars(Page("polls", \E row \in pollsOut : PollAnswered(row)))
       /\ SF_vars(Page("list page", \E q \in queriesOut :
                         ~q.guarded /\ q.filter = filterRef /\ QueryAnswered(q)))

FairSpec == Spec /\ Fairness

Settled(o) == ops[o].status \in OpTerminal \cup {"gone"} \/ keyState[odooKey] # "active"

(* Again and again there is a moment when no operation of the outbox is    *)
(* open, as long as jobs end in the Gateway and the key they are followed  *)
(* with is valid: whichever attempts fail, are lost, or die.               *)
OutboxSettles == []<>(Arrives("expiry") => \A o \in DOMAIN ops : Settled(o))

(* Whoever watches learns that an agent is gone: the console shows an      *)
(* agent that fell silent as lost, and the window of its workstation shows *)
(* as stopped one that died, though answers overtake each other and nobody *)
(* pressed a button.                                                       *)
LostAgentLooksLost ==
  /\ LapsedAgentLooksLost
  /\ [](Arrives("workstation") => <>(shownRunning = Running))
=============================================================================
