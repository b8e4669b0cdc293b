------------------------------ MODULE Console ------------------------------
(***************************************************************************)
(* The manager's dashboard in the browser (dashboard-client.tsx): what it  *)
(* keeps of the Gateway's state, the requests it has under way, and what   *)
(* it shows meanwhile.  Every request is cut at its awaits; answers arrive *)
(* in any order, late, or not at all.                                      *)
(***************************************************************************)
EXTENDS PrintRules

CONSTANTS
  ConsoleJobs, NoJob,   \* jobs that can be inspected
  Filters, AllJobs,     \* job filters, AllJobs being the one without any
  MaxClock,             \* bound: time
  ClockTick,            \* seconds in a unit of time
  MaxRequests,          \* bound: requests of one kind under way
  MaxChoices            \* bound: selections and filters chosen

ASSUME ConsoleAssumption == NoJob \notin ConsoleJobs /\ AllJobs \in Filters

VARIABLES
  clock,       \* time
  machine,     \* an agent: its row, and whether it is alive
  shownAgent,  \* the row the page has of it
  nowMs,       \* the page's reading of the time
  pollsOut,    \* answers of getDashboardState under way: the agent row in each
  filter, debounced, filterRef,   \* the filter typed, settled, and seen by polls
  list,        \* the filter whose jobs are listed
  queriesOut,  \* getDashboardJobs under way
  selected, payload, fetches,     \* the inspector: job, whose payload, requests
  banner,      \* activePairing: an agent is expected
  choices

clockVars == <<clock, machine, shownAgent, nowMs, pollsOut>>
listVars == <<filter, debounced, filterRef, list, queriesOut>>
inspectorVars == <<selected, payload, fetches>>
consoleVars == <<clockVars, listVars, inspectorVars, banner, choices>>

ConsoleInit ==
  /\ clock = 0 /\ nowMs = 0
  /\ machine \in [lifecycle : {"active"}, status : {"online"}, seen : {TRUE},
                  at : {0}, alive : {TRUE}]
                 \cup [lifecycle : {"active"}, status : {"offline"}, seen : {FALSE},
                       at : {0}, alive : {FALSE}]
  /\ shownAgent = machine /\ pollsOut = {}
  /\ filter = AllJobs /\ debounced = AllJobs /\ filterRef = AllJobs
  /\ list = AllJobs /\ queriesOut = {}
  /\ selected = NoJob /\ payload = NoJob /\ fetches = {}
  /\ banner = ~machine.alive
  /\ choices = 0

Choose == choices < MaxChoices /\ choices' = choices + 1

-----------------------------------------------------------------------------
(* Presence                                                                *)

(* The agent pairs, reports, and at some point falls silent; nobody closes *)
(* its connection.  Bound: it reports while there is time left to lapse.   *)
AgentReports ==
  /\ (MaxClock - clock) * ClockTick > HeartbeatStaleSeconds
  /\ machine.alive \/ ~machine.seen
  /\ machine' = [machine EXCEPT !.status = "online", !.seen = TRUE, !.at = clock, !.alive = TRUE]
  /\ UNCHANGED <<clock, shownAgent, nowMs, pollsOut, banner, choices>>
  /\ UNCHANGED <<listVars, inspectorVars>>

AgentFallsSilent ==
  /\ machine.alive
  /\ machine' = [machine EXCEPT !.alive = FALSE]
  /\ UNCHANGED <<clock, shownAgent, nowMs, pollsOut, banner, choices>>
  /\ UNCHANGED <<listVars, inspectorVars>>

ClockAdvances ==
  /\ clock < MaxClock
  /\ clock' = clock + 1
  /\ UNCHANGED <<machine, shownAgent, nowMs, pollsOut, banner, choices>>
  /\ UNCHANGED <<listVars, inspectorVars>>

(* Slip: the time is read when the page is opened, and never again. *)
NowTickOnce ==
  /\ nowMs # clock /\ nowMs' = nowMs
  /\ UNCHANGED <<clock, machine, shownAgent, pollsOut, banner, choices>>
  /\ UNCHANGED <<listVars, inspectorVars>>

(* setInterval(() => setNowMs(Date.now()), 5000)                           *)
NowTick ==
  /\ nowMs # clock /\ nowMs' = clock
  /\ UNCHANGED <<clock, machine, shownAgent, pollsOut, banner, choices>>
  /\ UNCHANGED <<listVars, inspectorVars>>

(* agentLiveView of the row the page has, at the time the page has.        *)
ShownTone ==
  AgentTone([lifecycle |-> shownAgent.lifecycle, status |-> shownAgent.status,
             seen |-> shownAgent.seen, age |-> (nowMs - shownAgent.at) * ClockTick])

-----------------------------------------------------------------------------
(* Polls and the job list                                                  *)

(* refreshData: every few seconds while the tab is visible, and after each *)
(* action.                                                                 *)
PollStarts ==
  /\ Cardinality(pollsOut) < MaxRequests
  /\ pollsOut' = pollsOut \cup {machine}
  /\ UNCHANGED <<clock, machine, shownAgent, nowMs, banner, choices>>
  /\ UNCHANGED <<listVars, inspectorVars>>

Query(f, guarded) == [filter |-> f, guarded |-> guarded, cancelled |-> FALSE]

(* Its answer replaces the agents, whatever came in between; the jobs too  *)
(* where no filter is set, and otherwise a query follows that nothing      *)
(* cancels.  The banner closes when the expected agent has been seen.      *)
PollAnswered(row) ==
  /\ row \in pollsOut
  /\ pollsOut' = pollsOut \ {row}
  /\ shownAgent' = row
  /\ banner' = (banner /\ row.status # "online" /\ ~row.seen)
  /\ IF filterRef = AllJobs
     THEN list' = AllJobs /\ UNCHANGED queriesOut
     ELSE queriesOut' = queriesOut \cup {Query(filterRef, FALSE)} /\ UNCHANGED list
  /\ UNCHANGED <<clock, machine, nowMs, filter, debounced, filterRef, choices>>
  /\ UNCHANGED inspectorVars

PollFails(row) ==
  /\ row \in pollsOut
  /\ pollsOut' = pollsOut \ {row}
  /\ UNCHANGED <<clock, machine, shownAgent, nowMs, banner, choices>>
  /\ UNCHANGED <<listVars, inspectorVars>>

TypeFilter(f) ==
  /\ f # filter /\ Choose
  /\ filter' = f
  /\ UNCHANGED <<debounced, filterRef, list, queriesOut, banner>>
  /\ UNCHANGED <<clockVars, inspectorVars>>

Guarded(q) == IF q.guarded THEN [q EXCEPT !.cancelled = TRUE] ELSE q

(* Slip: refreshData keeps the filter of the render that made it. *)
FilterSettlesUnseen ==
  /\ debounced # filter
  /\ debounced' = filter
  /\ queriesOut' = {Guarded(q) : q \in queriesOut} \cup {Query(filter, TRUE)}
  /\ UNCHANGED <<filter, filterRef, list, banner, choices>>
  /\ UNCHANGED <<clockVars, inspectorVars>>

(* The filter has settled: loadFilteredJobs of the one before is cancelled, *)
(* a new one starts, and filterRef follows.                                *)
FilterSettles ==
  /\ debounced # filter
  /\ debounced' = filter /\ filterRef' = filter
  /\ queriesOut' = {Guarded(q) : q \in queriesOut} \cup {Query(filter, TRUE)}
  /\ UNCHANGED <<filter, list, banner, choices>>
  /\ UNCHANGED <<clockVars, inspectorVars>>

QueryAnswered(q) ==
  /\ q \in queriesOut
  /\ queriesOut' = queriesOut \ {q}
  /\ list' = IF q.cancelled THEN list ELSE q.filter
  /\ UNCHANGED <<filter, debounced, filterRef, banner, choices>>
  /\ UNCHANGED <<clockVars, inspectorVars>>

QueryFails(q) ==
  /\ q \in queriesOut
  /\ queriesOut' = queriesOut \ {q}
  /\ UNCHANGED <<filter, debounced, filterRef, list, banner, choices>>
  /\ UNCHANGED <<clockVars, inspectorVars>>

-----------------------------------------------------------------------------
(* The inspector                                                           *)

(* Another job is selected, or none: the effect of the one before is       *)
(* cleaned up, and a fetch of the new one's payload starts.                *)
SelectJob(j) ==
  /\ j # selected /\ Choose
  /\ selected' = j /\ payload' = NoJob
  /\ fetches' = {[f EXCEPT !.cancelled = TRUE] : f \in fetches}
                \cup IF j = NoJob THEN {} ELSE {[job |-> j, step |-> "asked", cancelled |-> FALSE]}
  /\ UNCHANGED banner /\ UNCHANGED <<clockVars, listVars>>

(* The headers are there; the body is read by a second await, and what it  *)
(* holds is shown without another look at `cancelled`.                     *)
FetchResponds(f) ==
  /\ f \in fetches /\ f.step = "asked"
  /\ fetches' = (fetches \ {f}) \cup IF f.cancelled THEN {} ELSE {[f EXCEPT !.step = "parsing"]}
  /\ UNCHANGED <<selected, payload, banner, choices>> /\ UNCHANGED <<clockVars, listVars>>

FetchParsed(f) ==
  /\ f \in fetches /\ f.step = "parsing"
  /\ fetches' = fetches \ {f}
  /\ payload' = f.job
  /\ UNCHANGED <<selected, banner, choices>> /\ UNCHANGED <<clockVars, listVars>>

(* No payload is shown for a job whose fetch failed.                       *)
FetchFails(f) ==
  /\ f \in fetches
  /\ fetches' = fetches \ {f}
  /\ payload' = IF f.cancelled THEN payload ELSE NoJob
  /\ UNCHANGED <<selected, banner, choices>> /\ UNCHANGED <<clockVars, listVars>>

PresenceNext == AgentReports \/ AgentFallsSilent \/ ClockAdvances \/ NowTick
PollNext == PollStarts \/ \E row \in pollsOut : PollAnswered(row) \/ PollFails(row)
ListNext ==
  \/ FilterSettles \/ \E f \in Filters : TypeFilter(f)
  \/ \E q \in queriesOut : QueryAnswered(q) \/ QueryFails(q)
InspectorNext ==
  \/ \E j \in ConsoleJobs \cup {NoJob} : SelectJob(j)
  \/ \E f \in fetches : FetchResponds(f) \/ FetchParsed(f) \/ FetchFails(f)

-----------------------------------------------------------------------------
(* Properties                                                              *)

(* An agent that has fallen silent is in the end shown as stale, not as     *)
(* online, even if every poll after that fails ("ticked every 5s so        *)
(* heartbeat lapses update presence immediately without page reload").     *)
LapsedAgentLooksLost == <>[](machine.alive \/ ShownTone # "ok")

(* When the operator stops typing, the list is in the end that of the      *)
(* filter shown, and the pairing banner closes once its agent has come;     *)
(* whatever polls and queries of older filters were still under way, as    *)
(* long as some polls get through.                                         *)
ConsoleCatchesUp == <>[](list = filter /\ (machine.seen => ~banner))

(* The inspector shows the payload of the job it names, or none: "Clear    *)
(* the previous job's payload when the selection changes so a stale        *)
(* document is never shown while the next fetch is in flight."             *)
PayloadMatchesSelection == payload \in {NoJob, selected}
=============================================================================
