---------------------------- MODULE PrintPromise ----------------------------
(***************************************************************************)
(* What the print service promises the business system that submits a      *)
(* document: one physical outcome per job (docs/JOB_LIFECYCLE.md, derived  *)
(* by derivePhysicalOutcome), and what that outcome says about the paper.  *)
(*                                                                         *)
(*   - a job puts at most one document on paper;                           *)
(*   - "printed" is said only of a document on paper, and is final;        *)
(*   - "not_printed" is said only when nothing was and nothing will be     *)
(*     printed, so the caller may safely submit the document again;        *)
(*   - in every other case the outcome is "unknown".                       *)
(*                                                                         *)
(* The promise is made job by job; one step may concern several jobs (a    *)
(* sweep settles every row it selects).                                    *)
(***************************************************************************)
EXTENDS Naturals

CONSTANT Jobs

VARIABLES outcome,   \* "open", then what is said of the job
          sheets     \* how often the document was, or may have been, printed

promiseVars == <<outcome, sheets>>

Outcomes == {"open", "printed", "unknown", "not_printed"}

Init == /\ outcome = [j \in Jobs |-> "open"]
        /\ sheets = [j \in Jobs |-> 0]

Says(j, what) == outcome'[j] = what /\ sheets'[j] = sheets[j]

Emit(j) == /\ sheets[j] = 0
           /\ outcome[j] \in {"open", "unknown"}
           /\ sheets'[j] = 1
           /\ outcome'[j] = outcome[j]

Confirm(j) == /\ sheets[j] = 1
              /\ outcome[j] \in {"open", "unknown"}
              /\ Says(j, "printed")

GiveUp(j) == outcome[j] = "open" /\ Says(j, "unknown")

(* Nothing was printed; an "unknown" may still turn out that way.          *)
Refuse(j) == /\ sheets[j] = 0
             /\ outcome[j] \in {"open", "unknown"}
             /\ Says(j, "not_printed")

Keep(j) == Says(j, outcome[j])

Next == /\ outcome' \in [Jobs -> Outcomes]
        /\ sheets' \in [Jobs -> Nat]
        /\ \A j \in Jobs : Keep(j) \/ Emit(j) \/ Confirm(j) \/ GiveUp(j) \/ Refuse(j)

Spec == Init /\ [][Next]_promiseVars
=============================================================================
