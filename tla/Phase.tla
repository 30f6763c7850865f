------------------------------- MODULE Phase -------------------------------
(***************************************************************************)
(* One phase of a workflow run as the controller drives it: runPhase of    *)
(* scripts/workflow-controller.mjs.  Implement, review, collect, gate and  *)
(* integrate; after a failure of the code the fix decision and a repair    *)
(* round, while the budget lasts; and a controller that may be killed      *)
(* anywhere and resumed from its journal.  The last step is the            *)
(* integration of module Integration, on the same branches.                *)
(*                                                                         *)
(* The protocol of an agent step's effect has a module of its own,         *)
(* WorkflowStep: here its start is persisted with the step's start, and    *)
(* its end with the step's end.                                            *)
(***************************************************************************)
EXTENDS Integers, Sequences, SequencesExt, FiniteSetsExt

CONSTANTS
  Order, MaxTip, MaxFaults,
  FixBudget,    (* rounds a task may be repaired: fixRounds of the manifest *)
  MaxRounds,    (* maxRepairRounds of the request                           *)
  MaxRuns       (* bound: invocations of the controller                     *)

ASSUME OrderAssumption == /\ IsInjective(Order) /\ Order \in Seq(ToSet(Order))
                          /\ "other" \notin ToSet(Order)
ASSUME TipAssumption == MaxTip \in Nat \ {0} /\ MaxFaults \in Nat
ASSUME BudgetAssumption ==
  FixBudget \in Nat /\ MaxRounds \in Nat /\ MaxRuns \in Nat

VARIABLES
  branch, tips, clean, onBranch, call, faults,
  ctl,          (* the running controller                                   *)
  journal,      (* the latest attempt of each step id that was started      *)
  reviews,      (* the findings files: the tips they are stamped with, and  *)
                (* whether they block                                       *)
  accepted,     (* the tasks whose result the driver has verified           *)
  fixRounds,    (* fixRounds of status.json                                 *)
  judged,       (* tips some reviewer found nothing blocking in             *)
  gated,        (* tips the gate command passed                             *)
  runs

gitSide == <<branch, tips, clean, onBranch>>
files == <<reviews, accepted, fixRounds>>
seen == <<judged, gated>>
vars == <<gitSide, call, faults, ctl, journal, files, seen, runs>>

I == INSTANCE Integration

Tasks == I!Tasks
NoTips == [t \in Tasks |-> 0]

-----------------------------------------------------------------------------
(* The steps of a round: the record steps of a repair round come first.    *)

StepId(name, round) == [name |-> name, round |-> round]
RecordId(t, round) == [name |-> "record", round |-> round, task |-> t]

Steps(round, named) ==
  LET records == [i \in DOMAIN named |-> RecordId(named[i], round)]
      work == IF round = 0 THEN "implement" ELSE "repair"
      rest == <<work, "review", "collect", "gate", "integrate">>
  IN records \o [i \in 1..Len(rest) |-> StepId(rest[i], round)]

Started(id) == id \in DOMAIN journal
IsAgent(id) == id.name \in {"implement", "repair", "review"}

NoPlan == [t \in {} |-> 0]
NoRecord == [tips |-> NoTips, after |-> <<>>]

(* An attempt as its events show it: the branches at its start, the agent  *)
(* dispatch, the end, and the artifact a later decision reads: the round   *)
(* a fix decision names for each task, or the integration record.          *)
Attempt ==
  [tips |-> tips, run |-> branch, dispatch |-> "open", end |-> "none", unknown |-> FALSE,
   plan |-> NoPlan, record |-> NoRecord]

Idle == [pc |-> "idle"]

(* plan is the fix decision of the round: each named task and its round.   *)
(* Each record step spends a round of its own task, in whatever order.     *)
Invocation(round, plan) ==
  [pc |-> "choose", round |-> round, plan |-> plan, at |-> 1,
   steps |-> Steps(round, SetToSeq(DOMAIN plan)),
   taskTips |-> NoTips, collected |-> "none", read |-> "none", exit |-> "none",
   record |-> NoRecord]

Step == ctl.steps[ctl.at]
In(pc) == ctl.pc = pc
Doing(name) == Step.name = name

-----------------------------------------------------------------------------
(* The checks on what a step left: they read the files and branches as     *)
(* they are, against the tips this invocation goes by.                     *)

(* validateImplement: every task has an accepted result and a branch with  *)
(* changes.                                                                *)
Implemented == accepted = Tasks /\ \A t \in Tasks : tips[t] > 0

(* validateRepair: each named task advanced from the tip it started at.    *)
Repaired(from) == Implemented /\ \A t \in DOMAIN ctl.plan : tips[t] > from[t]

(* reviewsCurrent.                                                         *)
Reviewed == tips = ctl.taskTips /\ reviews.stamp = tips

(* A broken GateInputs: only the review is looked at.                      *)
GateInputsAnyTips == ctl.collected = "pass"

(* gateInputsCurrent.                                                      *)
GateInputs == ctl.collected = "pass" /\ tips = ctl.taskTips

(* integrationStillCurrent: the record's commit is still in the run        *)
(* branch, and the task branches are those it merged.                      *)
StillIntegrated(r) == r # NoRecord /\ r.tips = tips /\ IsPrefix(r.after, branch)

(* REUSE: whether the output of a completed attempt may be used again.     *)
Reusable(id) ==
  CASE id.name = "implement" -> Implemented
    [] id.name = "repair" -> Repaired(journal[id].tips)
    [] id.name = "review" -> Reviewed
    [] id.name = "record" -> TRUE
    [] id.name = "integrate" -> StillIntegrated(journal[id].record)
    [] OTHER -> FALSE

-----------------------------------------------------------------------------
(* priorDecision and agentDecision.                                        *)

AgentChoice(id) ==
  CASE journal[id].dispatch \in {"failed", "not-started"} -> "run"
    [] journal[id].dispatch = "completed" /\ Reusable(id) -> "reuse"
    [] OTHER -> "block"

IntegrateChoice(id) ==
  CASE journal[id].end = "none" -> IF journal[id].run = branch THEN "run" ELSE "block"
    [] journal[id].end = "failed" -> IF journal[id].unknown THEN "block" ELSE "run"
    [] OTHER -> IF Reusable(id) THEN "reuse" ELSE "run"

(* A broken RecordLanded: only the journal tells whether it was recorded.  *)
RecordUnread(id) == FALSE

(* recordLanded: the round the decision named is in status.json already.   *)
RecordLanded(id) == fixRounds[id.task] >= ctl.plan[id.task]

Choice(id) ==
  IF id.name = "record" /\ RecordLanded(id) THEN "reuse"
  ELSE IF ~Started(id) THEN "run"
  ELSE CASE IsAgent(id) -> AgentChoice(id)
         [] id.name = "integrate" -> IntegrateChoice(id)
         [] OTHER -> IF journal[id].end = "completed" /\ Reusable(id) THEN "reuse" ELSE "run"

-----------------------------------------------------------------------------
(* The controller's loop over the steps.                                   *)

Onward(c) == [c EXCEPT !.at = @ + 1, !.exit = "none", !.read = "none",
                       !.pc = IF c.at < Len(c.steps) THEN "choose" ELSE "done"]

(* What a good output gives the invocation: the tips it goes by, the       *)
(* record of the integration.                                              *)
Taking(id, record) ==
  CASE id.name \in {"implement", "repair"} -> [ctl EXCEPT !.taskTips = tips]
    [] id.name = "integrate" -> [ctl EXCEPT !.record = record, !.taskTips = record.tips]
    [] OTHER -> ctl

Stop == ctl' = Idle

(* A step's start in the journal, in place of the attempt before it.       *)
Starts(id, attempt) ==
  journal' = [x \in DOMAIN journal \cup {id} |-> IF x = id THEN attempt ELSE journal[x]]

Reuse ==
  /\ In("choose") /\ Choice(Step) = "reuse"
  /\ ctl' = Onward(IF Started(Step) THEN Taking(Step, journal[Step].record) ELSE ctl)
  /\ UNCHANGED <<gitSide, call, faults, journal, files, seen, runs>>

Block ==
  /\ In("choose") /\ Choice(Step) = "block"
  /\ Stop
  /\ UNCHANGED <<gitSide, call, faults, journal, files, seen, runs>>

(* guarded: the start is persisted before the action.                      *)
Start ==
  /\ In("choose") /\ Choice(Step) = "run"
  /\ Starts(Step, Attempt)
  /\ ctl' = [ctl EXCEPT !.pc = "work"]
  /\ UNCHANGED <<gitSide, call, faults, files, seen, runs>>

-----------------------------------------------------------------------------
(* The commands.  Each exits well ("ok"), fails, or in a way that does not *)
(* tell what it did ("unknown": a timeout).                                *)

Exits(exit) == ctl' = [ctl EXCEPT !.pc = "finish", !.exit = exit]

(* dispatch: some of the tasks that are to be worked on get a commit and a *)
(* result the driver accepts; those with one already are left alone.       *)
Dispatch(todo) ==
  \E did \in SUBSET {t \in todo : tips[t] < MaxTip} :
     /\ tips' = [t \in Tasks |-> IF t \in did THEN tips[t] + 1 ELSE tips[t]]
     /\ accepted' = (accepted \ todo) \cup did

Agents ==
  /\ In("work") /\ Step.name \in {"implement", "repair"}
  /\ Dispatch(IF Doing("implement") THEN Tasks \ accepted ELSE DOMAIN ctl.plan)
  /\ \E exit \in {"ok", "failed", "unknown"} : Exits(exit)
  /\ UNCHANGED <<branch, clean, onBranch, call, faults, journal, reviews, fixRounds, seen, runs>>

(* dispatch-reviews: the findings are stamped with the tips the reviewers  *)
(* were given.                                                             *)
Reviewers ==
  /\ In("work") /\ Doing("review")
  /\ \/ \E blocks \in BOOLEAN :
           /\ reviews' = [stamp |-> tips, blocks |-> blocks]
           /\ judged' = IF blocks THEN judged ELSE judged \cup {tips}
     \/ UNCHANGED <<reviews, judged>>
  /\ \E exit \in {"ok", "failed", "unknown"} : Exits(exit)
  /\ UNCHANGED <<gitSide, call, faults, journal, accepted, fixRounds, gated, runs>>

(* collect-reviews: findings stamped for other tips than those of now are  *)
(* refused.                                                                *)
Collect ==
  /\ In("work") /\ Doing("collect")
  /\ IF reviews.stamp = tips
     THEN ctl' = [ctl EXCEPT !.pc = "finish", !.exit = "ok",
                             !.read = IF reviews.blocks THEN "fail" ELSE "pass"]
     ELSE Exits("failed")
  /\ UNCHANGED <<gitSide, call, faults, journal, files, seen, runs>>

(* The gate command, which is not run on inputs that have changed.         *)
Gate ==
  /\ In("work") /\ Doing("gate")
  /\ \/ GateInputs /\ Exits("ok") /\ gated' = gated \cup {tips}
     \/ GateInputs /\ Exits("code") /\ UNCHANGED gated
     \/ Exits("failed") /\ UNCHANGED gated
  /\ UNCHANGED <<gitSide, call, faults, journal, files, judged, runs>>

(* record-fix-round: it may be killed with the count written.              *)
Record ==
  /\ In("work") /\ Doing("record")
  /\ \/ fixRounds' = [fixRounds EXCEPT ![Step.task] = @ + 1] /\ Exits("ok")
     \/ fixRounds' = [fixRounds EXCEPT ![Step.task] = @ + 1] /\ Exits("failed")
     \/ UNCHANGED fixRounds /\ Exits("failed")
  /\ UNCHANGED <<gitSide, call, faults, journal, reviews, accepted, seen, runs>>

(* runIntegration: the gate inputs once more, then the gate and the merges *)
(* of module Integration.                                                  *)
Integrate ==
  /\ In("work") /\ Doing("integrate")
  /\ IF GateInputs
     THEN I!Begin(ctl.taskTips) /\ ctl' = [ctl EXCEPT !.pc = "integrating"]
     ELSE Exits("failed") /\ UNCHANGED <<gitSide, call, faults>>
  /\ UNCHANGED <<journal, files, seen, runs>>

(* reviewCheck: the reviews are still those of the preview's tips.         *)
ReviewHolds == Reviewed /\ ctl.collected = "pass" /\ call.taskTips = ctl.taskTips

Integrating ==
  /\ In("integrating") /\ I!Working(ReviewHolds)
  /\ UNCHANGED <<ctl, journal, files, seen, runs>>

-----------------------------------------------------------------------------
(* The end of a step: its output is validated, then the end persisted.     *)

Valid ==
  CASE Doing("implement") -> Implemented
    [] Doing("repair") -> Repaired(journal[Step].tips)
    [] Doing("review") -> Reviewed
    [] Doing("collect") -> Reviewed
    [] Doing("gate") -> GateInputs
    [] OTHER -> TRUE

Dispatched == CASE ctl.exit = "ok" -> "completed"
                [] ctl.exit = "unknown" -> "unknown"
                [] OTHER -> "failed"

(* A blocking review, like a failed check of the gate, is a failure of the *)
(* code; any other failure stops the run.                                  *)
CodeFailed == ctl.exit = "code" \/ (Doing("collect") /\ ctl.exit = "ok" /\ Valid /\ ctl.read = "fail")

Finish ==
  /\ In("finish")
  /\ LET good == ctl.exit = "ok" /\ Valid /\ ~CodeFailed
         collected == IF Doing("collect") /\ ctl.exit = "ok" /\ Valid THEN ctl.read ELSE ctl.collected
     IN /\ journal' = [journal EXCEPT ![Step].dispatch = Dispatched,
                                       ![Step].end = IF good THEN "completed" ELSE "failed"]
        /\ ctl' = CASE good -> Onward([Taking(Step, NoRecord) EXCEPT !.collected = collected])
                    [] CodeFailed -> [ctl EXCEPT !.pc = "fix", !.exit = "none", !.read = "none",
                                              !.collected = collected]
                    [] OTHER -> Idle
  /\ UNCHANGED <<gitSide, call, faults, files, seen, runs>>

(* The end of the integration.  Only merges that are complete, or a branch *)
(* that cannot be read, make a failure an unknown effect.                  *)
Integrated ==
  /\ In("integrating") /\ call.pc = "integrated"
  /\ LET record == [tips |-> call.taskTips, after |-> call.after]
     IN /\ journal' = [journal EXCEPT ![Step].end = "completed", ![Step].record = record]
        /\ ctl' = Onward(Taking(Step, record))
  /\ call' = I!NoCall
  /\ UNCHANGED <<gitSide, faults, files, seen, runs>>

NotIntegrated ==
  /\ In("integrating") /\ call.pc = "failed"
  /\ journal' = [journal EXCEPT ![Step].end = "failed",
                                 ![Step].unknown = call.merges # <<>> \/ call.unread]
  /\ IF call.why = "code" THEN ctl' = [ctl EXCEPT !.pc = "fix"] ELSE Stop
  /\ call' = I!NoCall
  /\ UNCHANGED <<gitSide, faults, files, seen, runs>>

-----------------------------------------------------------------------------
(* repairDecision: the fix command blames tasks for the failure and counts *)
(* the rounds they have had; its decision is kept as an artifact.          *)

Allowed == Min({MaxRounds, FixBudget})
FixId == StepId("fix", ctl.round)

Escalate ==
  /\ In("fix")
  /\ Starts(FixId, [Attempt EXCEPT !.end = "completed"])
  /\ Stop
  /\ UNCHANGED <<gitSide, call, faults, files, seen, runs>>

(* decideFix: no task is blamed that has had its rounds.                   *)
HasBudget(t) == fixRounds[t] < FixBudget

Retry ==
  /\ In("fix")
  /\ \E blamed \in SUBSET Tasks \ {{}} :
        LET plan == [t \in blamed |-> fixRounds[t] + 1] IN
        /\ \A t \in blamed : HasBudget(t)
        /\ Starts(FixId, [Attempt EXCEPT !.end = "completed", !.plan = plan])
        /\ ctl' = IF ctl.round < Allowed /\ \A t \in blamed : plan[t] <= Allowed
                  THEN [Invocation(ctl.round + 1, plan)
                          EXCEPT !.taskTips = ctl.taskTips, !.collected = ctl.collected]
                  ELSE Idle
  /\ UNCHANGED <<gitSide, call, faults, files, seen, runs>>

-----------------------------------------------------------------------------
(* resumeWorkflowProfile, which is also how the run begins: the round is   *)
(* the last one that was recorded or repaired, its plan that of the fix    *)
(* decision before it.                                                     *)

PriorRound == Max({0} \cup {id.round : id \in {x \in DOMAIN journal : x.name \in {"record", "repair"}}})
PriorPlan == journal[StepId("fix", PriorRound - 1)].plan

Resume ==
  /\ In("idle") /\ onBranch /\ runs < MaxRuns
  /\ runs' = runs + 1
  /\ ctl' = Invocation(PriorRound, IF PriorRound = 0 THEN NoPlan ELSE PriorPlan)
  /\ UNCHANGED <<gitSide, call, faults, journal, files, seen>>

(* workflow-resolve: an operator says what became of an agent dispatch.    *)
Resolve ==
  /\ In("idle") /\ runs < MaxRuns
  /\ \E id \in DOMAIN journal, outcome \in {"not-started", "completed"} :
        /\ IsAgent(id) /\ journal[id].dispatch \in {"open", "unknown"}
        /\ journal' = [journal EXCEPT ![id].dispatch = outcome]
  /\ UNCHANGED <<gitSide, call, faults, ctl, files, seen, runs>>

(* The controller is killed; a git command it runs may still come to its   *)
(* end, or leave the checkout half merged.                                 *)
Crash ==
  /\ ~In("idle") /\ I!Spend /\ Stop /\ call' = I!NoCall
  /\ \/ UNCHANGED gitSide
     \/ /\ call.pc = "merge"
        /\ \/ I!MergeEffect /\ UNCHANGED clean
           \/ UNCHANGED branch /\ clean' = FALSE
        /\ UNCHANGED <<tips, onBranch>>
  /\ UNCHANGED <<journal, files, seen, runs>>

Outside == I!Outside /\ UNCHANGED <<ctl, journal, files, seen, runs>>

-----------------------------------------------------------------------------
Init ==
  /\ I!Init
  /\ ctl = Idle /\ journal = NoPlan
  /\ reviews = [stamp |-> NoTips, blocks |-> TRUE]
  /\ accepted = {} /\ fixRounds = NoTips
  /\ judged = {} /\ gated = {} /\ runs = 0

Next ==
  \/ Reuse \/ Block \/ Start
  \/ Agents \/ Reviewers \/ Collect \/ Gate \/ Record \/ Integrate \/ Integrating
  \/ Finish \/ Integrated \/ NotIntegrated \/ Escalate \/ Retry
  \/ Resume \/ Resolve \/ Crash \/ Outside

Spec == Init /\ [][Next]_vars

-----------------------------------------------------------------------------
TypeOK ==
  /\ I!TypeOK
  /\ judged \subseteq [Tasks -> 0..MaxTip] /\ gated \subseteq judged
  /\ fixRounds \in [Tasks -> 0..MaxRounds] /\ accepted \subseteq Tasks
  /\ runs \in 0..MaxRuns
  /\ call # I!NoCall => In("integrating")

(* What an integrated phase rests on, over crashes, resumes and repair     *)
(* rounds: some reviewer found nothing blocking in exactly the tips the    *)
(* record names, the gate passed on exactly them, and each of them is in   *)
(* the run branch at the record's commit (runPhase, priorDecision).        *)
PhaseProven ==
  /\ TypeOK
  /\ In("done") =>
    /\ ctl.record.tips \in judged \cap gated
    /\ \A t \in Tasks : I!Merged(ctl.record.after, t) = ctl.record.tips[t]

(* A killed record-fix-round or controller never costs a task a round: it  *)
(* has at most one round recorded for each round whose record step began,  *)
(* and when its repair is dispatched the round is on record (recordLanded, *)
(* priorRepairTasks).                                                      *)
RoundSpentOnce ==
  /\ \A t \in Tasks :
        fixRounds[t] <= Cardinality({r \in 1..MaxRounds : Started(RecordId(t, r))})
  /\ ~In("idle") /\ In("work") /\ Doing("repair") =>
        \A t \in DOMAIN ctl.plan : fixRounds[t] = ctl.plan[t]

CompleteIsTested == I!CompleteIsTested
ReceiptTells == I!ReceiptTells
=============================================================================
