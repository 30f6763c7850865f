---------------------------- MODULE Integration ----------------------------
(***************************************************************************)
(* The host gate and the reviewed integration of one phase                 *)
(* (scripts/reviewed-integration.mjs): executeGate merges the task         *)
(* branches in a preview, has the checks run and gives out a receipt;      *)
(* integrate merges the receipt's tips into the run branch one by one.     *)
(* Every git command is a step, and between two of them the task branches, *)
(* the run branch and the checkout may change: nothing locks them.         *)
(*                                                                         *)
(* A commit id is the history it ends, first parents only; a task branch   *)
(* is linear, and its tip is the number of its commits.                    *)
(***************************************************************************)
EXTENDS Integers, Sequences, SequencesExt, FiniteSetsExt

CONSTANTS
  Order,        (* the tasks of the phase, in the order of taskTips         *)
  MaxTip,       (* bound: commits of a task branch                          *)
  MaxFaults     (* bound: outside changes, killed commands and crashes      *)

Tasks == ToSet(Order)
NoTask == "other"

VARIABLES
  branch,       (* the run branch                                           *)
  tips,         (* the task branches                                        *)
  clean,        (* nothing is modified, staged or half merged in the root   *)
  onBranch,     (* HEAD of the root is the run branch                       *)
  call,         (* the running gate or integration                          *)
  faults

gitVars == <<branch, tips, clean, onBranch>>
vars == <<branch, tips, clean, onBranch, call, faults>>

Merge(t, v) == [task |-> t, tip |-> v]

(* The newest commit of t in a history: git merge-base of both.            *)
Merged(h, t) == Max({0} \cup {c.tip : c \in {x \in ToSet(h) : x.task = t}})

(* What the files of a history are: the tree of its last commit.           *)
Tree(h) == [merged |-> [t \in Tasks |-> Merged(h, t)],
            others |-> {c \in ToSet(h) : c.task = NoTask}]

(* The tree of the preview: h with the tips of the tasks merged.           *)
PreviewTree(h, at) ==
  [Tree(h) EXCEPT !.merged = [t \in Tasks |-> Max({@[t], at[t]})]]

NoCall == [pc |-> "none"]

(* The call and the receipt integrate fills: before and taskTips are the   *)
(* identity, after the last commit it knows of.  made, which no code      *)
(* keeps, are the tasks whose merge the run branch has taken.              *)
NewCall(at) ==
  [pc |-> "before-run", before |-> branch, taskTips |-> at, tree |-> Tree(branch),
   next |-> 1, tip |-> branch, merges |-> <<>>, pending |-> 0,
   made |-> {}, after |-> branch, unread |-> FALSE, why |-> "none"]

Spend == faults < MaxFaults /\ faults' = faults + 1

(* The phase is the current one until every task is merged.                *)
Open(h) == \E t \in Tasks : tips[t] > Merged(h, t)

Running == call.pc # "none"
At(pc) == call.pc = pc
Goto(pc) == call' = [call EXCEPT !.pc = pc]
Fails(why) == call' = [call EXCEPT !.pc = "failing", !.why = why]
Rejected(why) == call' = [call EXCEPT !.pc = "failed", !.why = why]

-----------------------------------------------------------------------------
Init ==
  /\ branch = <<>> /\ tips = [t \in Tasks |-> 0]
  /\ clean = TRUE /\ onBranch = TRUE
  /\ call = NoCall /\ faults = 0

(* runIntegration reads the run tip and calls the gate.                    *)
Begin(at) == ~Running /\ call' = NewCall(at) /\ UNCHANGED <<gitVars, faults>>

-----------------------------------------------------------------------------
(* snapshot: first the checkout and the run tip, then the task branches.   *)

RunTipHolds(h) == clean /\ branch = h

TaskTipsHold ==
  /\ tips = call.taskTips
  /\ \A t \in Tasks : call.taskTips[t] > Merged(call.before, t)

(* A snapshot from pc on: where it goes when all is as it was, and how a   *)
(* call fails otherwise.                                                   *)
SnapshotRun(pc, h, tasks, Fail(_)) ==
  /\ At(pc)
  /\ IF RunTipHolds(h) THEN Goto(tasks) ELSE Fail("moved")
  /\ UNCHANGED <<gitVars, faults>>

SnapshotTasks(pc, next, Fail(_)) ==
  /\ At(pc)
  /\ IF TaskTipsHold THEN Goto(next) ELSE Fail("moved")
  /\ UNCHANGED <<gitVars, faults>>

-----------------------------------------------------------------------------
(* executeGate.                                                            *)

GateBefore ==
  \/ SnapshotRun("before-run", call.before, "before-tasks", Rejected)
  \/ SnapshotTasks("before-tasks", "preview", Rejected) /\ Open(branch)

(* withMergePreview: the run branch and the task branches as they are now. *)
Preview ==
  /\ At("preview")
  /\ call' = [call EXCEPT !.pc = "checks", !.tree = PreviewTree(branch, tips)]
  /\ UNCHANGED <<gitVars, faults>>

(* The checks in the preview, and the review the controller answers for.   *)
Checks(reviewed) ==
  /\ At("checks")
  /\ \/ reviewed /\ Goto("after-run")
     \/ Rejected("code")
  /\ UNCHANGED <<gitVars, faults>>

GateAfter ==
  \/ SnapshotRun("after-run", call.before, "after-tasks", Rejected)
  \/ SnapshotTasks("after-tasks", "merge-run", Rejected)

-----------------------------------------------------------------------------
(* integrate: the merges of the receipt's tips.                            *)

Current == Order[call.next]

(* The snapshot before a merge is of the last merge made here.             *)
BeforeMerge ==
  \/ SnapshotRun("merge-run", call.tip, "merge-tasks", Fails)
  \/ SnapshotTasks("merge-tasks", "checkout", Fails)

Checkout ==
  /\ At("checkout") /\ onBranch' = TRUE
  /\ IF clean /\ branch = call.tip THEN Goto("merge") ELSE Fails("moved")
  /\ UNCHANGED <<branch, tips, clean, faults>>

(* git merge --no-ff of the tip, wherever HEAD is; a tip that is in the    *)
(* branch already is nothing to merge.                                     *)
MergeTakes == onBranch /\ Merged(branch, Current) < call.taskTips[Current]

MergeEffect ==
  branch' = IF MergeTakes THEN Append(branch, Merge(Current, call.taskTips[Current]))
            ELSE branch

(* A broken Merging: pending is set once git has answered, so a command    *)
(* that fails leaves no trace of what it was to do.                        *)
PendingTooLate(pc, took) ==
  [call EXCEPT !.pc = pc, !.pending = IF pc = "verify" THEN call.next ELSE @,
               !.made = IF took THEN @ \cup {call.next} ELSE @]

(* The call that has set pending, and has run the command: the branch took *)
(* the merge or did not.                                                   *)
Merging(pc, took) ==
  [call EXCEPT !.pc = pc, !.pending = call.next,
               !.made = IF took THEN @ \cup {call.next} ELSE @]

GitMerge ==
  /\ At("merge")
  /\ MergeEffect /\ call' = Merging("verify", MergeTakes)
  /\ UNCHANGED <<tips, clean, onBranch, faults>>

(* The command fails, or boundedIntegrationGit kills it after 30 s: before *)
(* it moved the branch, with the checkout half merged or not, or after.    *)
GitMergeFails ==
  /\ At("merge") /\ Spend
  /\ \/ UNCHANGED branch /\ clean' \in {clean, FALSE} /\ call' = [Merging("failing", FALSE) EXCEPT !.why = "git"]
     \/ MergeEffect /\ UNCHANGED clean /\ call' = [Merging("failing", MergeTakes) EXCEPT !.why = "git"]
  /\ UNCHANGED <<tips, onBranch>>

(* The merge is this one only if its parents are the old tip and the task. *)
ParentsHold(h) == h = Append(call.tip, Merge(Current, call.taskTips[Current]))

Verify ==
  /\ At("verify")
  /\ IF ParentsHold(branch)
     THEN call' = [call EXCEPT !.merges = Append(@, call.next), !.pending = 0,
                               !.after = branch, !.tip = branch, !.next = @ + 1,
                               !.pc = IF call.next < Len(Order) THEN "merge-run" ELSE "final-run"]
     ELSE Fails("moved")
  /\ UNCHANGED <<gitVars, faults>>

AfterMerges ==
  \/ SnapshotRun("final-run", call.tip, "final-tasks", Fails)
  \/ SnapshotTasks("final-tasks", "tree", Fails)

(* A broken TreeHolds: parents that hold are taken for enough.             *)
TreeUnread == TRUE

TreeHolds == Tree(call.tip) = call.tree

CompareTree ==
  /\ At("tree")
  /\ IF TreeHolds THEN Goto("integrated") ELSE Fails("moved")
  /\ UNCHANGED <<gitVars, faults>>

(* The handler of a failure reads the branch once more.                    *)
Fail ==
  /\ At("failing")
  /\ \/ call' = [call EXCEPT !.pc = "failed", !.after = branch] /\ UNCHANGED faults
     \/ call' = [call EXCEPT !.pc = "failed", !.unread = TRUE] /\ Spend
  /\ UNCHANGED gitVars

Working(reviewed) ==
  \/ GateBefore \/ Preview \/ Checks(reviewed) \/ GateAfter
  \/ BeforeMerge \/ Checkout \/ GitMerge \/ GitMergeFails \/ Verify
  \/ AfterMerges \/ CompareTree \/ Fail

-----------------------------------------------------------------------------
(* Other processes: a late agent or a person, in any branch or the root.   *)

TaskCommits(t) == tips[t] < MaxTip /\ tips' = [tips EXCEPT ![t] = @ + 1]
                  /\ UNCHANGED <<branch, clean, onBranch>>

TaskResets(t) == tips[t] > 1 /\ tips' = [tips EXCEPT ![t] = @ - 1]
                 /\ UNCHANGED <<branch, clean, onBranch>>

(* A commit of somebody else on the run branch, told apart by its number.  *)
OtherCommits == branch' = Append(branch, Merge(NoTask, faults))
                /\ UNCHANGED <<tips, clean, onBranch>>

BranchResets == Len(branch) > 0 /\ branch' = Front(branch)
                /\ UNCHANGED <<tips, clean, onBranch>>

(* Only a call looks at the checkout, so it need not change before one.    *)
RootChanges ==
  /\ Running
  /\ \/ clean' = ~clean /\ UNCHANGED onBranch
     \/ onBranch /\ onBranch' = FALSE /\ UNCHANGED clean
  /\ UNCHANGED <<branch, tips>>

Outside ==
  /\ Spend
  /\ \/ \E t \in Tasks : TaskCommits(t) \/ TaskResets(t)
     \/ OtherCommits \/ BranchResets \/ RootChanges
  /\ UNCHANGED call

-----------------------------------------------------------------------------
(* What a receipt says.                                                    *)

MergesOf(at, upto) == [i \in 1..upto |-> Merge(Order[i], at[Order[i]])]

(* An integration that is complete has put exactly the reviewed tips on    *)
(* top of the run tip it was given, in the plan's order, and its tree is   *)
(* the one the checks ran in, whatever moved in between (executeGate,      *)
(* integrate).                                                             *)
CompleteIsTested ==
  At("integrated") =>
    /\ call.after = call.before \o MergesOf(call.taskTips, Len(Order))
    /\ Tree(call.after) = call.tree

(* A failed integration tells what it did: whatever a merge command of it  *)
(* put on the run branch is among its merges or is the pending task, also  *)
(* when the command failed or was killed (receipt.merges and               *)
(* receipt.pending in integrate).                                          *)
ReceiptTells ==
  At("failed") => \A i \in call.made : i \in ToSet(call.merges) \/ i = call.pending

TypeOK ==
  /\ branch \in Seq([task : Tasks \cup {NoTask}, tip : Nat])
  /\ tips \in [Tasks -> 0..MaxTip]
  /\ clean \in BOOLEAN /\ onBranch \in BOOLEAN
  /\ faults \in 0..MaxFaults
  /\ call = NoCall \/
     /\ call.next \in 1..Len(Order) + 1 /\ call.pending \in 0..Len(Order)
     /\ call.merges \in Seq(1..Len(Order)) /\ call.unread \in BOOLEAN
     /\ call.tip \in Seq([task : Tasks \cup {NoTask}, tip : Nat])
=============================================================================
