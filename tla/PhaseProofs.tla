----------------------------- MODULE PhaseProofs -----------------------------
(***************************************************************************)
(* Theorems about modules Phase and Integration, for any tasks, budgets    *)
(* and number of runs and faults: a complete integration is what was       *)
(* tested and a failed one tells what it did; a phase that is done rests   *)
(* on a review and a gate of its very tips; a repair round is spent once.  *)
(***************************************************************************)
EXTENDS Phase, FiniteSetTheorems, WellFoundedInduction, TLAPS

-----------------------------------------------------------------------------
(* What the values are.                                                    *)

Tips == [Tasks -> 0..MaxTip]
Commits == [task : Tasks, tip : 0..MaxTip] \cup [task : {I!NoTask}, tip : Nat]
Histories == Seq(Commits)
Plans == UNION {[S -> 0..MaxRounds + 1] : S \in SUBSET Tasks}
Records == [tips : Tips, after : Histories]

Early == {"before-run", "before-tasks"}
Tested == {"preview", "checks", "after-run", "after-tasks"}
Merges == {"merge-run", "merge-tasks", "checkout", "merge"}
Final == {"final-run", "final-tasks", "tree", "integrated"}
CallPcs == Early \cup Tested \cup Merges \cup {"verify"} \cup Final \cup {"failing", "failed"}
Known == 1..Len(Order)

Calls == [pc : CallPcs, before : Histories, taskTips : Tips, tree : {call.tree},
          next : 1..Len(Order) + 1, tip : Histories, merges : Seq(Known),
          pending : 0..Len(Order), made : SUBSET Known, after : Histories,
          unread : BOOLEAN, why : {"none", "moved", "code", "git"}]

Ids == [name : {"implement", "repair", "review", "collect", "gate", "integrate", "fix"}, round : 0..MaxRounds]
       \cup [name : {"record"}, round : 0..MaxRounds, task : Tasks]
Attempts == [tips : Tips, run : Histories,
             dispatch : {"open", "completed", "failed", "unknown", "not-started"},
             end : {"none", "completed", "failed"}, unknown : BOOLEAN,
             plan : Plans, record : Records]

Pcs == {"choose", "work", "finish", "integrating", "fix", "done"}
Invocations == [pc : Pcs, round : 0..MaxRounds, plan : Plans, at : Nat \ {0},
                steps : {ctl.steps}, taskTips : Tips, collected : {"none", "pass", "fail"},
                read : {"none", "pass", "fail"},
                exit : {"none", "ok", "failed", "unknown", "code"}, record : Records]

-----------------------------------------------------------------------------
(* The integration.  Its call starts from the run tip it was given; the    *)
(* tips it merges are ahead of that once it looked; and the tip it goes by *)
(* is the merges made so far on top of it.                                 *)

GitInv ==
  /\ branch \in Histories /\ tips \in Tips /\ clean \in BOOLEAN /\ onBranch \in BOOLEAN
  /\ faults \in 0..MaxFaults

CallIs == call = I!NoCall \/ call \in Calls

Looked == call.pc \in Tested \cup Merges \cup {"verify"} \cup Final =>
  Order # <<>> /\ \A t \in Tasks : call.taskTips[t] > I!Merged(call.before, t)

Placed ==
  /\ call.pc \in Early \cup Tested => call.next = 1
  /\ call.pc \in Merges \cup {"verify"} => call.next <= Len(Order)
  /\ call.pc \in Final => call.next = Len(Order) + 1 /\ call.after = call.tip
  /\ call # I!NoCall => call.tip = call.before \o I!MergesOf(call.taskTips, call.next - 1)
  /\ call.pc = "integrated" => I!Tree(call.tip) = call.tree

Told ==
  /\ call.pc \in Early \cup Tested \cup Merges \cup Final => call.made \subseteq ToSet(call.merges)
  /\ call.pc = "verify" => call.pending = call.next
  /\ call # I!NoCall => call.made \subseteq ToSet(call.merges) \cup {call.pending}

CallInv == GitInv /\ CallIs /\ Looked /\ Placed /\ Told

-----------------------------------------------------------------------------
(* The controller.  It is at a step of its round: one of n records, the    *)
(* work, the review, its collection, the gate or the integration.          *)

Named == SetToSeq(DOMAIN ctl.plan)
N == Len(Named)
Active == ctl # Idle

ControllerIs ==
  /\ ctl = Idle \/ (ctl \in Invocations /\ ctl.steps = Steps(ctl.round, Named))
  /\ Active => ctl.at <= N + 6 /\ (ctl.pc = "done" <=> ctl.at = N + 6)
  /\ ctl.pc \in {"work", "finish", "integrating"} => Step \in DOMAIN journal
  /\ ctl.pc = "integrating" <=> call # I!NoCall
  /\ ctl.pc = "integrating" => ctl.at = N + 5 /\ call.taskTips = ctl.taskTips

FilesInv ==
  /\ reviews \in [stamp : Tips, blocks : BOOLEAN] /\ accepted \subseteq Tasks
  /\ runs \in 0..MaxRuns
  /\ judged \subseteq Tips /\ gated \subseteq judged
  /\ ~reviews.blocks => reviews.stamp \in judged

JournalIs == journal \in [DOMAIN journal -> Attempts] /\ DOMAIN journal \subseteq Ids

(* What was reviewed and gated: past the collection the tips the           *)
(* controller goes by were judged, past the gate they passed it.           *)
Proven(r) == r.tips \in gated /\ \A t \in Tasks : I!Merged(r.after, t) = r.tips[t]

StepInv ==
  /\ ctl.pc = "finish" /\ ctl.at = N + 3 /\ ctl.exit = "ok" =>
        ctl.read = IF reviews.blocks THEN "fail" ELSE "pass"
  /\ Active /\ ctl.pc # "fix" /\ ctl.at >= N + 4 => ctl.collected = "pass" /\ ctl.taskTips \in judged
  /\ ctl.pc = "finish" /\ ctl.at = N + 4 /\ ctl.exit = "ok" => ctl.taskTips \in gated
  /\ Active /\ ctl.pc # "fix" /\ ctl.at >= N + 5 => ctl.taskTips \in gated
  /\ ctl.pc = "finish" /\ ctl.at = N + 5 => ctl.exit # "ok"
  /\ ctl.pc = "done" => Proven(ctl.record)

(* The journal's integrations are as good.                                 *)
JournalProven ==
  \A id \in DOMAIN journal :
     id.name = "integrate" /\ journal[id].end = "completed" => Proven(journal[id].record)

-----------------------------------------------------------------------------
(* The rounds.  A repair round rests on the plan of the fix decision before*)
(* it, which names for each task one round more than have begun for it.    *)

RoundsIn(J, t) == {r \in 1..MaxRounds : RecordId(t, r) \in J}
RepairsIn(J) == {id \in J : id.name \in {"record", "repair"}}
PlanAt(j, round) == j[StepId("fix", round - 1)].plan

PlanFits(J, round, plan) ==
  \A t \in DOMAIN plan :
     plan[t] \in 1..MaxRounds /\ plan[t] <= Cardinality({r \in RoundsIn(J, t) : r < round}) + 1
(* Its rounds are recorded, or the next to be.                             *)
PlanRuns(spent, plan) == \A t \in DOMAIN plan : spent[t] \in {plan[t] - 1, plan[t]}

BegunIn(j, spent) == \A id \in RepairsIn(DOMAIN j) :
  /\ id.round >= 1 /\ StepId("fix", id.round - 1) \in DOMAIN j
  /\ PlanFits(DOMAIN j, id.round, PlanAt(j, id.round))
  /\ (\A other \in RepairsIn(DOMAIN j) : other.round <= id.round) =>
        PlanRuns(spent, PlanAt(j, id.round))

(* At most a round for each that began; a record step that ended well has  *)
(* its round in status.json.                                               *)
SpentIn(j, spent) ==
  /\ spent \in [Tasks -> 0..MaxRounds]
  /\ \A t \in Tasks : spent[t] <= Cardinality(RoundsIn(DOMAIN j, t))
  /\ \A id \in RepairsIn(DOMAIN j) : id.name = "record" /\ j[id].end = "completed" =>
        id.task \in DOMAIN PlanAt(j, id.round) /\ spent[id.task] >= PlanAt(j, id.round)[id.task]

Begun == BegunIn(journal, fixRounds)
Spent == SpentIn(journal, fixRounds)

RoundIs == Active =>
  /\ \A id \in RepairsIn(DOMAIN journal) : id.round <= ctl.round
  /\ ctl.round = 0 => ctl.plan = NoPlan
  /\ ctl.round # 0 =>
        /\ StepId("fix", ctl.round - 1) \in DOMAIN journal /\ ctl.plan = PlanAt(journal, ctl.round)
        /\ PlanFits(DOMAIN journal, ctl.round, ctl.plan) /\ PlanRuns(fixRounds, ctl.plan)

Recorded == Active =>
  /\ \A i \in 1..N : i < ctl.at => fixRounds[Named[i]] = ctl.plan[Named[i]]
  /\ ctl.pc = "work" /\ ctl.at <= N => fixRounds[Named[ctl.at]] < ctl.plan[Named[ctl.at]]
  /\ ctl.pc = "finish" /\ ctl.at <= N /\ ctl.exit = "ok" =>
        fixRounds[Named[ctl.at]] = ctl.plan[Named[ctl.at]]

(* What is so whoever runs, and what the running controller knows.         *)
Kept == CallInv /\ FilesInv /\ JournalIs /\ JournalProven /\ Begun /\ Spent
ControllerInv == ControllerIs /\ StepInv /\ RoundIs /\ Recorded
IInv == Kept /\ ControllerInv

-----------------------------------------------------------------------------
(* Facts about the values.                                                 *)

LEMMA MaxIs ==
  ASSUME NEW n \in Nat, NEW S \in SUBSET (0..n), S # {}
  PROVE  Max(S) \in S /\ \A y \in S : Max(S) >= y
  <1> DEFINE R == OpToRel(<, Nat)
             T == {u \in Nat : \A y \in S : u >= y}
  <1>1. IsWellFoundedOn(R, Nat)
    BY NatLessThanWellFounded
  <1>2. T \subseteq Nat /\ n \in T
    OBVIOUS
  <1>3. PICK m \in T : \A u \in T : ~ (<<u, m>> \in R)
    <2> HIDE DEF R, T
    <2> QED
      BY <1>1, <1>2, WFMin
  <1>4. \A u \in T : ~(u < m)
    BY <1>2, <1>3 DEF OpToRel
  <1>5. m \in S
    <2> SUFFICES ASSUME m \notin S PROVE FALSE
      OBVIOUS
    <2>1. m \in Nat /\ \A y \in S : y \in Nat /\ m > y
      OBVIOUS
    <2>2. m # 0
      <3>1. PICK y \in S : TRUE
        OBVIOUS
      <3>2. y >= 0
        OBVIOUS
      <3> QED
        BY <2>1, <3>1, <3>2
    <2>3. m - 1 \in Nat /\ \A y \in S : m - 1 >= y
      BY <2>1, <2>2
    <2> QED
      BY <1>4, <2>3
  <1> QED
    BY <1>5 DEF Max

LEMMA OrderIs ==
  /\ Order \in Seq(Tasks) /\ Len(Order) \in Nat
  /\ \A i \in Known : Order[i] \in Tasks
  /\ \A t \in Tasks : \E i \in Known : Order[i] = t
  /\ I!NoTask \notin Tasks
  <1>1. Tasks = {Order[i] : i \in DOMAIN Order} /\ ToSet(Order) = Tasks
    BY DEF Tasks, I!Tasks, I!ToSet, ToSet
  <1>2. Order \in Seq(Tasks) /\ Len(Order) \in Nat /\ DOMAIN Order = Known
    BY <1>1, OrderAssumption DEF Known
  <1> QED
    BY <1>1, <1>2, OrderAssumption DEF I!NoTask

(* The newest commit of a task in a history is one of it, or 0.            *)
LEMMA MergedIs ==
  ASSUME NEW h \in Histories, NEW t \in Tasks
  PROVE  /\ I!Merged(h, t) \in 0..MaxTip
         /\ \A i \in 1..Len(h) : h[i].task = t => h[i].tip <= I!Merged(h, t)
         /\ I!Merged(h, t) = 0 \/ \E i \in 1..Len(h) : h[i].task = t /\ h[i].tip = I!Merged(h, t)
  <1> DEFINE S == {0} \cup {c.tip : c \in {x \in ToSet(h) : x.task = t}}
  <1>1. \A i \in 1..Len(h) : h[i] \in Commits /\ (h[i].task = t => h[i].tip \in 0..MaxTip)
    BY OrderIs DEF Histories, Commits
  <1>2. ToSet(h) = {h[i] : i \in 1..Len(h)}
    BY DEF ToSet, Histories
  <1>3. S \subseteq 0..MaxTip
    BY <1>1, <1>2, TipAssumption
  <1>4. Max(S) \in S /\ \A y \in S : Max(S) >= y
    <2> HIDE DEF S
    <2>1. S # {}
      BY DEF S
    <2> QED
      BY <1>3, <2>1, MaxIs, TipAssumption
  <1>5. I!Merged(h, t) = Max(S)
    BY DEF I!Merged, I!Max, I!ToSet, Max, ToSet
  <1>6. \A i \in 1..Len(h) : h[i].task = t => h[i].tip \in S
    BY <1>2
  <1>7. \A y \in S : y = 0 \/ \E i \in 1..Len(h) : h[i].task = t /\ h[i].tip = y
    BY <1>2
  <1> HIDE DEF S
  <1>8. \A i \in 1..Len(h) : h[i].task = t => h[i].tip <= Max(S)
    BY <1>1, <1>3, <1>4, <1>6
  <1> QED
    BY <1>3, <1>4, <1>5, <1>7, <1>8

(* A tip above everything in a history is the newest once it is there.     *)
LEMMA MergedNew ==
  ASSUME NEW h \in Histories, NEW t \in Tasks, NEW v \in 0..MaxTip,
         \E i \in 1..Len(h) : h[i].task = t /\ h[i].tip = v,
         \A i \in 1..Len(h) : h[i].task = t => h[i].tip <= v
  PROVE  I!Merged(h, t) = v
  <1>1. /\ I!Merged(h, t) \in 0..MaxTip /\ v <= I!Merged(h, t)
        /\ I!Merged(h, t) = 0 \/ I!Merged(h, t) <= v
    BY MergedIs
  <1> QED
    BY <1>1, TipAssumption

LEMMA MergeIs ==
  ASSUME NEW t \in Tasks, NEW v \in 0..MaxTip
  PROVE  I!Merge(t, v) \in Commits /\ I!Merge(t, v).task = t /\ I!Merge(t, v).tip = v
  BY DEF I!Merge, Commits

LEMMA MergesOfIs ==
  ASSUME NEW at \in Tips, NEW n \in 0..Len(Order)
  PROVE  /\ I!MergesOf(at, n) \in Histories /\ Len(I!MergesOf(at, n)) = n
         /\ \A i \in 1..n : I!MergesOf(at, n)[i] = I!Merge(Order[i], at[Order[i]])
  <1>1. \A i \in 1..n : Order[i] \in Tasks /\ at[Order[i]] \in 0..MaxTip
    BY OrderIs DEF Tips, Known
  <1>2. \A i \in 1..n : I!Merge(Order[i], at[Order[i]]) \in Commits
    BY <1>1, MergeIs
  <1>3. I!MergesOf(at, n) = [i \in 1..n |-> I!Merge(Order[i], at[Order[i]])]
    BY DEF I!MergesOf
  <1>4. n \in Nat
    BY OrderIs
  <1> QED
    BY <1>2, <1>3, <1>4 DEF Histories

LEMMA Concatenated ==
  ASSUME NEW T, NEW g \in Seq(T), NEW h \in Seq(T)
  PROVE  /\ g \o h \in Seq(T) /\ Len(g \o h) = Len(g) + Len(h)
         /\ \A i \in 1..Len(g) + Len(h) : (g \o h)[i] = IF i <= Len(g) THEN g[i] ELSE h[i - Len(g)]
  OBVIOUS

LEMMA Joined ==
  ASSUME NEW g \in Histories, NEW h \in Histories
  PROVE  /\ g \o h \in Histories /\ Len(g \o h) = Len(g) + Len(h)
         /\ \A i \in 1..Len(g) + Len(h) : (g \o h)[i] = IF i <= Len(g) THEN g[i] ELSE h[i - Len(g)]
  BY DEF Histories

(* One more merge on top of n - 1.                                         *)
LEMMA MergesGrow ==
  ASSUME NEW h \in Histories, NEW at \in Tips, NEW n \in Known
  PROVE  Append(h \o I!MergesOf(at, n - 1), I!Merge(Order[n], at[Order[n]])) = h \o I!MergesOf(at, n)
  <1> DEFINE a == I!MergesOf(at, n - 1)
             b == I!MergesOf(at, n)
             m == I!Merge(Order[n], at[Order[n]])
  <1>1. n \in Nat /\ n - 1 \in 0..Len(Order) /\ n \in 0..Len(Order)
    BY OrderIs DEF Known
  <1>2. a \in Histories /\ Len(a) = n - 1 /\ \A i \in 1..n - 1 : a[i] = I!Merge(Order[i], at[Order[i]])
    BY <1>1, MergesOfIs
  <1>3. b \in Histories /\ Len(b) = n /\ \A i \in 1..n : b[i] = I!Merge(Order[i], at[Order[i]])
    BY <1>1, MergesOfIs
  <1>4. \A i \in 1..n - 1 : a[i] = b[i]
    BY <1>1, <1>2, <1>3
  <1>5. b[n] = m
    BY <1>1, <1>3
  <1> HIDE DEF a, b, m
  <1>6. /\ h \o a \in Histories /\ Len(h \o a) = Len(h) + (n - 1)
        /\ \A i \in 1..Len(h) + (n - 1) : (h \o a)[i] = IF i <= Len(h) THEN h[i] ELSE a[i - Len(h)]
    BY <1>2, Joined
  <1>7. /\ h \o b \in Histories /\ Len(h \o b) = Len(h) + n
        /\ \A i \in 1..Len(h) + n : (h \o b)[i] = IF i <= Len(h) THEN h[i] ELSE b[i - Len(h)]
    BY <1>3, Joined
  <1>8. Len(h) \in Nat
    BY DEF Histories
  <1> DEFINE g == h \o a
             f == h \o b
  <1> HIDE DEF g, f
  <1>9. /\ g \in Seq(Commits) /\ Len(g) = Len(h) + (n - 1)
        /\ f \in Seq(Commits) /\ Len(f) = Len(h) + n
    BY <1>6, <1>7 DEF g, f, Histories
  <1>10. \A i \in 1..Len(h) + (n - 1) : g[i] = f[i]
    <2> SUFFICES ASSUME NEW i \in 1..Len(h) + (n - 1) PROVE g[i] = f[i]
      OBVIOUS
    <2>1. CASE i <= Len(h)
      BY <1>1, <1>6, <1>7, <1>8, <2>1 DEF g, f
    <2>2. CASE ~(i <= Len(h))
      <3>1. i - Len(h) \in 1..n - 1
        BY <1>1, <1>8, <2>2
      <3>2. g[i] = a[i - Len(h)] /\ f[i] = b[i - Len(h)]
        BY <1>1, <1>6, <1>7, <1>8, <2>2 DEF g, f
      <3> QED
        BY <1>4, <3>1, <3>2
    <2> QED
      BY <2>1, <2>2
  <1>11. f[Len(h) + n] = m
    <2>1. Len(h) + n \in 1..Len(h) + n /\ ~(Len(h) + n <= Len(h)) /\ (Len(h) + n) - Len(h) = n
      BY <1>1, <1>8, OrderIs DEF Known
    <2> QED
      BY <1>5, <1>7, <2>1 DEF f
  <1>12. Append(g, m) = f
    BY <1>1, <1>8, <1>9, <1>10, <1>11
  <1> QED
    BY <1>12 DEF g, f, a, b, m

-----------------------------------------------------------------------------
(* The steps of the integration.                                           *)

SameCall ==
  /\ call'.before = call.before /\ call'.taskTips = call.taskTips /\ call'.tree = call.tree
  /\ call'.next = call.next /\ call'.tip = call.tip /\ call'.merges = call.merges
  /\ call'.pending = call.pending /\ call'.made = call.made /\ call'.after = call.after
GitStays == UNCHANGED <<branch, tips, clean, onBranch, faults>>

LEMMA GotoIs ==
  ASSUME call \in Calls, NEW p \in CallPcs, I!Goto(p)
  PROVE  SameCall /\ call'.pc = p /\ call' \in Calls' /\ call' # I!NoCall
  BY DEF Calls, I!Goto, SameCall, I!NoCall

LEMMA FailIs ==
  ASSUME call \in Calls, NEW w \in {"none", "moved", "code", "git"},
         I!Fails(w) \/ I!Rejected(w)
  PROVE  SameCall /\ call'.pc \in {"failing", "failed"} /\ call' \in Calls' /\ call' # I!NoCall
  BY DEF Calls, I!Fails, I!Rejected, SameCall, I!NoCall, CallPcs

LEMMA CallFields ==
  ASSUME call \in Calls
  PROVE  /\ call.pc \in CallPcs /\ call.before \in Histories /\ call.taskTips \in Tips
         /\ call.next \in 1..Len(Order) + 1 /\ call.tip \in Histories /\ call.merges \in Seq(Known)
         /\ call.pending \in 0..Len(Order) /\ call.made \subseteq Known /\ call.after \in Histories
         /\ call.unread \in BOOLEAN /\ call # I!NoCall /\ call.pc # "none"
  BY DEF Calls, CallPcs, I!NoCall, Early, Tested, Merges, Final

LEMMA Running ==
  ASSUME CallIs, call.pc # "none"
  PROVE  call \in Calls
  BY DEF CallIs, I!NoCall

(* The call goes to p: what it has to know there.                          *)
LEMMA PcKeeps ==
  ASSUME CallInv, call \in Calls, SameCall, call' \in Calls', call' # I!NoCall, GitInv',
         call'.pc \in Tested \cup Merges \cup Final =>
            Order # <<>> /\ \A t \in Tasks : call.taskTips[t] > I!Merged(call.before, t),
         call'.pc \in Early \cup Tested => call.next = 1,
         call'.pc \in Merges => call.next <= Len(Order),
         call'.pc \in Final => call.next = Len(Order) + 1 /\ call.after = call.tip,
         call'.pc \in Early \cup Tested \cup Merges \cup Final => call.made \subseteq ToSet(call.merges),
         call'.pc = "integrated" => I!Tree(call.tip) = call.tree,
         call'.pc # "verify"
  PROVE  CallInv'
  <1>1. GitInv' /\ CallIs'
    BY DEF CallIs
  <1>2. call # I!NoCall
    BY CallFields
  <1>3. Looked'
    BY DEF SameCall, Looked
  <1>4. Placed'
    BY <1>2 DEF SameCall, Placed, CallInv
  <1>5. Told'
    BY <1>2 DEF SameCall, Told, CallInv
  <1> QED
    BY <1>1, <1>3, <1>4, <1>5 DEF CallInv

(* A snapshot that fails ends the call, or leads to its failure.           *)
LEMMA FailKeeps ==
  ASSUME CallInv, call \in Calls, NEW w \in {"none", "moved", "code", "git"},
         I!Fails(w) \/ I!Rejected(w), GitInv'
  PROVE  CallInv'
  <1>1. /\ SameCall /\ call'.pc \in {"failing", "failed"} /\ call' \in Calls' /\ call' # I!NoCall
    BY FailIs
  <1>2. call'.pc \notin Early \cup Tested \cup Merges \cup Final \cup {"verify"}
    BY <1>1 DEF Early, Tested, Merges, Final
  <1> QED
    BY <1>1, <1>2, PcKeeps, Zenon DEF Final

(* Within a stage nothing more has to be known.                            *)
LEMMA StageKeeps ==
  ASSUME CallInv, call \in Calls, NEW p \in CallPcs, I!Goto(p), GitInv',
         \/ call.pc \in Early /\ p \in Early
         \/ call.pc \in Tested /\ p \in Tested
         \/ call.pc \in Merges /\ p \in Merges
         \/ call.pc \in Final /\ p \in Final \ {"integrated"}
  PROVE  CallInv'
  <1>1. /\ SameCall /\ call'.pc = p /\ call' \in Calls' /\ call' # I!NoCall
    BY GotoIs
  <1>2. /\ Looked /\ Placed /\ Told
    BY DEF CallInv
  <1>3. p # "verify"
    BY DEF Early, Tested, Merges, Final
  <1>4. CASE call.pc \in Early /\ p \in Early
    <2>1. p \notin Tested \cup Merges \cup Final
      BY <1>4 DEF Early, Tested, Merges, Final
    <2>2. call.next = 1 /\ call.made \subseteq ToSet(call.merges)
      BY <1>2, <1>4 DEF Placed, Told
    <2> QED
      BY <1>1, <1>3, <2>1, <2>2, PcKeeps DEF Final
  <1>5. CASE call.pc \in Tested /\ p \in Tested
    <2>1. p \notin Merges \cup Final
      BY <1>5 DEF Tested, Merges, Final
    <2>2. call.next = 1 /\ call.made \subseteq ToSet(call.merges)
      BY <1>2, <1>5 DEF Placed, Told
    <2>3. Order # <<>> /\ \A t \in Tasks : call.taskTips[t] > I!Merged(call.before, t)
      BY <1>2, <1>5 DEF Looked
    <2> QED
      BY <1>1, <1>3, <2>1, <2>2, <2>3, PcKeeps DEF Final
  <1>6. CASE call.pc \in Merges /\ p \in Merges
    <2>1. p \notin Early \cup Tested \cup Final
      BY <1>6 DEF Early, Tested, Merges, Final
    <2>2. call.next <= Len(Order) /\ call.made \subseteq ToSet(call.merges)
      BY <1>2, <1>6 DEF Placed, Told
    <2>3. Order # <<>> /\ \A t \in Tasks : call.taskTips[t] > I!Merged(call.before, t)
      BY <1>2, <1>6 DEF Looked
    <2> QED
      BY <1>1, <1>3, <2>1, <2>2, <2>3, PcKeeps DEF Final
  <1>7. CASE call.pc \in Final /\ p \in Final \ {"integrated"}
    <2>1. p \notin Early \cup Tested \cup Merges
      BY <1>7 DEF Early, Tested, Merges, Final
    <2>2. call.next = Len(Order) + 1 /\ call.after = call.tip /\ call.made \subseteq ToSet(call.merges)
      BY <1>2, <1>7 DEF Placed, Told
    <2>3. Order # <<>> /\ \A t \in Tasks : call.taskTips[t] > I!Merged(call.before, t)
      BY <1>2, <1>7 DEF Looked
    <2> QED
      BY <1>1, <1>3, <1>7, <2>1, <2>2, <2>3, PcKeeps
  <1> QED
    BY <1>4, <1>5, <1>6, <1>7

LEMMA GitKept ==
  ASSUME GitInv, GitStays
  PROVE  GitInv'
  BY DEF GitInv, GitStays

LEMMA GateBeforeKeeps ==
  ASSUME CallInv, I!GateBefore
  PROVE  CallInv'
  <1>1. call.pc \in {"before-run", "before-tasks"} /\ GitInv'
    <2>1. call.pc \in {"before-run", "before-tasks"} /\ GitStays
      BY DEF I!GateBefore, I!SnapshotRun, I!SnapshotTasks, I!At, GitStays, I!gitVars
    <2> QED
      BY <2>1, GitKept DEF CallInv
  <1>2. call \in Calls
    BY <1>1, Running DEF CallInv
  <1>3. CASE I!Rejected("moved")
    BY <1>1, <1>2, <1>3, FailKeeps
  <1>4. CASE call.pc = "before-run" /\ I!Goto("before-tasks")
    <2>1. "before-tasks" \in CallPcs /\ call.pc \in Early /\ "before-tasks" \in Early
      BY <1>4 DEF CallPcs, Early
    <2> QED
      BY <1>1, <1>2, <1>4, <2>1, StageKeeps
  <1>5. CASE call.pc = "before-tasks" /\ I!Goto("preview") /\ I!TaskTipsHold /\ I!Open(branch)
    <2>1. /\ SameCall /\ call'.pc = "preview" /\ call' \in Calls' /\ call' # I!NoCall
      <3>1. "preview" \in CallPcs
        BY DEF CallPcs, Tested
      <3> QED
        BY <1>2, <1>5, <3>1, GotoIs
    <2>2. \A t \in Tasks : call.taskTips[t] > I!Merged(call.before, t)
      BY <1>5 DEF I!TaskTipsHold, Tasks
    <2>3. Order # <<>>
      <3>1. Tasks # {}
        BY <1>5 DEF I!Open, Tasks
      <3> QED
        BY <3>1, OrderIs DEF Known
    <2>4. call.next = 1 /\ call.made \subseteq ToSet(call.merges)
      BY <1>5 DEF CallInv, Placed, Told, Early
    <2>5. call'.pc \notin Merges \cup Final \cup {"verify"} /\ call'.pc # "integrated"
      BY <2>1 DEF Merges, Final
    <2> QED
      BY <1>1, <1>2, <2>1, <2>2, <2>3, <2>4, <2>5, PcKeeps
  <1> QED
    BY <1>3, <1>4, <1>5 DEF I!GateBefore, I!SnapshotRun, I!SnapshotTasks, I!At

LEMMA PreviewKeeps ==
  ASSUME CallInv, I!Preview
  PROVE  CallInv'
  <1>1. call.pc = "preview" /\ GitStays /\ call' = [call EXCEPT !.pc = "checks", !.tree = I!PreviewTree(branch, tips)]
    BY DEF I!Preview, I!At, GitStays, I!gitVars
  <1>2. call \in Calls
    BY <1>1, Running DEF CallInv
  <1>3. /\ call'.before = call.before /\ call'.taskTips = call.taskTips
        /\ call'.next = call.next /\ call'.tip = call.tip /\ call'.merges = call.merges
        /\ call'.pending = call.pending /\ call'.made = call.made /\ call'.after = call.after
        /\ call'.pc = "checks" /\ call' \in Calls' /\ call' # I!NoCall
    BY <1>1, <1>2 DEF Calls, I!NoCall, CallPcs, Tested
  <1>4. call.pc \in Tested /\ call'.pc \in Tested
        /\ call'.pc \notin Merges \cup Final \cup {"verify", "integrated"}
    BY <1>1, <1>3 DEF Tested, Merges, Final
  <1>5. GitInv' /\ CallIs'
    BY <1>1, <1>3, GitKept DEF CallInv, CallIs
  <1>6. Looked'
    BY <1>3, <1>4 DEF CallInv, Looked
  <1>7. Placed'
    BY <1>2, <1>3, <1>4, CallFields DEF CallInv, Placed
  <1>8. Told'
    BY <1>2, <1>3, <1>4, CallFields DEF CallInv, Told
  <1> QED
    BY <1>5, <1>6, <1>7, <1>8 DEF CallInv

LEMMA ChecksKeeps ==
  ASSUME CallInv, NEW reviewed, I!Checks(reviewed)
  PROVE  CallInv'
  <1>1. call.pc = "checks" /\ GitStays /\ (I!Goto("after-run") \/ I!Rejected("code"))
    BY DEF I!Checks, I!At, GitStays, I!gitVars
  <1>2. call \in Calls /\ GitInv'
    BY <1>1, Running, GitKept DEF CallInv
  <1>3. CASE I!Rejected("code")
    BY <1>2, <1>3, FailKeeps
  <1>4. CASE I!Goto("after-run")
    <2>1. "after-run" \in CallPcs /\ call.pc \in Tested /\ "after-run" \in Tested
      BY <1>1 DEF CallPcs, Tested
    <2> QED
      BY <1>2, <1>4, <2>1, StageKeeps
  <1> QED
    BY <1>1, <1>3, <1>4

LEMMA GateAfterKeeps ==
  ASSUME CallInv, I!GateAfter
  PROVE  CallInv'
  <1>1. call.pc \in {"after-run", "after-tasks"} /\ GitStays
    BY DEF I!GateAfter, I!SnapshotRun, I!SnapshotTasks, I!At, GitStays, I!gitVars
  <1>2. call \in Calls /\ GitInv'
    BY <1>1, Running, GitKept DEF CallInv
  <1>3. CASE I!Rejected("moved")
    BY <1>2, <1>3, FailKeeps
  <1>4. CASE call.pc = "after-run" /\ I!Goto("after-tasks")
    <2>1. "after-tasks" \in CallPcs /\ call.pc \in Tested /\ "after-tasks" \in Tested
      BY <1>4 DEF CallPcs, Tested
    <2> QED
      BY <1>2, <1>4, <2>1, StageKeeps
  <1>5. CASE call.pc = "after-tasks" /\ I!Goto("merge-run")
    <2>1. /\ SameCall /\ call'.pc = "merge-run" /\ call' \in Calls' /\ call' # I!NoCall
      <3>1. "merge-run" \in CallPcs
        BY DEF CallPcs, Merges
      <3> QED
        BY <1>2, <1>5, <3>1, GotoIs
    <2>2. Order # <<>> /\ \A t \in Tasks : call.taskTips[t] > I!Merged(call.before, t)
      BY <1>5 DEF CallInv, Looked, Tested
    <2>3. call.next = 1 /\ call.made \subseteq ToSet(call.merges)
      BY <1>5 DEF CallInv, Placed, Told, Tested
    <2>4. 1 <= Len(Order)
      BY <2>2, OrderIs
    <2>5. call'.pc \notin Early \cup Tested \cup Final \cup {"verify", "integrated"}
      BY <2>1 DEF Early, Tested, Final
    <2> QED
      BY <1>2, <2>1, <2>2, <2>3, <2>4, <2>5, PcKeeps
  <1> QED
    BY <1>3, <1>4, <1>5 DEF I!GateAfter, I!SnapshotRun, I!SnapshotTasks, I!At

LEMMA BeforeMergeKeeps ==
  ASSUME CallInv, I!BeforeMerge
  PROVE  CallInv'
  <1>1. call.pc \in {"merge-run", "merge-tasks"} /\ GitStays
    BY DEF I!BeforeMerge, I!SnapshotRun, I!SnapshotTasks, I!At, GitStays, I!gitVars
  <1>2. call \in Calls /\ GitInv'
    BY <1>1, Running, GitKept DEF CallInv
  <1>3. I!Fails("moved") \/ I!Goto("merge-tasks") \/ I!Goto("checkout")
    BY DEF I!BeforeMerge, I!SnapshotRun, I!SnapshotTasks
  <1>4. call.pc \in Merges /\ {"merge-tasks", "checkout"} \subseteq Merges \cap CallPcs
    BY <1>1 DEF Merges, CallPcs
  <1>5. CASE I!Fails("moved")
    BY <1>2, <1>5, FailKeeps
  <1>6. CASE I!Goto("merge-tasks")
    BY <1>2, <1>4, <1>6, StageKeeps
  <1>7. CASE I!Goto("checkout")
    BY <1>2, <1>4, <1>7, StageKeeps
  <1> QED
    BY <1>3, <1>5, <1>6, <1>7

LEMMA CheckoutKeeps ==
  ASSUME CallInv, I!Checkout
  PROVE  CallInv'
  <1>1. call.pc = "checkout" /\ GitInv' /\ (I!Goto("merge") \/ I!Fails("moved"))
    BY DEF I!Checkout, I!At, CallInv, GitInv
  <1>2. call \in Calls
    BY <1>1, Running DEF CallInv
  <1>3. call.pc \in Merges /\ "merge" \in Merges /\ "merge" \in CallPcs
    BY <1>1 DEF Merges, CallPcs
  <1>4. CASE I!Goto("merge")
    BY <1>1, <1>2, <1>3, <1>4, StageKeeps
  <1>5. CASE I!Fails("moved")
    BY <1>1, <1>2, <1>5, FailKeeps
  <1> QED
    BY <1>1, <1>4, <1>5

LEMMA CurrentIs ==
  ASSUME CallInv, call.pc \in Merges \cup {"verify"}
  PROVE  /\ call \in Calls /\ call.next \in Known /\ I!Current = Order[call.next] /\ I!Current \in Tasks
         /\ call.taskTips[I!Current] \in 0..MaxTip
         /\ I!Merge(I!Current, call.taskTips[I!Current]) \in Commits
  <1>1. call \in Calls
    BY Running DEF CallInv, Merges
  <1>2. call.next \in Known
    BY <1>1, CallFields, OrderIs DEF CallInv, Placed, Known
  <1>3. I!Current = Order[call.next] /\ I!Current \in Tasks
    BY <1>2, OrderIs DEF I!Current
  <1>4. call.taskTips[I!Current] \in 0..MaxTip
    BY <1>1, <1>3, CallFields DEF Tips
  <1> QED
    BY <1>1, <1>2, <1>3, <1>4, MergeIs

LEMMA EffectIs ==
  ASSUME CallInv, call.pc \in Merges, I!MergeEffect
  PROVE  branch' \in Histories
  <1>1. I!Merge(I!Current, call.taskTips[I!Current]) \in Commits
    BY CurrentIs
  <1>2. branch \in Histories
    BY DEF CallInv, GitInv
  <1> DEFINE m == I!Merge(I!Current, call.taskTips[I!Current])
  <1>3. branch' = Append(branch, m) \/ branch' = branch
    BY DEF I!MergeEffect
  <1> HIDE DEF m
  <1>4. m \in Commits
    BY <1>1 DEF m
  <1> QED
    BY <1>2, <1>3, <1>4 DEF Histories

(* The command, whatever comes of it: the task is pending, and that its    *)
(* merge was made is the only other thing that can have changed.           *)
LEMMA MergingIs ==
  ASSUME CallInv, call.pc = "merge", NEW pc \in {"verify", "failing"}, NEW took \in BOOLEAN,
         NEW w \in {"none", "moved", "code", "git"},
         call' = [I!Merging(pc, took) EXCEPT !.why = w], GitInv'
  PROVE  CallInv'
  <1>1. call.pc \in Merges /\ call.pc \in Merges \cup {"verify"}
    BY DEF Merges
  <1>2. call \in Calls /\ call.next \in Known
    BY <1>1, CurrentIs
  <1>3. /\ call'.before = call.before /\ call'.taskTips = call.taskTips /\ call'.tree = call.tree
        /\ call'.next = call.next /\ call'.tip = call.tip /\ call'.merges = call.merges
        /\ call'.pending = call.next /\ call'.after = call.after /\ call'.pc = pc
        /\ call'.made = IF took THEN call.made \cup {call.next} ELSE call.made
        /\ call'.unread = call.unread /\ call'.why = w
    BY <1>2 DEF Calls, I!Merging
  <1>4. call' # I!NoCall /\ call'.pc \in CallPcs
        /\ pc \notin Early \cup Tested \cup Merges \cup Final \cup {"integrated"}
    BY <1>3 DEF I!NoCall, CallPcs, Early, Tested, Merges, Final
  <1>5. call'.made \subseteq Known
    BY <1>2, <1>3, CallFields
  <1>6. call' \in Calls'
    <2>1. call'.pending \in 0..Len(Order)
      BY <1>2, <1>3, OrderIs DEF Known
    <2>2. CASE took
      BY <1>2, <1>3, <1>4, <1>5, <2>1, <2>2 DEF Calls, I!Merging
    <2>3. CASE ~took
      BY <1>2, <1>3, <1>4, <1>5, <2>1, <2>3 DEF Calls, I!Merging
    <2> QED
      BY <2>2, <2>3
  <1>7. CallIs'
    BY <1>6 DEF CallIs
  <1>8. Order # <<>> /\ \A t \in Tasks : call.taskTips[t] > I!Merged(call.before, t)
    BY <1>1 DEF CallInv, Looked
  <1>9. Looked'
    BY <1>3, <1>8 DEF Looked
  <1>10. Placed'
    BY <1>1, <1>2, <1>3, <1>4, CallFields DEF CallInv, Placed
  <1>11. Told'
    BY <1>1, <1>2, <1>3, <1>4 DEF CallInv, Told
  <1> QED
    BY <1>7, <1>9, <1>10, <1>11 DEF CallInv

LEMMA GitMergeKeeps ==
  ASSUME CallInv, I!GitMerge
  PROVE  CallInv'
  <1>1. call.pc = "merge" /\ call.pc \in Merges
    BY DEF I!GitMerge, I!At, Merges
  <1>2. I!MergeTakes \in BOOLEAN
    BY DEF I!MergeTakes
  <1>3. GitInv'
    BY <1>1, EffectIs DEF I!GitMerge, CallInv, GitInv
  <1>4. call \in Calls
    BY <1>1, CurrentIs
  <1>5. call.why \in {"none", "moved", "code", "git"}
    BY <1>4 DEF Calls
  <1>6. call' = [I!Merging("verify", I!MergeTakes) EXCEPT !.why = call.why]
    BY <1>4 DEF I!GitMerge, I!Merging, Calls
  <1> QED
    BY <1>1, <1>2, <1>3, <1>5, <1>6, MergingIs

LEMMA GitMergeFailsKeeps ==
  ASSUME CallInv, I!GitMergeFails
  PROVE  CallInv'
  <1>1. call.pc = "merge" /\ call.pc \in Merges
    BY DEF I!GitMergeFails, I!At, Merges
  <1>2. I!MergeTakes \in BOOLEAN
    BY DEF I!MergeTakes
  <1>3. branch' \in Histories
    <2>1. CASE UNCHANGED branch
      BY <2>1 DEF CallInv, GitInv
    <2>2. CASE I!MergeEffect
      BY <1>1, <2>2, EffectIs
    <2> QED
      BY <2>1, <2>2 DEF I!GitMergeFails
  <1>4. faults' \in 0..MaxFaults
    BY TipAssumption DEF I!GitMergeFails, I!Spend, CallInv, GitInv
  <1>5. GitInv'
    BY <1>3, <1>4 DEF I!GitMergeFails, CallInv, GitInv
  <1>6. \/ call' = [I!Merging("failing", FALSE) EXCEPT !.why = "git"]
        \/ call' = [I!Merging("failing", I!MergeTakes) EXCEPT !.why = "git"]
    BY DEF I!GitMergeFails
  <1> QED
    BY <1>1, <1>2, <1>5, <1>6, MergingIs

LEMMA VerifyKeeps ==
  ASSUME CallInv, I!Verify
  PROVE  CallInv'
  <1>1. call.pc = "verify" /\ GitStays
    BY DEF I!Verify, I!At, GitStays, I!gitVars
  <1>2. call \in Calls /\ call.next \in Known /\ GitInv' /\ branch \in Histories
    BY <1>1, CurrentIs, GitKept DEF CallInv, GitInv
  <1>3. CASE I!Fails("moved")
    BY <1>2, <1>3, FailKeeps
  <1>4. CASE /\ I!ParentsHold(branch)
             /\ call' = [call EXCEPT !.merges = Append(call.merges, call.next), !.pending = 0,
                               !.after = branch, !.tip = branch, !.next = call.next + 1,
                               !.pc = IF call.next < Len(Order) THEN "merge-run" ELSE "final-run"]
    <2>1. /\ call'.before = call.before /\ call'.taskTips = call.taskTips /\ call'.tree = call.tree
          /\ call'.next = call.next + 1 /\ call'.tip = branch /\ call'.after = branch
          /\ call'.merges = Append(call.merges, call.next) /\ call'.pending = 0
          /\ call'.made = call.made /\ call'.unread = call.unread /\ call'.why = call.why
          /\ call'.pc = IF call.next < Len(Order) THEN "merge-run" ELSE "final-run"
      BY <1>2, <1>4 DEF Calls
    <2>2. call.next \in Nat /\ Len(Order) \in Nat /\ call.next <= Len(Order) /\ call.next >= 1
      BY <1>2, OrderIs DEF Known
    <2>3. /\ call'.pc \in {"merge-run", "final-run"} /\ call'.pc \in CallPcs /\ call' # I!NoCall
          /\ call'.pc \notin Early \cup Tested \cup {"verify", "integrated"}
          /\ call'.pc \in Merges => call.next < Len(Order)
          /\ call'.pc \in Final => call.next = Len(Order)
      BY <2>1, <2>2 DEF CallPcs, Early, Tested, Merges, Final, I!NoCall
    <2>4. call'.merges \in Seq(Known) /\ ToSet(call'.merges) = ToSet(call.merges) \cup {call.next}
      <3>1. call.merges \in Seq(Known)
        BY <1>2, CallFields
      <3> QED
        BY <1>2, <2>1, <3>1 DEF ToSet
    <2>5. call' \in Calls'
      <3>1. call'.next \in 1..Len(Order) + 1 /\ call'.pending \in 0..Len(Order)
        BY <2>1, <2>2
      <3> QED
        BY <1>2, <1>4, <2>1, <2>3, <2>4, <3>1 DEF Calls
    <2>6. CallIs'
      BY <2>5 DEF CallIs
    <2>7. Looked'
      BY <1>1, <2>1 DEF CallInv, Looked
    <2>8. branch = call.before \o I!MergesOf(call.taskTips, call.next)
      <3>1. call.tip = call.before \o I!MergesOf(call.taskTips, call.next - 1)
        BY <1>2, CallFields DEF CallInv, Placed
      <3>2. branch = Append(call.tip, I!Merge(Order[call.next], call.taskTips[Order[call.next]]))
        BY <1>4 DEF I!ParentsHold, I!Current
      <3> QED
        BY <1>2, <3>1, <3>2, CallFields, MergesGrow
    <2>9. Placed'
      <3>1. call'.next - 1 = call.next
        BY <2>1, <2>2
      <3>2. call'.tip = call'.before \o I!MergesOf(call'.taskTips, call'.next - 1)
        BY <2>1, <2>8, <3>1
      <3>3. call'.pc \in Merges => call'.next <= Len(Order)
        BY <2>1, <2>2, <2>3
      <3>4. call'.pc \in Final => call'.next = Len(Order) + 1 /\ call'.after = call'.tip
        BY <2>1, <2>2, <2>3
      <3> QED
        BY <2>3, <3>2, <3>3, <3>4 DEF Placed
    <2>10. Told'
      <3>1. call.made \subseteq ToSet(call.merges) \cup {call.next}
        BY <1>1, <1>2, CallFields DEF CallInv, Told
      <3> QED
        BY <2>1, <2>3, <2>4, <3>1 DEF Told
    <2> QED
      BY <1>2, <2>6, <2>7, <2>9, <2>10 DEF CallInv
  <1> QED
    BY <1>3, <1>4 DEF I!Verify

LEMMA AfterMergesKeeps ==
  ASSUME CallInv, I!AfterMerges
  PROVE  CallInv'
  <1>1. call.pc \in {"final-run", "final-tasks"} /\ GitStays
    BY DEF I!AfterMerges, I!SnapshotRun, I!SnapshotTasks, I!At, GitStays, I!gitVars
  <1>2. call \in Calls /\ GitInv'
    BY <1>1, Running, GitKept DEF CallInv
  <1>3. I!Fails("moved") \/ I!Goto("final-tasks") \/ I!Goto("tree")
    BY DEF I!AfterMerges, I!SnapshotRun, I!SnapshotTasks
  <1>4. call.pc \in Final /\ {"final-tasks", "tree"} \subseteq (Final \ {"integrated"}) \cap CallPcs
    BY <1>1 DEF Final, CallPcs
  <1>5. CASE I!Fails("moved")
    BY <1>2, <1>5, FailKeeps
  <1>6. CASE I!Goto("final-tasks")
    BY <1>2, <1>4, <1>6, StageKeeps
  <1>7. CASE I!Goto("tree")
    BY <1>2, <1>4, <1>7, StageKeeps
  <1> QED
    BY <1>3, <1>5, <1>6, <1>7

LEMMA CompareTreeKeeps ==
  ASSUME CallInv, I!CompareTree
  PROVE  CallInv'
  <1>1. call.pc = "tree" /\ GitStays
    BY DEF I!CompareTree, I!At, GitStays, I!gitVars
  <1>2. call \in Calls /\ GitInv'
    BY <1>1, Running, GitKept DEF CallInv
  <1>3. CASE I!Fails("moved")
    BY <1>2, <1>3, FailKeeps
  <1>4. CASE I!TreeHolds /\ I!Goto("integrated")
    <2>1. /\ SameCall /\ call'.pc = "integrated" /\ call' \in Calls' /\ call' # I!NoCall
      <3>1. "integrated" \in CallPcs
        BY DEF CallPcs, Final
      <3> QED
        BY <1>2, <1>4, <3>1, GotoIs
    <2>2. call.pc \in Final /\ call'.pc \notin Early \cup Tested \cup Merges \cup {"verify"}
      BY <1>1, <2>1 DEF Early, Tested, Merges, Final
    <2>3. Order # <<>> /\ \A t \in Tasks : call.taskTips[t] > I!Merged(call.before, t)
      BY <2>2 DEF CallInv, Looked
    <2>4. call.next = Len(Order) + 1 /\ call.after = call.tip
      BY <2>2 DEF CallInv, Placed
    <2>5. call.made \subseteq ToSet(call.merges)
      BY <2>2 DEF CallInv, Told
    <2>6. I!Tree(call.tip) = call.tree
      BY <1>4 DEF I!TreeHolds
    <2> QED
      BY <1>2, <2>1, <2>2, <2>3, <2>4, <2>5, <2>6, PcKeeps
  <1> QED
    BY <1>3, <1>4 DEF I!CompareTree

LEMMA FailingKeeps ==
  ASSUME CallInv, I!Fail
  PROVE  CallInv'
  <1>1. call.pc = "failing"
    BY DEF I!Fail, I!At
  <1>2. call \in Calls
    BY <1>1, Running DEF CallInv
  <1>3. GitInv'
    BY TipAssumption DEF I!Fail, I!Spend, I!gitVars, CallInv, GitInv
  <1>4. /\ call'.before = call.before /\ call'.taskTips = call.taskTips
        /\ call'.next = call.next /\ call'.tip = call.tip /\ call'.merges = call.merges
        /\ call'.pending = call.pending /\ call'.made = call.made /\ call'.pc = "failed"
    BY <1>2 DEF I!Fail, Calls
  <1>5. call' \in Calls' /\ call' # I!NoCall
    <2>1. branch \in Histories /\ "failed" \in CallPcs
      BY DEF CallInv, GitInv, CallPcs
    <2> QED
      BY <1>2, <2>1 DEF I!Fail, Calls, I!NoCall
  <1>6. call'.pc \notin Early \cup Tested \cup Merges \cup Final \cup {"verify", "integrated"}
    BY <1>4 DEF Early, Tested, Merges, Final
  <1>7. CallIs'
    BY <1>5 DEF CallIs
  <1>8. Looked'
    BY <1>6 DEF Looked
  <1>9. Placed'
    BY <1>2, <1>4, <1>6, CallFields DEF CallInv, Placed
  <1>10. Told'
    BY <1>2, <1>4, <1>6, CallFields DEF CallInv, Told
  <1> QED
    BY <1>3, <1>7, <1>8, <1>9, <1>10 DEF CallInv

LEMMA WorkingKeeps ==
  ASSUME CallInv, I!Working(ReviewHolds)
  PROVE  CallInv'
  BY GateBeforeKeeps, PreviewKeeps, ChecksKeeps, GateAfterKeeps, BeforeMergeKeeps, CheckoutKeeps,
     GitMergeKeeps, GitMergeFailsKeeps, VerifyKeeps, AfterMergesKeeps, CompareTreeKeeps, FailingKeeps
     DEF I!Working

LEMMA BeginsWell ==
  ASSUME CallInv, NEW at \in Tips, I!Begin(at)
  PROVE  CallInv' /\ call' \in Calls' /\ call'.taskTips = at
  <1>1. call' = I!NewCall(at) /\ GitStays
    BY DEF I!Begin, GitStays, I!gitVars
  <1>2. GitInv' /\ branch \in Histories
    BY <1>1, GitKept DEF CallInv, GitInv
  <1>3. /\ call'.pc = "before-run" /\ call'.before = branch /\ call'.taskTips = at
        /\ call'.next = 1 /\ call'.tip = branch /\ call'.merges = <<>> /\ call'.pending = 0
        /\ call'.made = {} /\ call'.after = branch
    BY <1>1 DEF I!NewCall
  <1>4. call'.pc \in Early /\ call'.pc \in CallPcs /\ call' # I!NoCall
        /\ call'.pc \notin Tested \cup Merges \cup Final \cup {"verify", "integrated"}
    BY <1>3 DEF CallPcs, Early, Tested, Merges, Final, I!NoCall
  <1>5. call' \in Calls'
    <2>1. 1 \in 1..Len(Order) + 1 /\ 0 \in 0..Len(Order) /\ <<>> \in Seq(Known) /\ {} \subseteq Known
      BY OrderIs
    <2> QED
      BY <1>1, <1>2, <1>4, <2>1 DEF Calls, I!NewCall
  <1>6. I!MergesOf(at, 0) = <<>>
    <2>1. I!MergesOf(at, 0) \in Histories /\ Len(I!MergesOf(at, 0)) = 0
      BY MergesOfIs, OrderIs
    <2> QED
      BY <2>1 DEF Histories
  <1>7. branch \o <<>> = branch
    BY <1>2 DEF Histories
  <1>8. Placed'
    <2>1. call'.next - 1 = 0
      BY <1>3
    <2>2. call'.tip = call'.before \o I!MergesOf(call'.taskTips, call'.next - 1)
      BY <1>3, <1>6, <1>7, <2>1
    <2> QED
      BY <1>3, <1>4, <2>2 DEF Placed
  <1>9. CallIs' /\ Looked' /\ Told'
    BY <1>3, <1>4, <1>5 DEF CallIs, Looked, Told
  <1> QED
    BY <1>2, <1>3, <1>5, <1>8, <1>9 DEF CallInv

(* A call that ends, or is killed, leaves only the branches to be known.   *)
LEMMA NoCallKeeps ==
  ASSUME call' = I!NoCall, GitInv'
  PROVE  CallInv'
  <1>1. call'.pc = "none"
    BY DEF I!NoCall
  <1>2. call'.pc \notin Early \cup Tested \cup Merges \cup Final \cup {"verify", "integrated"}
    BY <1>1 DEF Early, Tested, Merges, Final
  <1> QED
    BY <1>2 DEF CallInv, CallIs, Looked, Placed, Told

LEMMA SameCallKeeps ==
  ASSUME CallInv, UNCHANGED call, GitInv'
  PROVE  CallInv'
  BY DEF CallInv, CallIs, Calls, Looked, Placed, Told

LEMMA OutsideKeeps ==
  ASSUME CallInv, I!Outside
  PROVE  CallInv'
  <1>1. faults' \in 0..MaxFaults
    BY TipAssumption DEF I!Outside, I!Spend, CallInv, GitInv
  <1>2. branch \in Histories /\ tips \in Tips /\ clean \in BOOLEAN /\ onBranch \in BOOLEAN /\ faults \in Nat
    BY TipAssumption DEF CallInv, GitInv
  <1>3. ASSUME NEW t \in Tasks, I!TaskCommits(t) \/ I!TaskResets(t)
        PROVE  tips' \in Tips /\ UNCHANGED <<branch, clean, onBranch>>
    <2>1. tips[t] \in 0..MaxTip
      BY <1>2 DEF Tips
    <2>2. UNCHANGED <<branch, clean, onBranch>>
      BY <1>3 DEF I!TaskCommits, I!TaskResets
    <2>3. \E v \in 0..MaxTip : tips' = [tips EXCEPT ![t] = v]
      <3>1. CASE I!TaskCommits(t)
        <4>1. tips[t] + 1 \in 0..MaxTip /\ tips' = [tips EXCEPT ![t] = tips[t] + 1]
          BY <2>1, <3>1, TipAssumption DEF I!TaskCommits
        <4> QED
          BY <4>1
      <3>2. CASE I!TaskResets(t)
        <4>1. tips[t] - 1 \in 0..MaxTip /\ tips' = [tips EXCEPT ![t] = tips[t] - 1]
          BY <2>1, <3>2, TipAssumption DEF I!TaskResets
        <4> QED
          BY <4>1
      <3> QED
        BY <1>3, <3>1, <3>2
    <2>4. PICK v \in 0..MaxTip : tips' = [tips EXCEPT ![t] = v]
      BY <2>3
    <2>5. tips' \in Tips
      BY <1>2, <2>4 DEF Tips
    <2> QED
      BY <2>2, <2>5
  <1>4. ASSUME I!OtherCommits
        PROVE  branch' \in Histories /\ UNCHANGED <<tips, clean, onBranch>>
    <2> DEFINE m == I!Merge(I!NoTask, faults)
    <2>1. m \in Commits
      BY <1>2 DEF I!Merge, Commits
    <2>2. branch' = Append(branch, m) /\ UNCHANGED <<tips, clean, onBranch>>
      BY <1>4 DEF I!OtherCommits
    <2> HIDE DEF m
    <2> QED
      BY <1>2, <2>1, <2>2 DEF Histories
  <1>5. ASSUME I!BranchResets
        PROVE  branch' \in Histories /\ UNCHANGED <<tips, clean, onBranch>>
    <2>1. branch' = SubSeq(branch, 1, Len(branch) - 1) /\ Len(branch) > 0
          /\ UNCHANGED <<tips, clean, onBranch>>
      BY <1>5 DEF I!BranchResets, I!Front
    <2> QED
      BY <1>2, <2>1 DEF Histories
  <1>6. ASSUME I!RootChanges
        PROVE  clean' \in BOOLEAN /\ onBranch' \in BOOLEAN /\ UNCHANGED <<branch, tips>>
    BY <1>2, <1>6 DEF I!RootChanges
  <1>7. branch' \in Histories /\ tips' \in Tips /\ clean' \in BOOLEAN /\ onBranch' \in BOOLEAN
    <2>1. CASE \E t \in Tasks : I!TaskCommits(t) \/ I!TaskResets(t)
      BY <1>2, <1>3, <2>1
    <2>2. CASE I!OtherCommits
      BY <1>2, <1>4, <2>2
    <2>3. CASE I!BranchResets
      BY <1>2, <1>5, <2>3
    <2>4. CASE I!RootChanges
      BY <1>2, <1>6, <2>4
    <2> QED
      BY <2>1, <2>2, <2>3, <2>4 DEF I!Outside, Tasks
  <1>8. GitInv' /\ UNCHANGED call
    BY <1>1, <1>7 DEF GitInv, I!Outside
  <1> QED
    BY <1>8, SameCallKeeps

-----------------------------------------------------------------------------
(* What a receipt says.                                                    *)

LEMMA Complete ==
  ASSUME CallInv
  PROVE  CompleteIsTested
  <1> SUFFICES ASSUME call.pc = "integrated"
               PROVE  /\ call.after = call.before \o I!MergesOf(call.taskTips, Len(Order))
                      /\ I!Tree(call.after) = call.tree
    BY DEF CompleteIsTested, I!CompleteIsTested, I!At
  <1>1. call.pc \in Final /\ call # I!NoCall
    BY DEF Final, I!NoCall
  <1>2. /\ call.next = Len(Order) + 1 /\ call.after = call.tip
        /\ call.tip = call.before \o I!MergesOf(call.taskTips, call.next - 1)
        /\ I!Tree(call.tip) = call.tree
    BY <1>1 DEF CallInv, Placed
  <1>3. call.next - 1 = Len(Order)
    BY <1>2, OrderIs
  <1> QED
    BY <1>2, <1>3

LEMMA Tells ==
  ASSUME CallInv
  PROVE  ReceiptTells
  <1> SUFFICES ASSUME call.pc = "failed"
               PROVE  \A i \in call.made : i \in ToSet(call.merges) \/ i = call.pending
    BY DEF ReceiptTells, I!ReceiptTells, I!At, I!ToSet, ToSet
  <1>1. call # I!NoCall
    BY DEF I!NoCall
  <1> QED
    BY <1>1 DEF CallInv, Told

(* The task tips of a complete integration are what its history has of     *)
(* each task: the record rests on them.                                    *)
LEMMA CompleteHasTips ==
  ASSUME CallInv, call.pc = "integrated"
  PROVE  \A t \in Tasks : I!Merged(call.after, t) = call.taskTips[t]
  <1>1. call.pc \in Final /\ call \in Calls
    BY Running DEF Final, CallInv
  <1>2. call.after = call.before \o I!MergesOf(call.taskTips, Len(Order))
    BY Complete DEF CompleteIsTested, I!CompleteIsTested, I!At
  <1> SUFFICES ASSUME NEW t \in Tasks
               PROVE  I!Merged(call.after, t) = call.taskTips[t]
    OBVIOUS
  <1> DEFINE g == call.before
             m == I!MergesOf(call.taskTips, Len(Order))
             h == g \o m
             v == call.taskTips[t]
  <1>3. v \in 0..MaxTip /\ v > I!Merged(call.before, t) /\ I!Merged(call.before, t) \in 0..MaxTip
    BY <1>1, CallFields, MergedIs DEF Tips, CallInv, Looked
  <1>4. PICK k \in Known : Order[k] = t
    BY OrderIs
  <1>5. \A i \in Known : Order[i] = t => i = k
    <2>1. DOMAIN Order = Known
      BY OrderIs DEF Known
    <2> QED
      BY <1>4, <2>1, OrderAssumption DEF IsInjective
  <1>6. /\ m \in Histories /\ Len(m) = Len(Order)
        /\ \A i \in Known : m[i] = I!Merge(Order[i], call.taskTips[Order[i]])
    <2>1. Len(Order) \in 0..Len(Order) /\ call.taskTips \in Tips
      BY <1>1, CallFields, OrderIs
    <2> QED
      BY <2>1, MergesOfIs DEF Known
  <1> HIDE DEF m
  <1>7. \A i \in Known : m[i].task = Order[i] /\ m[i].tip = call.taskTips[Order[i]]
    <2> SUFFICES ASSUME NEW i \in Known
                 PROVE  m[i].task = Order[i] /\ m[i].tip = call.taskTips[Order[i]]
      OBVIOUS
    <2>1. Order[i] \in Tasks /\ call.taskTips[Order[i]] \in 0..MaxTip
      BY <1>1, CallFields, OrderIs DEF Tips
    <2>2. m[i] = I!Merge(Order[i], call.taskTips[Order[i]])
      BY <1>6
    <2> QED
      BY <2>1, <2>2, MergeIs
  <1>8. /\ h \in Histories /\ Len(h) = Len(g) + Len(m)
        /\ \A i \in 1..Len(g) + Len(m) : h[i] = IF i <= Len(g) THEN g[i] ELSE m[i - Len(g)]
    BY <1>1, <1>6, CallFields, Joined
  <1>9. Len(g) \in Nat /\ g \in Histories
    BY <1>1, CallFields DEF Histories
  <1> HIDE DEF h, g, v
  <1>10. \E i \in 1..Len(h) : h[i].task = t /\ h[i].tip = v
    <2>1. Len(g) + k \in 1..Len(h) /\ ~(Len(g) + k <= Len(g)) /\ (Len(g) + k) - Len(g) = k
      BY <1>4, <1>6, <1>8, <1>9, OrderIs DEF Known
    <2>2. h[Len(g) + k] = m[k]
      BY <1>8, <2>1
    <2> QED
      BY <1>4, <1>7, <2>1, <2>2 DEF v
  <1>11. ASSUME NEW i \in 1..Len(h), h[i].task = t PROVE h[i].tip <= v
    <2>1. CASE i <= Len(g)
      <3>1. h[i] = g[i] /\ i \in 1..Len(g)
        BY <1>8, <1>9, <2>1
      <3>2. g[i].tip <= I!Merged(g, t) /\ g[i] \in Commits
        BY <1>9, <1>11, <3>1, MergedIs DEF Histories
      <3>3. g[i].tip \in 0..MaxTip
        BY <1>11, <3>1, <3>2, OrderIs DEF Commits
      <3> QED
        BY <1>3, <3>1, <3>2, <3>3, TipAssumption DEF g, v
    <2>2. CASE ~(i <= Len(g))
      <3>1. h[i] = m[i - Len(g)] /\ i - Len(g) \in Known
        BY <1>6, <1>8, <1>9, <2>2, OrderIs DEF Known
      <3>2. h[i].tip = v
        BY <1>5, <1>7, <1>11, <3>1, <1>4 DEF v
      <3> QED
        BY <1>3, <3>2
    <2> QED
      BY <2>1, <2>2
  <1>12. I!Merged(h, t) = v
    BY <1>3, <1>8, <1>10, <1>11, MergedNew
  <1> QED
    BY <1>2, <1>12 DEF h, g, m, v

-----------------------------------------------------------------------------
(* The steps of a round.                                                   *)

LEMMA TasksAreFinite == IsFiniteSet(Tasks)
  <1>1. Order \in [Known -> Tasks] /\ \A t \in Tasks : \E i \in Known : Order[i] = t
    BY OrderIs DEF Known
  <1>2. Order \in Surjection(Known, Tasks)
    BY <1>1 DEF Surjection
  <1>3. IsFiniteSet(Known)
    BY OrderIs, FS_Interval DEF Known
  <1> QED
    BY <1>2, <1>3, FS_Surjection

LEMMA NamedOf ==
  ASSUME NEW plan \in Plans
  PROVE  /\ DOMAIN plan \subseteq Tasks /\ plan \in [DOMAIN plan -> 0..MaxRounds + 1]
         /\ SetToSeq(DOMAIN plan) \in Seq(DOMAIN plan) /\ Len(SetToSeq(DOMAIN plan)) \in Nat
         /\ \A t \in DOMAIN plan : \E i \in 1..Len(SetToSeq(DOMAIN plan)) : SetToSeq(DOMAIN plan)[i] = t
  <1> DEFINE D == DOMAIN plan
             f == SetToSeq(D)
             n == Cardinality(D)
  <1>1. D \subseteq Tasks /\ plan \in [D -> 0..MaxRounds + 1]
    BY DEF Plans
  <1>2. IsFiniteSet(D)
    BY <1>1, TasksAreFinite, FS_Subset
  <1>3. n \in Nat /\ ExistsBijection(1..n, D)
    BY <1>2, FS_CardinalityType
  <1>4. \E g \in [1..n -> D] : IsInjective(g)
    BY <1>3 DEF ExistsBijection, Bijection, Injection
  <1>5. f \in [1..n -> D] /\ IsInjective(f)
    BY <1>4 DEF SetToSeq
  <1>6. f \in Injection(1..n, D) /\ Cardinality(1..n) = n
    <2> HIDE DEF f
    <2> QED
      BY <1>3, <1>5, FS_Interval DEF Injection
  <1>7. f \in Surjection(1..n, D)
    <2> HIDE DEF f, n
    <2>1. Cardinality(1..n) = Cardinality(D)
      BY <1>6 DEF n
    <2> QED
      BY <1>2, <1>6, <2>1, FS_Injection
  <1> HIDE DEF f, n
  <1>8. \A t \in D : \E i \in 1..n : f[i] = t
    BY <1>7 DEF Surjection
  <1>9. f \in Seq(D) /\ Len(f) = n
    BY <1>3, <1>5
  <1> QED
    BY <1>1, <1>3, <1>8, <1>9 DEF f

LEMMA StepsAre ==
  ASSUME NEW round, NEW S, NEW named \in Seq(S)
  PROVE  LET s == Steps(round, named)
             n == Len(named)
         IN /\ Len(s) = n + 5
            /\ \A i \in 1..n : s[i] = RecordId(named[i], round)
            /\ s[n + 1] = StepId(IF round = 0 THEN "implement" ELSE "repair", round)
            /\ s[n + 2] = StepId("review", round)
            /\ s[n + 3] = StepId("collect", round)
            /\ s[n + 4] = StepId("gate", round)
            /\ s[n + 5] = StepId("integrate", round)
  <1> DEFINE n == Len(named)
             rest == <<IF round = 0 THEN "implement" ELSE "repair", "review", "collect", "gate", "integrate">>
             a == [i \in 1..n |-> RecordId(named[i], round)]
             b == [i \in 1..5 |-> StepId(rest[i], round)]
             T == {RecordId(named[i], round) : i \in 1..n} \cup {StepId(rest[i], round) : i \in 1..5}
  <1>1. n \in Nat /\ DOMAIN named = 1..n
    OBVIOUS
  <1>2. Steps(round, named) = a \o b
    BY <1>1 DEF Steps
  <1>3. a \in Seq(T) /\ Len(a) = n
    BY <1>1
  <1>4. b \in Seq(T) /\ Len(b) = 5
    OBVIOUS
  <1>5. /\ b[1] = StepId(IF round = 0 THEN "implement" ELSE "repair", round)
        /\ b[2] = StepId("review", round) /\ b[3] = StepId("collect", round)
        /\ b[4] = StepId("gate", round) /\ b[5] = StepId("integrate", round)
    OBVIOUS
  <1>6. \A i \in 1..n : a[i] = RecordId(named[i], round)
    OBVIOUS
  <1> HIDE DEF a, b, T, n
  <1>7. /\ Len(a \o b) = n + 5
        /\ \A i \in 1..n : (a \o b)[i] = a[i]
        /\ (a \o b)[n + 1] = b[1] /\ (a \o b)[n + 2] = b[2] /\ (a \o b)[n + 3] = b[3]
        /\ (a \o b)[n + 4] = b[4] /\ (a \o b)[n + 5] = b[5]
    <2>1. /\ Len(a \o b) = n + 5
          /\ \A i \in 1..n + 5 : (a \o b)[i] = IF i <= n THEN a[i] ELSE b[i - n]
      <3>1. /\ Len(a \o b) = Len(a) + Len(b)
            /\ \A i \in 1..Len(a) + Len(b) : (a \o b)[i] = IF i <= Len(a) THEN a[i] ELSE b[i - Len(a)]
        BY <1>3, <1>4, Concatenated
      <3> QED
        BY <1>3, <1>4, <3>1
    <2>2. ASSUME NEW k \in 1..5 PROVE (a \o b)[n + k] = b[k]
      <3>1. n + k \in 1..n + 5 /\ ~(n + k <= n) /\ (n + k) - n = k
        BY <1>1
      <3> QED
        BY <2>1, <3>1
    <2>3. \A i \in 1..n : i \in 1..n + 5 /\ i <= n
      BY <1>1
    <2>4. /\ (a \o b)[n + 1] = b[1] /\ (a \o b)[n + 2] = b[2] /\ (a \o b)[n + 3] = b[3]
          /\ (a \o b)[n + 4] = b[4] /\ (a \o b)[n + 5] = b[5]
      <3>1. 1 \in 1..5 /\ 2 \in 1..5 /\ 3 \in 1..5 /\ 4 \in 1..5 /\ 5 \in 1..5
        OBVIOUS
      <3> QED
        BY <2>2, <3>1, Zenon
    <2> QED
      BY <2>1, <2>3, <2>4
  <1> QED
    BY <1>2, <1>5, <1>6, <1>7 DEF n

LEMMA CtlFields ==
  ASSUME ControllerIs, Active
  PROVE  /\ ctl \in Invocations /\ ctl.steps = Steps(ctl.round, Named) /\ Len(ctl.steps) = N + 5
         /\ ctl.pc \in Pcs /\ ctl.round \in 0..MaxRounds /\ ctl.plan \in Plans /\ ctl.at \in Nat \ {0}
         /\ ctl.taskTips \in Tips /\ ctl.collected \in {"none", "pass", "fail"}
         /\ ctl.read \in {"none", "pass", "fail"} /\ ctl.record \in Records
         /\ ctl.exit \in {"none", "ok", "failed", "unknown", "code"}
         /\ DOMAIN ctl.plan \subseteq Tasks /\ ctl.plan \in [DOMAIN ctl.plan -> 0..MaxRounds + 1]
         /\ N \in Nat /\ Named \in Seq(DOMAIN ctl.plan)
         /\ \A i \in 1..N : Named[i] \in DOMAIN ctl.plan /\ Named[i] \in Tasks
         /\ \A t \in DOMAIN ctl.plan : \E i \in 1..N : Named[i] = t
         /\ ctl.at <= N + 6 /\ (ctl.pc = "done" <=> ctl.at = N + 6)
  <1>1. ctl \in Invocations /\ ctl.steps = Steps(ctl.round, Named)
    BY DEF ControllerIs, Active
  <1>2. /\ ctl.pc \in Pcs /\ ctl.round \in 0..MaxRounds /\ ctl.plan \in Plans /\ ctl.at \in Nat \ {0}
        /\ ctl.taskTips \in Tips /\ ctl.collected \in {"none", "pass", "fail"}
        /\ ctl.read \in {"none", "pass", "fail"} /\ ctl.record \in Records
        /\ ctl.exit \in {"none", "ok", "failed", "unknown", "code"}
    BY <1>1 DEF Invocations
  <1>3. /\ DOMAIN ctl.plan \subseteq Tasks /\ ctl.plan \in [DOMAIN ctl.plan -> 0..MaxRounds + 1]
        /\ N \in Nat /\ Named \in Seq(DOMAIN ctl.plan)
        /\ \A t \in DOMAIN ctl.plan : \E i \in 1..N : Named[i] = t
    BY <1>2, NamedOf DEF Named, N
  <1>4. Len(ctl.steps) = N + 5
    BY <1>1, <1>3, StepsAre DEF N
  <1>5. \A i \in 1..N : Named[i] \in DOMAIN ctl.plan /\ Named[i] \in Tasks
    <2>1. Named \in Seq(DOMAIN ctl.plan) /\ DOMAIN ctl.plan \subseteq Tasks
      BY <1>3
    <2> QED
      BY <2>1 DEF N
  <1>6. ctl.at <= N + 6 /\ (ctl.pc = "done" <=> ctl.at = N + 6)
    BY DEF ControllerIs
  <1> QED
    BY <1>1, <1>2, <1>3, <1>4, <1>5, <1>6

(* Which step it is tells how far the controller is.                       *)
LEMMA StepIs ==
  ASSUME ControllerIs, Active, ctl.pc # "done"
  PROVE  /\ ctl.at <= N + 5 /\ Step \in Ids /\ Step.round = ctl.round /\ Step.name # "fix"
         /\ ctl.at <= N => Step = RecordId(Named[ctl.at], ctl.round)
         /\ Step.name = "record" <=> ctl.at <= N
         /\ Step.name \in {"implement", "repair"} <=> ctl.at = N + 1
         /\ Step.name = "repair" => ctl.round # 0
         /\ Step.name = "review" <=> ctl.at = N + 2
         /\ Step.name = "collect" <=> ctl.at = N + 3
         /\ Step.name = "gate" <=> ctl.at = N + 4
         /\ Step.name = "integrate" <=> ctl.at = N + 5
  <1>1. /\ ctl.steps = Steps(ctl.round, Named) /\ ctl.round \in 0..MaxRounds
        /\ N \in Nat /\ ctl.at \in Nat \ {0} /\ ctl.at <= N + 5 /\ Named \in Seq(DOMAIN ctl.plan)
        /\ \A i \in 1..N : Named[i] \in DOMAIN ctl.plan /\ Named[i] \in Tasks
    BY CtlFields
  <1>2. /\ \A i \in 1..N : ctl.steps[i] = RecordId(Named[i], ctl.round)
        /\ ctl.steps[N + 1] = StepId(IF ctl.round = 0 THEN "implement" ELSE "repair", ctl.round)
        /\ ctl.steps[N + 2] = StepId("review", ctl.round)
        /\ ctl.steps[N + 3] = StepId("collect", ctl.round)
        /\ ctl.steps[N + 4] = StepId("gate", ctl.round)
        /\ ctl.steps[N + 5] = StepId("integrate", ctl.round)
    BY <1>1, StepsAre DEF N
  <1>3. CASE ctl.at <= N
    <2>1. ctl.at \in 1..N
      BY <1>1, <1>3
    <2>2. Step = RecordId(Named[ctl.at], ctl.round) /\ Named[ctl.at] \in Tasks
      BY <1>1, <1>2, <2>1 DEF Step
    <2> QED
      BY <1>1, <1>3, <2>2 DEF RecordId, Ids
  <1>4. CASE ~(ctl.at <= N)
    <2>1. ctl.at \in {N + 1, N + 2, N + 3, N + 4, N + 5}
      <3>1. N \in Nat /\ ctl.at \in Nat /\ ctl.at <= N + 5
        BY <1>1
      <3> QED
        BY <1>4, <3>1
    <2>2. CASE ctl.at = N + 1
      BY <1>1, <1>2, <2>2 DEF Step, StepId, Ids
    <2>3. CASE ctl.at = N + 2
      BY <1>1, <1>2, <2>3 DEF Step, StepId, Ids
    <2>4. CASE ctl.at = N + 3
      BY <1>1, <1>2, <2>4 DEF Step, StepId, Ids
    <2>5. CASE ctl.at = N + 4
      BY <1>1, <1>2, <2>5 DEF Step, StepId, Ids
    <2>6. CASE ctl.at = N + 5
      BY <1>1, <1>2, <2>6 DEF Step, StepId, Ids
    <2> QED
      BY <2>1, <2>2, <2>3, <2>4, <2>5, <2>6
  <1> QED
    BY <1>3, <1>4


-----------------------------------------------------------------------------
(* What is so whoever runs: the journal, the rounds and the files.         *)

Put(j, id, a) == [x \in DOMAIN j \cup {id} |-> IF x = id THEN a ELSE j[x]]

LEMMA PutIs ==
  ASSUME NEW j, j \in [DOMAIN j -> Attempts], DOMAIN j \subseteq Ids, NEW id \in Ids, NEW a \in Attempts
  PROVE  /\ DOMAIN Put(j, id, a) = DOMAIN j \cup {id} /\ DOMAIN Put(j, id, a) \subseteq Ids
         /\ Put(j, id, a) \in [DOMAIN Put(j, id, a) -> Attempts]
         /\ Put(j, id, a)[id] = a
         /\ \A x \in DOMAIN j : x # id => Put(j, id, a)[x] = j[x]
  BY DEF Put

LEMMA AllowedIs == Allowed \in Nat /\ Allowed <= MaxRounds /\ Allowed <= FixBudget
  <1>1. \E x \in {MaxRounds, FixBudget} : \A y \in {MaxRounds, FixBudget} : x <= y
    BY BudgetAssumption
  <1> QED
    BY <1>1, BudgetAssumption DEF Allowed, Min

LEMMA RoundsAreFinite ==
  ASSUME NEW S \in SUBSET (1..MaxRounds)
  PROVE  IsFiniteSet(S) /\ Cardinality(S) \in Nat
  <1>1. IsFiniteSet(1..MaxRounds)
    BY FS_Interval, BudgetAssumption
  <1> QED
    BY <1>1, FS_Subset, FS_CardinalityType

LEMMA RoundsGrow ==
  ASSUME NEW S \in SUBSET (1..MaxRounds), NEW T \in SUBSET S
  PROVE  Cardinality(T) <= Cardinality(S) /\ Cardinality(T) \in Nat /\ Cardinality(S) \in Nat
  <1>1. T \in SUBSET (1..MaxRounds)
    OBVIOUS
  <1> QED
    BY <1>1, RoundsAreFinite, FS_Subset

LEMMA FitsGrows ==
  ASSUME NEW J, NEW K, J \subseteq K, NEW round \in 0..MaxRounds, NEW plan \in Plans,
         PlanFits(J, round, plan)
  PROVE  PlanFits(K, round, plan)
  <1> SUFFICES ASSUME NEW t \in DOMAIN plan
               PROVE  plan[t] \in 1..MaxRounds
                      /\ plan[t] <= Cardinality({r \in RoundsIn(K, t) : r < round}) + 1
    BY DEF PlanFits
  <1> DEFINE S == {r \in RoundsIn(K, t) : r < round}
             T == {r \in RoundsIn(J, t) : r < round}
  <1>1. S \in SUBSET (1..MaxRounds) /\ T \in SUBSET S
    BY DEF RoundsIn
  <1>2. plan[t] \in 1..MaxRounds /\ plan[t] <= Cardinality(T) + 1
    BY DEF PlanFits
  <1> HIDE DEF S, T
  <1>3. Cardinality(T) <= Cardinality(S) /\ Cardinality(T) \in Nat /\ Cardinality(S) \in Nat
    BY <1>1, RoundsGrow
  <1>4. plan[t] <= Cardinality(S) + 1
    BY <1>2, <1>3, BudgetAssumption
  <1> QED
    BY <1>2, <1>4 DEF S

(* A journal with one attempt put into it is still one of rounds that      *)
(* began as they must.                                                     *)
LEMMA BegunMoves ==
  ASSUME NEW j, j \in [DOMAIN j -> Attempts], DOMAIN j \subseteq Ids, NEW id \in Ids, NEW a \in Attempts,
         NEW spent, BegunIn(j, spent),
         id.name = "fix" => \A x \in RepairsIn(DOMAIN j) : x.round <= id.round,
         id.name \in {"record", "repair"} /\ id \notin DOMAIN j =>
            /\ id.round >= 1 /\ StepId("fix", id.round - 1) \in DOMAIN j
            /\ PlanFits(DOMAIN j, id.round, PlanAt(j, id.round))
            /\ PlanRuns(spent, PlanAt(j, id.round))
  PROVE  BegunIn(Put(j, id, a), spent)
  <1> DEFINE k == Put(j, id, a)
  <1>1. /\ DOMAIN k = DOMAIN j \cup {id} /\ DOMAIN k \subseteq Ids
        /\ k[id] = a /\ \A x \in DOMAIN j : x # id => k[x] = j[x]
    BY PutIs
  <1> HIDE DEF k
  <1> SUFFICES ASSUME NEW x \in RepairsIn(DOMAIN k)
               PROVE  /\ x.round >= 1 /\ StepId("fix", x.round - 1) \in DOMAIN k
                      /\ PlanFits(DOMAIN k, x.round, PlanAt(k, x.round))
                      /\ (\A other \in RepairsIn(DOMAIN k) : other.round <= x.round) =>
                            PlanRuns(spent, PlanAt(k, x.round))
    BY DEF BegunIn, k
  <1>2. RepairsIn(DOMAIN j) \subseteq RepairsIn(DOMAIN k)
    BY <1>1 DEF RepairsIn
  <1>3. x \in DOMAIN j \/ x = id
    BY <1>1 DEF RepairsIn
  <1>4. x.round \in 0..MaxRounds
    BY <1>1 DEF RepairsIn, Ids
  <1>5. /\ x.round >= 1 /\ StepId("fix", x.round - 1) \in DOMAIN j
        /\ PlanFits(DOMAIN j, x.round, PlanAt(j, x.round))
        /\ (\A other \in RepairsIn(DOMAIN k) : other.round <= x.round) =>
              PlanRuns(spent, PlanAt(j, x.round))
    <2>1. CASE x \in DOMAIN j
      <3>1. x \in RepairsIn(DOMAIN j)
        BY <2>1 DEF RepairsIn
      <3> QED
        BY <1>2, <3>1 DEF BegunIn
    <2>2. CASE x \notin DOMAIN j
      <3>1. x = id /\ id.name \in {"record", "repair"} /\ id \notin DOMAIN j
        BY <1>3, <2>2 DEF RepairsIn
      <3> QED
        BY <3>1
    <2> QED
      BY <2>1, <2>2
  <1>6. StepId("fix", x.round - 1) # id
    <2> SUFFICES ASSUME StepId("fix", x.round - 1) = id PROVE FALSE
      OBVIOUS
    <2>1. id.name = "fix" /\ id.round = x.round - 1
      BY DEF StepId
    <2>2. x # id
      BY <2>1 DEF RepairsIn
    <2>3. x \in RepairsIn(DOMAIN j)
      BY <1>3, <2>2 DEF RepairsIn
    <2> QED
      BY <1>4, <2>1, <2>3, BudgetAssumption
  <1>7. PlanAt(k, x.round) = PlanAt(j, x.round)
    BY <1>1, <1>5, <1>6 DEF PlanAt
  <1>8. PlanAt(j, x.round) \in Plans
    BY <1>5 DEF PlanAt, Attempts
  <1>9. PlanFits(DOMAIN k, x.round, PlanAt(k, x.round))
    BY <1>1, <1>4, <1>5, <1>7, <1>8, FitsGrows
  <1> QED
    BY <1>1, <1>5, <1>7, <1>9

LEMMA SpentMoves ==
  ASSUME NEW j, j \in [DOMAIN j -> Attempts], DOMAIN j \subseteq Ids, NEW id \in Ids, NEW a \in Attempts,
         NEW spent, BegunIn(j, spent), SpentIn(j, spent),
         id.name = "fix" => \A x \in RepairsIn(DOMAIN j) : x.round <= id.round,
         id.name = "record" /\ a.end = "completed" =>
            /\ StepId("fix", id.round - 1) \in DOMAIN j
            /\ id.task \in DOMAIN PlanAt(j, id.round) /\ spent[id.task] >= PlanAt(j, id.round)[id.task]
  PROVE  SpentIn(Put(j, id, a), spent)
  <1> DEFINE k == Put(j, id, a)
  <1>1. /\ DOMAIN k = DOMAIN j \cup {id} /\ DOMAIN k \subseteq Ids
        /\ k[id] = a /\ \A x \in DOMAIN j : x # id => k[x] = j[x]
    BY PutIs
  <1> HIDE DEF k
  <1>2. ASSUME NEW t \in Tasks PROVE spent[t] <= Cardinality(RoundsIn(DOMAIN k, t))
    <2> DEFINE S == RoundsIn(DOMAIN k, t)
               T == RoundsIn(DOMAIN j, t)
    <2>1. S \in SUBSET (1..MaxRounds) /\ T \in SUBSET S
      BY <1>1 DEF RoundsIn
    <2>2. spent[t] \in 0..MaxRounds /\ spent[t] <= Cardinality(T)
      BY DEF SpentIn
    <2> HIDE DEF S, T
    <2>3. Cardinality(T) <= Cardinality(S) /\ Cardinality(T) \in Nat /\ Cardinality(S) \in Nat
      BY <2>1, RoundsGrow
    <2> QED
      BY <2>2, <2>3, BudgetAssumption DEF S
  <1>3. ASSUME NEW x \in RepairsIn(DOMAIN k), x.name = "record", k[x].end = "completed"
        PROVE  x.task \in DOMAIN PlanAt(k, x.round) /\ spent[x.task] >= PlanAt(k, x.round)[x.task]
    <2>1. x.round \in 0..MaxRounds /\ (x \in DOMAIN j \/ x = id)
      BY <1>1 DEF RepairsIn, Ids
    <2>2. /\ StepId("fix", x.round - 1) \in DOMAIN j
          /\ x.task \in DOMAIN PlanAt(j, x.round) /\ spent[x.task] >= PlanAt(j, x.round)[x.task]
      <3>1. CASE x = id
        BY <1>1, <1>3, <3>1
      <3>2. CASE x # id
        <4>1. x \in RepairsIn(DOMAIN j) /\ j[x].end = "completed"
          BY <1>1, <1>3, <2>1, <3>2 DEF RepairsIn
        <4> QED
          BY <1>3, <4>1 DEF SpentIn, BegunIn
      <3> QED
        BY <3>1, <3>2
    <2>3. StepId("fix", x.round - 1) # id
      <3> SUFFICES ASSUME StepId("fix", x.round - 1) = id PROVE FALSE
        OBVIOUS
      <3>1. id.name = "fix" /\ id.round = x.round - 1
        BY DEF StepId
      <3>2. x \in RepairsIn(DOMAIN j)
        BY <1>3, <2>1, <3>1 DEF RepairsIn
      <3> QED
        BY <2>1, <3>1, <3>2, BudgetAssumption
    <2>4. PlanAt(k, x.round) = PlanAt(j, x.round)
      BY <1>1, <2>2, <2>3 DEF PlanAt
    <2> QED
      BY <2>2, <2>4
  <1> QED
    BY <1>2, <1>3 DEF SpentIn, k

(* An attempt is put into the journal.                                     *)
LEMMA KeptMoves ==
  ASSUME Kept, CallInv', FilesInv', judged \subseteq judged', gated \subseteq gated', UNCHANGED fixRounds,
         NEW id \in Ids, NEW a \in Attempts, journal' = Put(journal, id, a),
         id.name = "integrate" /\ a.end = "completed" => Proven(a.record),
         id.name = "fix" => \A x \in RepairsIn(DOMAIN journal) : x.round <= id.round,
         id.name \in {"record", "repair"} /\ id \notin DOMAIN journal =>
            /\ id.round >= 1 /\ StepId("fix", id.round - 1) \in DOMAIN journal
            /\ PlanFits(DOMAIN journal, id.round, PlanAt(journal, id.round))
            /\ PlanRuns(fixRounds, PlanAt(journal, id.round)),
         id.name = "record" /\ a.end = "completed" =>
            /\ StepId("fix", id.round - 1) \in DOMAIN journal
            /\ id.task \in DOMAIN PlanAt(journal, id.round)
            /\ fixRounds[id.task] >= PlanAt(journal, id.round)[id.task]
  PROVE  Kept'
  <1>1. /\ journal \in [DOMAIN journal -> Attempts] /\ DOMAIN journal \subseteq Ids
        /\ BegunIn(journal, fixRounds) /\ SpentIn(journal, fixRounds)
    BY DEF Kept, JournalIs, Begun, Spent
  <1>2. /\ DOMAIN journal' = DOMAIN journal \cup {id} /\ DOMAIN journal' \subseteq Ids
        /\ journal' \in [DOMAIN journal' -> Attempts]
        /\ journal'[id] = a /\ \A x \in DOMAIN journal : x # id => journal'[x] = journal[x]
    <2> DEFINE k == Put(journal, id, a)
    <2>1. /\ DOMAIN k = DOMAIN journal \cup {id} /\ DOMAIN k \subseteq Ids /\ k \in [DOMAIN k -> Attempts]
          /\ k[id] = a /\ \A x \in DOMAIN journal : x # id => k[x] = journal[x]
      BY <1>1, PutIs
    <2>2. journal' = k
      OBVIOUS
    <2> HIDE DEF k
    <2> QED
      BY <2>1, <2>2
  <1>3. BegunIn(Put(journal, id, a), fixRounds)
    BY <1>1, BegunMoves
  <1>4. SpentIn(Put(journal, id, a), fixRounds)
    BY <1>1, SpentMoves
  <1>5. Begun' /\ Spent'
    BY <1>3, <1>4 DEF Begun, Spent
  <1>6. JournalIs'
    BY <1>2 DEF JournalIs
  <1>7. JournalProven'
    <2> SUFFICES ASSUME NEW x \in DOMAIN journal', x.name = "integrate", journal'[x].end = "completed"
                 PROVE  Proven(journal[x].record)'
      BY DEF JournalProven
    <2>1. Proven(journal'[x].record)
      <3>1. CASE x = id
        BY <1>2, <3>1
      <3>2. CASE x # id
        BY <1>2, <3>2 DEF Kept, JournalProven
      <3> QED
        BY <3>1, <3>2
    <2> QED
      BY <2>1 DEF Proven
  <1> QED
    BY <1>5, <1>6, <1>7 DEF Kept

LEMMA KeptStays ==
  ASSUME Kept, CallInv', FilesInv', judged \subseteq judged', gated \subseteq gated',
         UNCHANGED <<journal, fixRounds>>
  PROVE  Kept'
  <1>1. Begun' /\ Spent' /\ JournalIs'
    BY DEF Kept, Begun, Spent, JournalIs
  <1>2. JournalProven'
    BY DEF Kept, JournalProven, Proven
  <1> QED
    BY <1>1, <1>2 DEF Kept

-----------------------------------------------------------------------------
(* What the running controller knows.                                      *)

LEMMA Stops ==
  ASSUME Kept', ctl' = Idle, call' = I!NoCall
  PROVE  IInv'
  <1>1. ctl'.pc = "idle" /\ ~(Active)'
    BY DEF Idle, Active
  <1>2. ControllerIs' /\ StepInv' /\ RoundIs' /\ Recorded'
    BY <1>1 DEF ControllerIs, StepInv, RoundIs, Recorded
  <1> QED
    BY <1>2 DEF IInv, ControllerInv

(* The controller stays at its step.                                       *)
SamePlace ==
  /\ ctl'.round = ctl.round /\ ctl'.plan = ctl.plan
  /\ ctl'.at = ctl.at /\ ctl'.steps = ctl.steps

LEMMA SamePlaceIs ==
  ASSUME ControllerIs, Active, SamePlace, ctl' \in Invocations',
         ctl'.pc = "done" <=> ctl.pc = "done"
  PROVE  /\ Named' = Named /\ N' = N /\ Step' = Step /\ (Active)'
         /\ ctl'.steps = Steps(ctl'.round, Named') /\ ctl'.at <= N' + 6
         /\ (ctl'.pc = "done" <=> ctl'.at = N' + 6)
  <1>1. Named' = Named /\ N' = N /\ Step' = Step
    BY DEF SamePlace, Named, N, Step
  <1>2. (Active)'
    <2>1. ctl'.pc \in Pcs
      BY DEF Invocations
    <2> QED
      BY <2>1 DEF Active, Idle, Pcs
  <1> QED
    BY <1>1, <1>2, CtlFields DEF SamePlace

(* The round of the controller is still what it was.                       *)
LEMMA RoundStays ==
  ASSUME RoundIs, Active, (Active)', ctl \in Invocations, JournalIs,
         ctl'.round = ctl.round, ctl'.plan = ctl.plan,
         DOMAIN journal \subseteq DOMAIN journal',
         \A x \in DOMAIN journal : x.name = "fix" => journal'[x].plan = journal[x].plan,
         \A x \in RepairsIn(DOMAIN journal' \ DOMAIN journal) : x.round <= ctl.round,
         ctl.round # 0 => PlanRuns(fixRounds', ctl.plan)
  PROVE  RoundIs'
  <1>1. ctl.round \in 0..MaxRounds /\ ctl.plan \in Plans
    BY DEF Invocations
  <1>2. \A id \in RepairsIn(DOMAIN journal') : id.round <= ctl.round
    BY DEF RoundIs, RepairsIn
  <1>3. ASSUME ctl.round # 0
        PROVE  /\ StepId("fix", ctl.round - 1) \in DOMAIN journal'
               /\ ctl.plan = PlanAt(journal', ctl.round)
               /\ PlanFits(DOMAIN journal', ctl.round, ctl.plan)
    <2>1. /\ StepId("fix", ctl.round - 1) \in DOMAIN journal /\ ctl.plan = PlanAt(journal, ctl.round)
          /\ PlanFits(DOMAIN journal, ctl.round, ctl.plan)
      BY <1>3 DEF RoundIs
    <2>2. StepId("fix", ctl.round - 1).name = "fix"
      BY DEF StepId
    <2>3. PlanAt(journal', ctl.round) = PlanAt(journal, ctl.round)
      BY <2>1, <2>2 DEF PlanAt
    <2>4. PlanFits(DOMAIN journal', ctl.round, ctl.plan)
      BY <1>1, <2>1, FitsGrows
    <2> QED
      BY <2>1, <2>3, <2>4
  <1>4. ctl.round = 0 => ctl.plan = NoPlan
    BY DEF RoundIs
  <1> QED
    BY <1>2, <1>3, <1>4 DEF RoundIs

LEMMA Unspent ==
  ASSUME IInv, Active, UNCHANGED fixRounds
  PROVE  /\ ctl.round # 0 => PlanRuns(fixRounds', ctl.plan)
         /\ \A i \in 1..N : i < ctl.at => fixRounds'[Named[i]] = ctl.plan[Named[i]]
  <1>1. RoundIs /\ Recorded
    BY DEF IInv, ControllerInv
  <1>2. ctl.round # 0 => PlanRuns(fixRounds', ctl.plan)
    BY <1>1 DEF RoundIs
  <1>3. \A i \in 1..N : i < ctl.at => fixRounds'[Named[i]] = ctl.plan[Named[i]]
    BY <1>1 DEF Recorded
  <1> QED
    BY <1>2, <1>3

LEMMA CtlStays ==
  ASSUME IInv, Kept', UNCHANGED <<ctl, journal, fixRounds, reviews, judged, gated>>,
         call = I!NoCall <=> call' = I!NoCall,
         call # I!NoCall => call'.taskTips = call.taskTips
  PROVE  IInv'
  <1>1. ControllerIs /\ StepInv /\ RoundIs /\ Recorded
    BY DEF IInv, ControllerInv
  <1>2. Named' = Named /\ N' = N /\ Step' = Step /\ (Active)' = Active
    BY DEF Named, N, Step, Active
  <1>3. ControllerIs'
    <2>1. (ctl = Idle \/ (ctl \in Invocations /\ ctl.steps = Steps(ctl.round, Named)))'
      BY <1>1, <1>2 DEF ControllerIs, Invocations
    <2>2. (Active => ctl.at <= N + 6 /\ (ctl.pc = "done" <=> ctl.at = N + 6))'
      BY <1>1, <1>2 DEF ControllerIs
    <2>3. ctl.pc = "integrating" => call # I!NoCall
      BY <1>1 DEF ControllerIs
    <2> QED
      BY <1>1, <1>2, <2>1, <2>2, <2>3 DEF ControllerIs
  <1>4. StepInv'
    BY <1>1, <1>2 DEF StepInv, Proven
  <1>5. RoundIs'
    BY <1>1, <1>2 DEF RoundIs
  <1>6. Recorded'
    BY <1>1, <1>2 DEF Recorded
  <1> QED
    BY <1>3, <1>4, <1>5, <1>6 DEF IInv, ControllerInv

LEMMA MovesInPlace ==
  ASSUME IInv, Kept', Active, ctl.pc \notin {"done", "fix"}, SamePlace,
         ctl' \in Invocations', ctl'.pc # "done",
         ctl'.pc # "fix" => ctl'.collected = ctl.collected, ctl'.taskTips = ctl.taskTips,
         DOMAIN journal \subseteq DOMAIN journal',
         \A x \in DOMAIN journal : x.name = "fix" => journal'[x].plan = journal[x].plan,
         \A x \in RepairsIn(DOMAIN journal' \ DOMAIN journal) : x.round <= ctl.round,
         judged \subseteq judged', gated \subseteq gated',
         ctl'.pc \in {"work", "finish", "integrating"} => Step \in DOMAIN journal',
         ctl'.pc = "integrating" <=> call' # I!NoCall,
         ctl'.pc = "integrating" => ctl.at = N + 5 /\ call'.taskTips = ctl.taskTips,
         ctl'.pc = "finish" /\ ctl.at = N + 3 /\ ctl'.exit = "ok" =>
            ctl'.read = IF reviews'.blocks THEN "fail" ELSE "pass",
         ctl'.pc = "finish" /\ ctl.at = N + 4 /\ ctl'.exit = "ok" => ctl.taskTips \in gated',
         ctl'.pc = "finish" /\ ctl.at = N + 5 => ctl'.exit # "ok",
         ctl.round # 0 => PlanRuns(fixRounds', ctl.plan),
         \A i \in 1..N : i < ctl.at => fixRounds'[Named[i]] = ctl.plan[Named[i]],
         ctl'.pc = "work" /\ ctl.at <= N => fixRounds'[Named[ctl.at]] < ctl.plan[Named[ctl.at]],
         ctl'.pc = "finish" /\ ctl.at <= N /\ ctl'.exit = "ok" =>
            fixRounds'[Named[ctl.at]] = ctl.plan[Named[ctl.at]]
  PROVE  IInv'
  <1>1. ControllerIs /\ StepInv /\ RoundIs /\ Recorded /\ JournalIs
    BY DEF IInv, ControllerInv, Kept
  <1>2. /\ Named' = Named /\ N' = N /\ Step' = Step /\ (Active)'
        /\ ctl'.steps = Steps(ctl'.round, Named') /\ ctl'.at <= N' + 6
        /\ (ctl'.pc = "done" <=> ctl'.at = N' + 6)
    BY <1>1, SamePlaceIs
  <1>3. ctl \in Invocations /\ ctl.at \in Nat /\ N \in Nat
    BY <1>1, CtlFields
  <1>4. ControllerIs'
    BY <1>2 DEF ControllerIs, SamePlace
  <1>5. StepInv'
    <2>1. ctl'.pc # "fix" /\ ctl.at >= N + 4 => ctl'.collected = "pass" /\ ctl'.taskTips \in judged'
      BY <1>1 DEF StepInv
    <2>2. ctl'.pc # "fix" /\ ctl.at >= N + 5 => ctl'.taskTips \in gated'
      BY <1>1 DEF StepInv
    <2> QED
      BY <1>2, <2>1, <2>2 DEF StepInv, SamePlace
  <1>6. RoundIs'
    BY <1>1, <1>2, <1>3, RoundStays DEF SamePlace
  <1>7. Recorded'
    BY <1>2 DEF Recorded, SamePlace
  <1> QED
    BY <1>4, <1>5, <1>6, <1>7 DEF IInv, ControllerInv

LEMMA GoesOn ==
  ASSUME IInv, Kept', Active, ctl.pc # "done",
         ctl'.round = ctl.round, ctl'.plan = ctl.plan, ctl'.steps = ctl.steps, ctl'.at = ctl.at + 1,
         ctl' \in Invocations', ctl'.pc = IF ctl.at < N + 5 THEN "choose" ELSE "done",
         call' = I!NoCall, UNCHANGED fixRounds, DOMAIN journal' = DOMAIN journal,
         \A x \in DOMAIN journal : x.name = "fix" => journal'[x].plan = journal[x].plan,
         ctl.at + 1 >= N + 4 => ctl'.collected = "pass" /\ ctl'.taskTips \in judged',
         ctl.at + 1 >= N + 5 => ctl'.taskTips \in gated',
         ctl.at = N + 5 => Proven(ctl.record)',
         ctl.at <= N => fixRounds[Named[ctl.at]] = ctl.plan[Named[ctl.at]]
  PROVE  IInv'
  <1>1. ControllerIs /\ RoundIs /\ Recorded /\ JournalIs
    BY DEF IInv, ControllerInv, Kept
  <1>2. /\ ctl \in Invocations /\ ctl.at \in Nat /\ N \in Nat /\ ctl.at <= N + 5
        /\ ctl.steps = Steps(ctl.round, Named)
    BY <1>1, CtlFields, StepIs
  <1>3. Named' = Named /\ N' = N
    BY DEF Named, N
  <1>4. (Active)' /\ ctl'.pc \in {"choose", "done"}
    BY DEF Active, Idle
  <1>5. ctl'.at <= N' + 6 /\ (ctl'.pc = "done" <=> ctl'.at = N' + 6)
    BY <1>2, <1>3
  <1>6. ControllerIs'
    BY <1>2, <1>3, <1>4, <1>5 DEF ControllerIs
  <1>7. StepInv'
    <2>1. ctl'.pc = "done" => Proven(ctl.record)'
      BY <1>2, <1>3, <1>5
    <2> QED
      BY <1>3, <1>4, <2>1 DEF StepInv
  <1>8. RoundIs'
    <2>1. RepairsIn(DOMAIN journal' \ DOMAIN journal) = {}
      BY DEF RepairsIn
    <2>2. ctl.round # 0 => PlanRuns(fixRounds', ctl.plan)
      BY Unspent
    <2> QED
      BY <1>1, <1>2, <1>4, <2>1, <2>2, RoundStays
  <1>9. Recorded'
    <2>1. ASSUME NEW i \in 1..N, i < ctl.at + 1
          PROVE  fixRounds'[Named[i]] = ctl.plan[Named[i]]
      <3>1. CASE i < ctl.at
        BY <3>1, Unspent
      <3>2. CASE ~(i < ctl.at)
        <4>1. i = ctl.at /\ ctl.at <= N
          BY <1>2, <2>1, <3>2
        <4> QED
          BY <4>1
      <3> QED
        BY <3>1, <3>2
    <2> QED
      BY <1>3, <1>4, <2>1 DEF Recorded
  <1> QED
    BY <1>6, <1>7, <1>8, <1>9 DEF IInv, ControllerInv

LEMMA Enters ==
  ASSUME Kept', RoundIs', ctl' \in Invocations', call' = I!NoCall, ctl'.pc = "choose", ctl'.at = 1,
         ctl'.steps = Steps(ctl'.round, SetToSeq(DOMAIN ctl'.plan))
  PROVE  IInv'
  <1>1. N' \in Nat /\ Named' = SetToSeq(DOMAIN ctl'.plan)
    <2>1. ctl'.plan \in Plans
      BY DEF Invocations
    <2> QED
      BY <2>1, NamedOf DEF N, Named
  <1>2. 1 <= N' + 6 /\ ~(1 = N' + 6) /\ ~(1 >= N' + 4) /\ ~(1 >= N' + 5) /\ ~(1 >= N' + 3)
    <2> DEFINE n == N'
    <2>1. n \in Nat
      BY <1>1
    <2> HIDE DEF n
    <2>2. 1 <= n + 6 /\ ~(1 = n + 6) /\ ~(1 >= n + 4) /\ ~(1 >= n + 5) /\ ~(1 >= n + 3)
      BY <2>1
    <2> QED
      BY <2>2 DEF n
  <1>3. ControllerIs'
    BY <1>1, <1>2 DEF ControllerIs
  <1>4. StepInv'
    BY <1>2 DEF StepInv
  <1>5. Recorded'
    BY <1>1 DEF Recorded
  <1> QED
    BY <1>3, <1>4, <1>5 DEF IInv, ControllerInv

-----------------------------------------------------------------------------
(* The steps of the controller.                                            *)

LEMMA Acting ==
  ASSUME IInv, ctl.pc \in Pcs
  PROVE  /\ Active /\ ControllerIs /\ StepInv /\ RoundIs /\ Recorded /\ Kept
         /\ CallInv /\ FilesInv /\ JournalIs /\ JournalProven /\ Begun /\ Spent
         /\ ctl.pc # "integrating" => call = I!NoCall
  BY DEF IInv, ControllerInv, Kept, Active, Idle, Pcs, ControllerIs

LEMMA FrameKeeps ==
  ASSUME CallInv, UNCHANGED <<gitSide, call, faults>>
  PROVE  CallInv'
  <1>1. GitStays
    BY DEF GitStays, gitSide
  <1>2. GitInv'
    BY <1>1, GitKept DEF CallInv
  <1> QED
    BY <1>2, SameCallKeeps

LEMMA FilesStay ==
  ASSUME FilesInv, UNCHANGED <<reviews, accepted, judged, gated, runs>>
  PROVE  FilesInv'
  BY DEF FilesInv

LEMMA BlockKeeps ==
  ASSUME IInv, Block
  PROVE  IInv'
  <1>1. ctl.pc \in Pcs /\ ctl.pc # "integrating" /\ ctl' = Idle
    BY DEF Block, In, Stop, Pcs
  <1>2. /\ UNCHANGED <<gitSide, call, faults>> /\ UNCHANGED <<journal, fixRounds>>
        /\ UNCHANGED <<reviews, accepted, judged, gated, runs>>
    BY DEF Block, files, seen
  <1>3. Kept'
    BY <1>1, <1>2, Acting, FrameKeeps, FilesStay, KeptStays
  <1> QED
    BY <1>1, <1>2, <1>3, Acting, Stops

LEMMA AttemptIs ==
  ASSUME CallInv
  PROVE  /\ Attempt \in Attempts /\ Attempt.end = "none"
         /\ NoPlan \in Plans /\ NoRecord \in Records /\ DOMAIN NoPlan = {}
  <1>1. NoPlan \in Plans /\ DOMAIN NoPlan = {}
    BY DEF NoPlan, Plans
  <1>2. NoRecord \in Records
    BY TipAssumption DEF NoRecord, Records, NoTips, Tips, Histories
  <1>3. Attempt \in Attempts /\ Attempt.end = "none"
    BY <1>1, <1>2 DEF Attempt, Attempts, CallInv, GitInv
  <1> QED
    BY <1>1, <1>2, <1>3

(* A record or repair step is one of a repair round.                       *)
LEMMA Repairing ==
  ASSUME IInv, Active, ctl.pc # "done", Step.name \in {"record", "repair"}
  PROVE  /\ ctl.round \in 1..MaxRounds /\ StepId("fix", ctl.round - 1) \in DOMAIN journal
         /\ ctl.plan = PlanAt(journal, ctl.round)
         /\ PlanFits(DOMAIN journal, ctl.round, ctl.plan) /\ PlanRuns(fixRounds, ctl.plan)
  <1>1. ControllerIs /\ RoundIs
    BY DEF IInv, ControllerInv
  <1>2. ctl.round # 0
    <2>1. CASE Step.name = "repair"
      BY <1>1, <2>1, StepIs
    <2>2. CASE Step.name = "record"
      <3>1. ctl.at \in 1..N
        BY <1>1, <2>2, StepIs, CtlFields
      <3>2. Named[ctl.at] \in DOMAIN ctl.plan
        BY <1>1, <3>1, CtlFields
      <3>3. DOMAIN NoPlan = {}
        BY DEF NoPlan
      <3> QED
        BY <1>1, <3>2, <3>3 DEF RoundIs
    <2> QED
      BY <2>1, <2>2
  <1>3. ctl.round \in 0..MaxRounds
    BY <1>1, CtlFields
  <1> QED
    BY <1>1, <1>2, <1>3, BudgetAssumption DEF RoundIs

LEMMA StartKeeps ==
  ASSUME IInv, Start
  PROVE  IInv'
  <1>1. /\ ctl.pc = "choose" /\ ctl.pc \in Pcs /\ Choice(Step) = "run"
        /\ ctl' = [ctl EXCEPT !.pc = "work"] /\ journal' = Put(journal, Step, Attempt)
    BY DEF Start, In, Starts, Put, Pcs
  <1>2. /\ UNCHANGED <<gitSide, call, faults>> /\ UNCHANGED fixRounds
        /\ UNCHANGED <<reviews, accepted, judged, gated, runs>>
    BY DEF Start, files, seen
  <1>3. /\ Active /\ ControllerIs /\ RoundIs /\ Kept /\ JournalIs /\ call = I!NoCall
        /\ CallInv /\ FilesInv
    BY <1>1, Acting
  <1>4. Attempt \in Attempts /\ Attempt.end = "none"
    BY <1>3, AttemptIs
  <1>5. Step \in Ids /\ Step.round = ctl.round /\ Step.name # "fix" /\ ctl.at <= N + 5
    BY <1>1, <1>3, StepIs
  <1>6. Kept'
    <2>1. Step.name \in {"record", "repair"} =>
            /\ Step.round >= 1 /\ StepId("fix", Step.round - 1) \in DOMAIN journal
            /\ PlanFits(DOMAIN journal, Step.round, PlanAt(journal, Step.round))
            /\ PlanRuns(fixRounds, PlanAt(journal, Step.round))
      BY <1>1, <1>3, <1>5, Repairing
    <2>2. CallInv' /\ FilesInv' /\ judged \subseteq judged' /\ gated \subseteq gated'
      BY <1>2, <1>3, FrameKeeps, FilesStay
    <2> QED
      BY <1>1, <1>2, <1>3, <1>4, <1>5, <2>1, <2>2, KeptMoves
  <1>7. DOMAIN journal' = DOMAIN journal \cup {Step} /\ \A x \in DOMAIN journal : x # Step => journal'[x] = journal[x]
    BY <1>1 DEF Put
  <1>8. /\ ctl \in Invocations /\ N \in Nat /\ ctl.at \in Nat
    BY <1>3, CtlFields
  <1>9. /\ SamePlace /\ ctl'.pc = "work" /\ ctl'.collected = ctl.collected /\ ctl'.taskTips = ctl.taskTips
        /\ ctl' \in Invocations'
    BY <1>1, <1>8 DEF SamePlace, Invocations, Pcs
  <1>10. ASSUME ctl.at <= N PROVE fixRounds'[Named[ctl.at]] < ctl.plan[Named[ctl.at]]
    <2>1. Step = RecordId(Named[ctl.at], ctl.round)
      BY <1>1, <1>3, <1>10, StepIs
    <2>2. Step.name = "record" /\ Step.task = Named[ctl.at]
      BY <2>1 DEF RecordId
    <2>3. ~RecordLanded(Step)
      BY <1>1, <2>2 DEF Choice
    <2>4. ctl.at \in 1..N
      BY <1>8, <1>10, <1>3, CtlFields
    <2>5. Named[ctl.at] \in DOMAIN ctl.plan
      BY <1>3, <2>4, CtlFields
    <2>6. ctl.plan[Named[ctl.at]] \in Nat /\ fixRounds[Named[ctl.at]] \in Int
      <3>1. ctl.plan[Named[ctl.at]] \in 1..MaxRounds
        BY <1>1, <1>3, <2>2, <2>5, Repairing DEF PlanFits
      <3>2. Named[ctl.at] \in Tasks /\ fixRounds \in [Tasks -> 0..MaxRounds]
        BY <1>3, <2>4, CtlFields DEF Kept, Spent, SpentIn
      <3> QED
        BY <3>1, <3>2, BudgetAssumption
    <2> QED
      BY <1>2, <2>2, <2>3, <2>6 DEF RecordLanded
  <1>11. /\ ctl.round # 0 => PlanRuns(fixRounds', ctl.plan)
         /\ \A i \in 1..N : i < ctl.at => fixRounds'[Named[i]] = ctl.plan[Named[i]]
    BY <1>2, <1>3, Unspent
  <1>12. \A x \in DOMAIN journal : x.name = "fix" => journal'[x].plan = journal[x].plan
    BY <1>5, <1>7
  <1>13. \A x \in RepairsIn(DOMAIN journal' \ DOMAIN journal) : x.round <= ctl.round
    <2>1. \A x \in RepairsIn(DOMAIN journal' \ DOMAIN journal) : x = Step
      BY <1>7 DEF RepairsIn
    <2>2. ctl.round <= ctl.round
      BY <1>3, CtlFields, BudgetAssumption
    <2> QED
      BY <1>5, <2>1, <2>2
  <1>14. judged \subseteq judged' /\ gated \subseteq gated' /\ call' = I!NoCall
    BY <1>2, <1>3
  <1> QED
    BY <1>1, <1>3, <1>6, <1>7, <1>9, <1>10, <1>11, <1>12, <1>13, <1>14, MovesInPlace

LEMMA OnwardIs ==
  ASSUME ControllerIs, Active, NEW c \in Invocations, ctl' = Onward(c)
  PROVE  /\ ctl' \in Invocations' /\ ctl'.round = c.round /\ ctl'.plan = c.plan /\ ctl'.steps = ctl.steps
         /\ ctl'.at = c.at + 1 /\ ctl'.pc = IF c.at < N + 5 THEN "choose" ELSE "done"
         /\ ctl'.collected = c.collected /\ ctl'.taskTips = c.taskTips /\ ctl'.record = c.record
  <1>1. c.steps = ctl.steps /\ Len(ctl.steps) = N + 5 /\ c.at \in Nat \ {0}
    BY CtlFields DEF Invocations
  <1>2. c.at + 1 \in Nat \ {0}
    BY <1>1
  <1>3. CASE c.at < Len(c.steps)
    BY <1>1, <1>2, <1>3 DEF Onward, Invocations, Pcs
  <1>4. CASE ~(c.at < Len(c.steps))
    BY <1>1, <1>2, <1>4 DEF Onward, Invocations, Pcs
  <1> QED
    BY <1>3, <1>4

LEMMA TakingIs ==
  ASSUME ctl \in Invocations, CallInv, NEW id, NEW r \in Records
  PROVE  /\ Taking(id, r) \in Invocations /\ Taking(id, r).round = ctl.round
         /\ Taking(id, r).plan = ctl.plan /\ Taking(id, r).at = ctl.at
         /\ Taking(id, r).collected = ctl.collected
         /\ id.name = "integrate" => Taking(id, r).record = r /\ Taking(id, r).taskTips = r.tips
         /\ id.name \notin {"implement", "repair", "integrate"} => Taking(id, r) = ctl
  <1>1. tips \in Tips /\ r.tips \in Tips
    BY DEF CallInv, GitInv, Records
  <1>2. CASE id.name \in {"implement", "repair"}
    BY <1>1, <1>2 DEF Taking, Invocations
  <1>3. CASE id.name = "integrate"
    BY <1>1, <1>3 DEF Taking, Invocations
  <1>4. CASE id.name \notin {"implement", "repair", "integrate"}
    BY <1>4 DEF Taking
  <1> QED
    BY <1>2, <1>3, <1>4

(* A record step is only passed over once its round is in status.json.     *)
LEMMA PassedOver ==
  ASSUME IInv, ctl.pc = "choose", Choice(Step) = "reuse", ctl.at <= N
  PROVE  fixRounds[Named[ctl.at]] = ctl.plan[Named[ctl.at]]
  <1>1. /\ Active /\ ControllerIs /\ RoundIs /\ Kept /\ JournalIs /\ Spent
    BY Acting DEF Pcs
  <1> DEFINE t == Named[ctl.at]
  <1>2. Step = RecordId(t, ctl.round)
    BY <1>1, StepIs
  <1>3. Step.name = "record" /\ Step.task = t /\ Step.round = ctl.round
    BY <1>2 DEF RecordId
  <1>4. ctl.at \in 1..N
    BY <1>1, CtlFields
  <1>5. t \in DOMAIN ctl.plan /\ t \in Tasks
    BY <1>1, <1>4, CtlFields
  <1>6. /\ ctl.plan = PlanAt(journal, ctl.round)
        /\ PlanFits(DOMAIN journal, ctl.round, ctl.plan) /\ PlanRuns(fixRounds, ctl.plan)
    BY <1>1, <1>3, Repairing
  <1>7. ctl.plan[t] \in 1..MaxRounds /\ fixRounds[t] \in 0..MaxRounds
        /\ fixRounds[t] \in {ctl.plan[t] - 1, ctl.plan[t]}
    BY <1>1, <1>5, <1>6 DEF PlanFits, PlanRuns, Spent, SpentIn
  <1>8. fixRounds[t] >= ctl.plan[t]
    <2>1. CASE RecordLanded(Step)
      BY <1>3, <2>1 DEF RecordLanded
    <2>2. CASE ~RecordLanded(Step)
      <3>1. Started(Step) /\ journal[Step].end = "completed"
        BY <1>3, <2>2 DEF Choice, IsAgent
      <3>2. Step \in RepairsIn(DOMAIN journal)
        BY <1>3, <3>1 DEF Started, RepairsIn
      <3>3. fixRounds[Step.task] >= PlanAt(journal, Step.round)[Step.task]
        BY <1>1, <1>3, <3>1, <3>2 DEF Spent, SpentIn
      <3> QED
        BY <1>3, <1>6, <3>3
    <2> QED
      BY <2>1, <2>2
  <1> HIDE DEF t
  <1>9. fixRounds[t] = ctl.plan[t]
    BY <1>7, <1>8, BudgetAssumption
  <1> QED
    BY <1>9 DEF t

LEMMA ReuseKeeps ==
  ASSUME IInv, Reuse
  PROVE  IInv'
  <1>1. /\ ctl.pc = "choose" /\ ctl.pc \in Pcs /\ Choice(Step) = "reuse"
        /\ ctl' = Onward(IF Started(Step) THEN Taking(Step, journal[Step].record) ELSE ctl)
    BY DEF Reuse, In, Pcs
  <1>2. /\ UNCHANGED <<gitSide, call, faults>> /\ UNCHANGED <<journal, fixRounds>>
        /\ UNCHANGED <<reviews, accepted, judged, gated, runs>>
    BY DEF Reuse, files, seen
  <1>3. /\ Active /\ ControllerIs /\ StepInv /\ RoundIs /\ Kept /\ JournalIs /\ JournalProven
        /\ call = I!NoCall /\ CallInv /\ FilesInv
    BY <1>1, Acting
  <1>4. Kept'
    BY <1>2, <1>3, FrameKeeps, FilesStay, KeptStays
  <1>5. /\ ctl \in Invocations /\ N \in Nat /\ ctl.at \in Nat
    BY <1>3, CtlFields
  <1> DEFINE c == IF Started(Step) THEN Taking(Step, journal[Step].record) ELSE ctl
  <1>6. Started(Step) => journal[Step].record \in Records
    BY <1>3 DEF Started, JournalIs, Attempts
  <1>7. /\ c \in Invocations /\ c.round = ctl.round /\ c.plan = ctl.plan /\ c.at = ctl.at
        /\ c.collected = ctl.collected
        /\ Step.name \notin {"implement", "repair", "integrate"} => c.taskTips = ctl.taskTips
        /\ Started(Step) /\ Step.name = "integrate" =>
              c.record = journal[Step].record /\ c.taskTips = journal[Step].record.tips
    BY <1>3, <1>5, <1>6, TakingIs
  <1> HIDE DEF c
  <1>8. /\ ctl' \in Invocations' /\ ctl'.round = c.round /\ ctl'.plan = c.plan /\ ctl'.steps = ctl.steps
        /\ ctl'.at = c.at + 1 /\ ctl'.pc = IF c.at < N + 5 THEN "choose" ELSE "done"
        /\ ctl'.collected = c.collected /\ ctl'.taskTips = c.taskTips /\ ctl'.record = c.record
    BY <1>1, <1>3, <1>7, OnwardIs DEF c
  <1>9. ASSUME ctl.at = N + 5
        PROVE  /\ Proven(ctl'.record) /\ ctl'.taskTips \in gated /\ ctl'.taskTips \in judged
               /\ ctl'.collected = "pass"
    <2>1. Step.name = "integrate"
      BY <1>1, <1>3, <1>9, StepIs
    <2>2. Started(Step) /\ journal[Step].end = "completed"
      <3>1. Started(Step) /\ IntegrateChoice(Step) = "reuse"
        BY <1>1, <2>1 DEF Choice, IsAgent
      <3>2. journal[Step].end \in {"none", "completed", "failed"}
        BY <1>3, <3>1 DEF Started, JournalIs, Attempts
      <3> QED
        BY <3>1, <3>2 DEF IntegrateChoice
    <2>3. Proven(journal[Step].record)
      BY <1>3, <2>1, <2>2 DEF JournalProven, Started
    <2>4. ctl'.record = journal[Step].record /\ ctl'.taskTips = journal[Step].record.tips
      BY <1>7, <1>8, <2>1, <2>2
    <2>5. gated \subseteq judged
      BY <1>3 DEF FilesInv
    <2>6. ctl.collected = "pass"
      BY <1>1, <1>3, <1>5, <1>9 DEF StepInv
    <2> QED
      BY <1>7, <1>8, <2>3, <2>4, <2>5, <2>6 DEF Proven
  <1>10. ~(ctl.at = N + 3) /\ ~(ctl.at = N + 4)
    <2>1. Step.name \notin {"collect", "gate"}
      BY <1>1 DEF Choice, IsAgent, Reusable
    <2> QED
      BY <1>1, <1>3, <2>1, StepIs
  <1>11. ctl.at + 1 >= N + 4 => ctl.at = N + 5
    <2>1. ctl.at <= N + 5
      BY <1>1, <1>3, StepIs
    <2> QED
      BY <1>5, <1>10, <2>1
  <1>12. /\ ctl.at + 1 >= N + 4 => ctl'.collected = "pass" /\ ctl'.taskTips \in judged'
         /\ ctl.at + 1 >= N + 5 => ctl'.taskTips \in gated'
    BY <1>2, <1>5, <1>9, <1>11
  <1>13. ctl.at = N + 5 => Proven(ctl.record)'
    BY <1>2, <1>9 DEF Proven
  <1>14. ctl.at <= N => fixRounds[Named[ctl.at]] = ctl.plan[Named[ctl.at]]
    BY <1>1, PassedOver
  <1>15. /\ DOMAIN journal' = DOMAIN journal /\ call' = I!NoCall /\ UNCHANGED fixRounds
         /\ \A x \in DOMAIN journal : x.name = "fix" => journal'[x].plan = journal[x].plan
    BY <1>2, <1>3
  <1>16. /\ ctl'.round = ctl.round /\ ctl'.plan = ctl.plan /\ ctl'.at = ctl.at + 1
         /\ ctl'.pc = IF ctl.at < N + 5 THEN "choose" ELSE "done"
    BY <1>7, <1>8
  <1> QED
    BY <1>1, <1>3, <1>4, <1>8, <1>12, <1>13, <1>14, <1>15, <1>16, GoesOn

(* A command that comes to its end.                                        *)
LEMMA Exiting ==
  ASSUME IInv, ctl.pc = "work", Kept', UNCHANGED <<journal, call>>,
         judged \subseteq judged', gated \subseteq gated',
         NEW e \in {"ok", "failed", "unknown", "code"}, NEW rd \in {"none", "pass", "fail"},
         ctl' = [ctl EXCEPT !.pc = "finish", !.exit = e, !.read = rd],
         ctl.at = N + 3 /\ e = "ok" => rd = IF reviews'.blocks THEN "fail" ELSE "pass",
         ctl.at = N + 4 /\ e = "ok" => ctl.taskTips \in gated',
         ctl.at = N + 5 => e # "ok",
         ctl.round # 0 => PlanRuns(fixRounds', ctl.plan),
         \A i \in 1..N : i < ctl.at => fixRounds'[Named[i]] = ctl.plan[Named[i]],
         ctl.at <= N /\ e = "ok" => fixRounds'[Named[ctl.at]] = ctl.plan[Named[ctl.at]]
  PROVE  IInv'
  <1>1. /\ Active /\ ControllerIs /\ call = I!NoCall
    BY Acting DEF Pcs
  <1>2. /\ ctl \in Invocations
    BY <1>1, CtlFields
  <1>3. Step \in DOMAIN journal
    BY <1>1 DEF ControllerIs
  <1>4. /\ SamePlace /\ ctl'.pc = "finish" /\ ctl'.collected = ctl.collected /\ ctl'.taskTips = ctl.taskTips
        /\ ctl'.exit = e /\ ctl'.read = rd /\ ctl' \in Invocations'
    BY <1>2 DEF SamePlace, Invocations, Pcs
  <1>5. \A x \in RepairsIn(DOMAIN journal' \ DOMAIN journal) : x.round <= ctl.round
    BY DEF RepairsIn
  <1> QED
    BY <1>1, <1>3, <1>4, <1>5, MovesInPlace

LEMMA ExitsAs ==
  ASSUME ControllerIs, Active, NEW e, Exits(e)
  PROVE  /\ ctl' = [ctl EXCEPT !.pc = "finish", !.exit = e, !.read = ctl.read]
         /\ ctl.read \in {"none", "pass", "fail"}
  <1>1. ctl \in Invocations
    BY CtlFields
  <1> QED
    BY <1>1 DEF Exits, Invocations

LEMMA AgentsKeeps ==
  ASSUME IInv, Agents
  PROVE  IInv'
  <1>1. /\ ctl.pc = "work" /\ ctl.pc \in Pcs /\ Step.name \in {"implement", "repair"}
        /\ Dispatch(IF Doing("implement") THEN Tasks \ accepted ELSE DOMAIN ctl.plan)
    BY DEF Agents, In, Pcs
  <1>2. /\ UNCHANGED <<branch, clean, onBranch, call, faults, journal, reviews, fixRounds>>
        /\ UNCHANGED <<judged, gated, runs>>
    BY DEF Agents, seen
  <1>3. /\ Active /\ ControllerIs /\ Kept /\ CallInv /\ FilesInv
    BY <1>1, Acting
  <1>4. /\ N \in Nat /\ ctl.at \in Nat /\ DOMAIN ctl.plan \subseteq Tasks /\ ctl.at = N + 1
    BY <1>1, <1>3, CtlFields, StepIs
  <1>5. PICK todo \in SUBSET Tasks : Dispatch(todo)
    BY <1>1, <1>4
  <1>6. tips' \in Tips /\ accepted' \subseteq Tasks
    <2>1. PICK did \in SUBSET {t \in todo : tips[t] < MaxTip} :
             /\ tips' = [t \in Tasks |-> IF t \in did THEN tips[t] + 1 ELSE tips[t]]
             /\ accepted' = (accepted \ todo) \cup did
      BY <1>5 DEF Dispatch
    <2>2. \A t \in Tasks : tips[t] \in 0..MaxTip
      BY <1>3 DEF CallInv, GitInv, Tips
    <2>3. \A t \in Tasks : t \in did => tips[t] + 1 \in 0..MaxTip
      BY <2>1, <2>2, TipAssumption
    <2>4. tips' \in Tips
      BY <2>1, <2>2, <2>3 DEF Tips
    <2>5. accepted' \subseteq Tasks
      BY <1>3, <2>1 DEF FilesInv
    <2> QED
      BY <2>4, <2>5
  <1>7. CallInv' /\ FilesInv'
    <2>1. GitInv'
      BY <1>2, <1>3, <1>6 DEF CallInv, GitInv
    <2>2. FilesInv'
      BY <1>2, <1>3, <1>6 DEF FilesInv
    <2> QED
      BY <1>2, <1>3, <2>1, <2>2, SameCallKeeps
  <1>8. Kept'
    BY <1>2, <1>3, <1>7, KeptStays
  <1>9. PICK e \in {"ok", "failed", "unknown"} : Exits(e)
    BY DEF Agents
  <1>10. /\ ctl' = [ctl EXCEPT !.pc = "finish", !.exit = e, !.read = ctl.read]
         /\ ctl.read \in {"none", "pass", "fail"}
    BY <1>3, <1>9, ExitsAs
  <1>11. ctl.at # N + 3 /\ ctl.at # N + 4 /\ ctl.at # N + 5 /\ ~(ctl.at <= N)
    BY <1>4
  <1> QED
    BY <1>1, <1>2, <1>3, <1>8, <1>10, <1>11, Unspent, Exiting

LEMMA ReviewersKeeps ==
  ASSUME IInv, Reviewers
  PROVE  IInv'
  <1>1. /\ ctl.pc = "work" /\ ctl.pc \in Pcs /\ Step.name = "review"
    BY DEF Reviewers, In, Doing, Pcs
  <1>2. /\ UNCHANGED <<gitSide, call, faults>> /\ UNCHANGED <<journal, accepted, fixRounds, gated, runs>>
    BY DEF Reviewers
  <1>3. /\ Active /\ ControllerIs /\ Kept /\ CallInv /\ FilesInv
    BY <1>1, Acting
  <1>4. /\ N \in Nat /\ ctl.at \in Nat /\ ctl.at = N + 2
    BY <1>1, <1>3, CtlFields, StepIs
  <1>5. tips \in Tips
    BY <1>3 DEF CallInv, GitInv
  <1>6. FilesInv' /\ judged \subseteq judged'
    <2>1. CASE UNCHANGED <<reviews, judged>>
      BY <1>2, <1>3, <2>1 DEF FilesInv
    <2>2. CASE \E blocks \in BOOLEAN :
                 /\ reviews' = [stamp |-> tips, blocks |-> blocks]
                 /\ judged' = IF blocks THEN judged ELSE judged \cup {tips}
      BY <1>2, <1>3, <1>5, <2>2 DEF FilesInv
    <2> QED
      BY <2>1, <2>2 DEF Reviewers
  <1>7. Kept'
    BY <1>2, <1>3, <1>6, FrameKeeps, KeptStays
  <1>8. PICK e \in {"ok", "failed", "unknown"} : Exits(e)
    BY DEF Reviewers
  <1>9. /\ ctl' = [ctl EXCEPT !.pc = "finish", !.exit = e, !.read = ctl.read]
        /\ ctl.read \in {"none", "pass", "fail"}
    BY <1>3, <1>8, ExitsAs
  <1>10. ctl.at # N + 3 /\ ctl.at # N + 4 /\ ctl.at # N + 5 /\ ~(ctl.at <= N)
    BY <1>4
  <1> QED
    BY <1>1, <1>2, <1>3, <1>6, <1>7, <1>9, <1>10, Unspent, Exiting

LEMMA CollectKeeps ==
  ASSUME IInv, Collect
  PROVE  IInv'
  <1>1. /\ ctl.pc = "work" /\ ctl.pc \in Pcs /\ Step.name = "collect"
    BY DEF Collect, In, Doing, Pcs
  <1>2. /\ UNCHANGED <<gitSide, call, faults>> /\ UNCHANGED <<journal, fixRounds>>
        /\ UNCHANGED <<reviews, accepted, judged, gated, runs>>
    BY DEF Collect, files, seen
  <1>3. /\ Active /\ ControllerIs /\ Kept /\ CallInv /\ FilesInv
    BY <1>1, Acting
  <1>4. /\ N \in Nat /\ ctl.at \in Nat /\ ctl.at = N + 3
    BY <1>1, <1>3, CtlFields, StepIs
  <1>5. Kept'
    BY <1>2, <1>3, FrameKeeps, FilesStay, KeptStays
  <1>6. ctl.at # N + 4 /\ ctl.at # N + 5 /\ ~(ctl.at <= N)
    BY <1>4
  <1>7. CASE Exits("failed")
    <2>1. /\ ctl' = [ctl EXCEPT !.pc = "finish", !.exit = "failed", !.read = ctl.read]
          /\ ctl.read \in {"none", "pass", "fail"}
      BY <1>3, <1>7, ExitsAs
    <2> QED
      BY <1>1, <1>2, <1>3, <1>5, <1>6, <2>1, Unspent, Exiting
  <1>8. CASE ctl' = [ctl EXCEPT !.pc = "finish", !.exit = "ok",
                                !.read = IF reviews.blocks THEN "fail" ELSE "pass"]
    <2> DEFINE rd == IF reviews.blocks THEN "fail" ELSE "pass"
    <2>1. rd \in {"none", "pass", "fail"} /\ rd = IF reviews'.blocks THEN "fail" ELSE "pass"
      BY <1>2
    <2> HIDE DEF rd
    <2>2. ctl' = [ctl EXCEPT !.pc = "finish", !.exit = "ok", !.read = rd]
      BY <1>8 DEF rd
    <2> QED
      BY <1>1, <1>2, <1>3, <1>5, <1>6, <2>1, <2>2, Unspent, Exiting
  <1> QED
    BY <1>7, <1>8 DEF Collect

LEMMA GateKeeps ==
  ASSUME IInv, Gate
  PROVE  IInv'
  <1>1. /\ ctl.pc = "work" /\ ctl.pc \in Pcs /\ Step.name = "gate"
    BY DEF Gate, In, Doing, Pcs
  <1>2. /\ UNCHANGED <<gitSide, call, faults>> /\ UNCHANGED <<journal, fixRounds>>
        /\ UNCHANGED <<reviews, accepted, judged, runs>>
    BY DEF Gate, files
  <1>3. /\ Active /\ ControllerIs /\ StepInv /\ Kept /\ CallInv /\ FilesInv
    BY <1>1, Acting
  <1>4. /\ N \in Nat /\ ctl.at \in Nat /\ ctl.at = N + 4
    BY <1>1, <1>3, CtlFields, StepIs
  <1>5. ctl.taskTips \in judged
    BY <1>1, <1>3, <1>4 DEF StepInv
  <1>6. \E e \in {"ok", "failed", "code"} :
           /\ Exits(e) /\ gated \subseteq gated' /\ FilesInv'
           /\ e = "ok" => ctl.taskTips \in gated'
    <2>1. CASE GateInputs /\ Exits("ok") /\ gated' = gated \cup {tips}
      <3>1. tips = ctl.taskTips
        BY <2>1 DEF GateInputs
      <3> QED
        BY <1>2, <1>3, <1>5, <2>1, <3>1 DEF FilesInv
    <2>2. CASE Exits("code") /\ UNCHANGED gated
      BY <1>2, <1>3, <2>2 DEF FilesInv
    <2>3. CASE Exits("failed") /\ UNCHANGED gated
      BY <1>2, <1>3, <2>3 DEF FilesInv
    <2> QED
      BY <2>1, <2>2, <2>3 DEF Gate
  <1>7. PICK e \in {"ok", "failed", "code"} :
           /\ Exits(e) /\ gated \subseteq gated' /\ FilesInv'
           /\ e = "ok" => ctl.taskTips \in gated'
    BY <1>6
  <1>8. Kept'
    BY <1>2, <1>3, <1>7, FrameKeeps, KeptStays
  <1>9. /\ ctl' = [ctl EXCEPT !.pc = "finish", !.exit = e, !.read = ctl.read]
        /\ ctl.read \in {"none", "pass", "fail"}
    BY <1>3, <1>7, ExitsAs
  <1>10. ctl.at # N + 3 /\ ctl.at # N + 5 /\ ~(ctl.at <= N)
    BY <1>4
  <1> QED
    BY <1>1, <1>2, <1>3, <1>7, <1>8, <1>9, <1>10, Unspent, Exiting

LEMMA IntegrateKeeps ==
  ASSUME IInv, Integrate
  PROVE  IInv'
  <1>1. /\ ctl.pc = "work" /\ ctl.pc \in Pcs /\ Step.name = "integrate"
    BY DEF Integrate, In, Doing, Pcs
  <1>2. /\ UNCHANGED <<journal, fixRounds>> /\ UNCHANGED <<reviews, accepted, judged, gated, runs>>
    BY DEF Integrate, files, seen
  <1>3. /\ Active /\ ControllerIs /\ StepInv /\ Kept /\ CallInv /\ FilesInv
    BY <1>1, Acting
  <1>4. /\ N \in Nat /\ ctl.at \in Nat /\ ctl.at = N + 5 /\ ctl.taskTips \in Tips /\ ctl \in Invocations
    BY <1>1, <1>3, CtlFields, StepIs
  <1>5. ctl.at # N + 3 /\ ctl.at # N + 4 /\ ~(ctl.at <= N)
    BY <1>4
  <1>6. CASE Exits("failed") /\ UNCHANGED <<gitSide, call, faults>>
    <2>1. Kept'
      BY <1>2, <1>3, <1>6, FrameKeeps, FilesStay, KeptStays
    <2>2. /\ ctl' = [ctl EXCEPT !.pc = "finish", !.exit = "failed", !.read = ctl.read]
          /\ ctl.read \in {"none", "pass", "fail"}
      BY <1>3, <1>6, ExitsAs
    <2> QED
      BY <1>1, <1>2, <1>3, <1>5, <1>6, <2>1, <2>2, Unspent, Exiting
  <1>7. CASE I!Begin(ctl.taskTips) /\ ctl' = [ctl EXCEPT !.pc = "integrating"]
    <2>1. CallInv' /\ call' \in Calls' /\ call'.taskTips = ctl.taskTips
      BY <1>3, <1>4, <1>7, BeginsWell
    <2>2. call' # I!NoCall
      <3>1. call'.pc # "none"
        BY <1>7 DEF I!Begin, I!NewCall
      <3> QED
        BY <3>1 DEF I!NoCall
    <2>3. Kept'
      BY <1>2, <1>3, <2>1, FilesStay, KeptStays
    <2>4. /\ SamePlace /\ ctl'.pc = "integrating" /\ ctl'.collected = ctl.collected
          /\ ctl'.taskTips = ctl.taskTips /\ ctl' \in Invocations'
      BY <1>4, <1>7 DEF SamePlace, Invocations, Pcs
    <2>5. Step \in DOMAIN journal'
      BY <1>1, <1>2, <1>3 DEF ControllerIs
    <2>6. RepairsIn(DOMAIN journal' \ DOMAIN journal) = {}
      BY <1>2 DEF RepairsIn
    <2> QED
      BY <1>1, <1>2, <1>3, <1>4, <2>1, <2>2, <2>3, <2>4, <2>5, <2>6, Unspent, MovesInPlace
  <1> QED
    BY <1>6, <1>7 DEF Integrate

(* The count goes up by the round the decision named, and no further.      *)
LEMMA CountIs ==
  ASSUME IInv, ctl.pc = "work", Step.name = "record",
         fixRounds' = [fixRounds EXCEPT ![Step.task] = fixRounds[Step.task] + 1],
         UNCHANGED journal
  PROVE  /\ Begun' /\ Spent' /\ PlanRuns(fixRounds', ctl.plan) /\ ctl.at <= N
         /\ fixRounds'[Named[ctl.at]] = ctl.plan[Named[ctl.at]]
         /\ \A i \in 1..N : i < ctl.at => fixRounds'[Named[i]] = ctl.plan[Named[i]]
  <1>1. /\ Active /\ ControllerIs /\ RoundIs /\ Recorded /\ JournalIs /\ Begun /\ Spent /\ ctl.pc # "done"
    BY Acting DEF Pcs
  <1> DEFINE t == Named[ctl.at]
             J == DOMAIN journal
  <1>2. ctl.at <= N /\ Step = RecordId(t, ctl.round) /\ Step \in J
    BY <1>1, StepIs DEF ControllerIs
  <1>3. Step.task = t /\ Step.round = ctl.round /\ Step \in RepairsIn(J)
    BY <1>2 DEF RecordId, RepairsIn
  <1>4. ctl.at \in 1..N
    BY <1>1, <1>2, CtlFields
  <1>5. t \in DOMAIN ctl.plan /\ t \in Tasks /\ ctl.plan \in Plans
    BY <1>1, <1>4, CtlFields
  <1>6. /\ ctl.round \in 1..MaxRounds /\ ctl.plan = PlanAt(journal, ctl.round)
        /\ PlanFits(J, ctl.round, ctl.plan) /\ PlanRuns(fixRounds, ctl.plan)
    BY <1>1, Repairing
  <1>7. ctl.plan[t] \in 1..MaxRounds /\ ctl.plan[t] <= Cardinality({r \in RoundsIn(J, t) : r < ctl.round}) + 1
    BY <1>5, <1>6 DEF PlanFits
  <1>8. fixRounds \in [Tasks -> 0..MaxRounds] /\ fixRounds[t] \in 0..MaxRounds
    BY <1>1, <1>5 DEF Spent, SpentIn
  <1>9. fixRounds[t] < ctl.plan[t]
    BY <1>1, <1>2 DEF Recorded
  <1>10. fixRounds[t] \in {ctl.plan[t] - 1, ctl.plan[t]}
    BY <1>5, <1>6 DEF PlanRuns
  <1> DEFINE p == ctl.plan[t]
             f == fixRounds[t]
  <1>11. f + 1 = p
    <2>1. p \in 1..MaxRounds /\ f \in 0..MaxRounds /\ f < p /\ f \in {p - 1, p}
      BY <1>7, <1>8, <1>9, <1>10
    <2> HIDE DEF p, f
    <2> QED
      BY <2>1, BudgetAssumption
  <1>12. fixRounds' = [fixRounds EXCEPT ![t] = p] /\ p \in 1..MaxRounds
    BY <1>3, <1>7, <1>11
  <1> HIDE DEF p, f
  <1>13. /\ fixRounds' \in [Tasks -> 0..MaxRounds] /\ fixRounds'[t] = p
         /\ \A u \in Tasks : u # t => fixRounds'[u] = fixRounds[u]
    <2>1. t \in Tasks /\ fixRounds \in [Tasks -> 0..MaxRounds] /\ p \in 0..MaxRounds
      BY <1>5, <1>8, <1>12, BudgetAssumption
    <2>2. fixRounds' = [fixRounds EXCEPT ![t] = p]
      BY <1>12
    <2> HIDE DEF t
    <2> QED
      BY <2>1, <2>2
  <1>14. PlanRuns(fixRounds', ctl.plan)
    <2> SUFFICES ASSUME NEW u \in DOMAIN ctl.plan
                 PROVE  fixRounds'[u] \in {ctl.plan[u] - 1, ctl.plan[u]}
      BY DEF PlanRuns
    <2>1. u \in Tasks
      BY <1>1, CtlFields
    <2>2. CASE u = t
      BY <1>13, <2>2 DEF p
    <2>3. CASE u # t
      BY <1>6, <1>13, <2>1, <2>3 DEF PlanRuns
    <2> QED
      BY <2>2, <2>3
  <1>15. Begun'
    <2> SUFFICES ASSUME NEW x \in RepairsIn(J), \A other \in RepairsIn(J) : other.round <= x.round
                 PROVE  PlanRuns(fixRounds', PlanAt(journal, x.round))
      BY <1>1 DEF Begun, BegunIn
    <2>1. x.round <= ctl.round /\ ctl.round <= x.round
      BY <1>1, <1>3 DEF RoundIs
    <2>2. x.round \in 0..MaxRounds
      BY <1>1 DEF JournalIs, RepairsIn, Ids
    <2>3. x.round = ctl.round
      BY <1>6, <2>1, <2>2, BudgetAssumption
    <2> QED
      BY <1>6, <1>14, <2>3
  <1>16. ASSUME NEW u \in Tasks PROVE fixRounds'[u] <= Cardinality(RoundsIn(J, u))
    <2>1. CASE u # t
      BY <1>1, <1>13, <2>1 DEF Spent, SpentIn
    <2>2. CASE u = t
      <3> DEFINE S == RoundsIn(J, t)
                 B == {r \in S : r < ctl.round}
      <3>1. S \in SUBSET (1..MaxRounds) /\ B \in SUBSET (1..MaxRounds) /\ ctl.round \in S
        BY <1>2, <1>6 DEF RoundsIn
      <3>2. ctl.round \notin B /\ B \cup {ctl.round} \in SUBSET S
        BY <1>6, <3>1, BudgetAssumption
      <3>3. p <= Cardinality(B) + 1
        BY <1>7 DEF p
      <3> HIDE DEF S, B
      <3>4. IsFiniteSet(B) /\ Cardinality(B) \in Nat
        BY <3>1, RoundsAreFinite
      <3>5. Cardinality(B \cup {ctl.round}) = Cardinality(B) + 1
        BY <3>2, <3>4, FS_AddElement
      <3>6. Cardinality(B \cup {ctl.round}) <= Cardinality(S) /\ Cardinality(S) \in Nat
        BY <3>1, <3>2, RoundsGrow
      <3>7. p <= Cardinality(S)
        BY <1>12, <3>3, <3>4, <3>5, <3>6, BudgetAssumption
      <3> QED
        BY <1>13, <2>2, <3>7 DEF S
    <2> QED
      BY <2>1, <2>2
  <1>17. ASSUME NEW x \in RepairsIn(J), x.name = "record", journal[x].end = "completed"
         PROVE  x.task \in DOMAIN PlanAt(journal, x.round)
                /\ fixRounds'[x.task] >= PlanAt(journal, x.round)[x.task]
    <2> DEFINE u == x.task
               q == PlanAt(journal, x.round)
    <2>1. u \in DOMAIN q /\ fixRounds[u] >= q[u]
      BY <1>1, <1>17 DEF Spent, SpentIn
    <2>2. q \in Plans
      BY <1>1 DEF Begun, BegunIn, PlanAt, JournalIs, Attempts
    <2>3. q[u] \in 0..MaxRounds + 1 /\ u \in Tasks
      BY <2>1, <2>2, NamedOf
    <2> HIDE DEF u, q
    <2>4. fixRounds'[u] >= q[u]
      <3>1. CASE u = t
        <4>1. fixRounds[u] < p
          BY <1>9, <3>1 DEF p
        <4> QED
          BY <1>8, <1>12, <1>13, <2>1, <2>3, <3>1, <4>1, BudgetAssumption
      <3>2. CASE u # t
        BY <1>13, <2>1, <2>3, <3>2
      <3> QED
        BY <3>1, <3>2
    <2> QED
      BY <2>1, <2>4 DEF u, q
  <1>18. Spent'
    BY <1>13, <1>16, <1>17 DEF Spent, SpentIn
  <1>19. ASSUME NEW i \in 1..N, i < ctl.at PROVE fixRounds'[Named[i]] = ctl.plan[Named[i]]
    <2>1. fixRounds[Named[i]] = ctl.plan[Named[i]] /\ Named[i] \in Tasks
      BY <1>1, <1>19, CtlFields DEF Recorded
    <2> QED
      BY <1>13, <2>1 DEF p
  <1> QED
    BY <1>2, <1>13, <1>14, <1>15, <1>18, <1>19 DEF p

LEMMA RecordKeeps ==
  ASSUME IInv, Record
  PROVE  IInv'
  <1>1. /\ ctl.pc = "work" /\ ctl.pc \in Pcs /\ Step.name = "record"
    BY DEF Record, In, Doing, Pcs
  <1>2. /\ UNCHANGED <<gitSide, call, faults>> /\ UNCHANGED journal
        /\ UNCHANGED <<reviews, accepted, judged, gated, runs>>
    BY DEF Record, seen
  <1>3. /\ Active /\ ControllerIs /\ Kept /\ CallInv /\ FilesInv /\ JournalIs /\ JournalProven
    BY <1>1, Acting
  <1>4. /\ N \in Nat /\ ctl.at \in Nat /\ ctl.at <= N
    BY <1>1, <1>3, CtlFields, StepIs
  <1>5. ctl.at # N + 3 /\ ctl.at # N + 4 /\ ctl.at # N + 5
    BY <1>4
  <1>6. CallInv' /\ FilesInv' /\ judged \subseteq judged' /\ gated \subseteq gated'
    BY <1>2, <1>3, FrameKeeps, FilesStay
  <1>7. CASE UNCHANGED fixRounds /\ Exits("failed")
    <2>1. Kept'
      BY <1>2, <1>3, <1>6, <1>7, KeptStays
    <2>2. /\ ctl' = [ctl EXCEPT !.pc = "finish", !.exit = "failed", !.read = ctl.read]
          /\ ctl.read \in {"none", "pass", "fail"}
      BY <1>3, <1>7, ExitsAs
    <2> QED
      BY <1>1, <1>2, <1>3, <1>5, <1>6, <1>7, <2>1, <2>2, Unspent, Exiting
  <1>8. CASE /\ fixRounds' = [fixRounds EXCEPT ![Step.task] = fixRounds[Step.task] + 1]
             /\ \E e \in {"ok", "failed"} : Exits(e)
    <2>1. PICK e \in {"ok", "failed"} : Exits(e)
      BY <1>8
    <2>2. /\ ctl' = [ctl EXCEPT !.pc = "finish", !.exit = e, !.read = ctl.read]
          /\ ctl.read \in {"none", "pass", "fail"}
      BY <1>3, <2>1, ExitsAs
    <2>3. /\ Begun' /\ Spent' /\ PlanRuns(fixRounds', ctl.plan)
          /\ fixRounds'[Named[ctl.at]] = ctl.plan[Named[ctl.at]]
          /\ \A i \in 1..N : i < ctl.at => fixRounds'[Named[i]] = ctl.plan[Named[i]]
      BY <1>1, <1>2, <1>8, CountIs
    <2>4. JournalIs' /\ JournalProven'
      BY <1>2, <1>3 DEF JournalIs, JournalProven, Proven
    <2>5. Kept'
      BY <1>6, <2>3, <2>4 DEF Kept
    <2> QED
      BY <1>1, <1>2, <1>5, <1>6, <2>2, <2>3, <2>5, Exiting
  <1> QED
    BY <1>7, <1>8 DEF Record

(* The call goes on working for the tips it was given.                     *)
LEMMA WorkingIs ==
  ASSUME CallInv, I!Working(ReviewHolds)
  PROVE  call # I!NoCall /\ call' # I!NoCall /\ call'.taskTips = call.taskTips
  <1>1. call.pc # "none"
    BY DEF I!Working, I!GateBefore, I!Preview, I!Checks, I!GateAfter, I!BeforeMerge, I!Checkout, I!GitMerge,
           I!GitMergeFails, I!Verify, I!AfterMerges, I!CompareTree, I!Fail, I!SnapshotRun, I!SnapshotTasks, I!At
  <1>2. call \in Calls
    BY <1>1, Running DEF CallInv
  <1>3. call'.pc # "none" /\ call'.taskTips = call.taskTips
    <2>1. CASE I!GateBefore
      BY <1>2, <2>1 DEF I!GateBefore, I!SnapshotRun, I!SnapshotTasks, I!Goto, I!Rejected, Calls
    <2>2. CASE I!Preview
      BY <1>2, <2>2 DEF I!Preview, Calls
    <2>3. CASE I!Checks(ReviewHolds)
      BY <1>2, <2>3 DEF I!Checks, I!Goto, I!Rejected, Calls
    <2>4. CASE I!GateAfter
      BY <1>2, <2>4 DEF I!GateAfter, I!SnapshotRun, I!SnapshotTasks, I!Goto, I!Rejected, Calls
    <2>5. CASE I!BeforeMerge
      BY <1>2, <2>5 DEF I!BeforeMerge, I!SnapshotRun, I!SnapshotTasks, I!Goto, I!Fails, Calls
    <2>6. CASE I!Checkout
      BY <1>2, <2>6 DEF I!Checkout, I!Goto, I!Fails, Calls
    <2>7. CASE I!GitMerge
      BY <1>2, <2>7 DEF I!GitMerge, I!Merging, Calls
    <2>8. CASE I!GitMergeFails
      BY <1>2, <2>8 DEF I!GitMergeFails, I!Merging, Calls
    <2>9. CASE I!Verify
      BY <1>2, <2>9 DEF I!Verify, I!Fails, Calls
    <2>10. CASE I!AfterMerges
      BY <1>2, <2>10 DEF I!AfterMerges, I!SnapshotRun, I!SnapshotTasks, I!Goto, I!Fails, Calls
    <2>11. CASE I!CompareTree
      BY <1>2, <2>11 DEF I!CompareTree, I!Goto, I!Fails, Calls
    <2>12. CASE I!Fail
      BY <1>2, <2>12 DEF I!Fail, Calls
    <2> QED
      BY <2>1, <2>2, <2>3, <2>4, <2>5, <2>6, <2>7, <2>8, <2>9, <2>10, <2>11, <2>12 DEF I!Working
  <1> QED
    BY <1>2, <1>3, CallFields DEF I!NoCall

LEMMA IntegratingKeeps ==
  ASSUME IInv, Integrating
  PROVE  IInv'
  <1>1. I!Working(ReviewHolds) /\ UNCHANGED <<ctl, journal, fixRounds, reviews, judged, gated>>
        /\ UNCHANGED <<reviews, accepted, judged, gated, runs>>
    BY DEF Integrating, files, seen
  <1>2. CallInv /\ FilesInv /\ Kept
    BY DEF IInv, Kept
  <1>3. CallInv'
    BY <1>1, <1>2, WorkingKeeps
  <1>4. Kept'
    BY <1>1, <1>2, <1>3, FilesStay, KeptStays
  <1> QED
    BY <1>1, <1>2, <1>4, WorkingIs, CtlStays

LEMMA OutsideStepKeeps ==
  ASSUME IInv, Outside
  PROVE  IInv'
  <1>1. I!Outside /\ UNCHANGED <<ctl, journal, fixRounds, reviews, judged, gated>>
        /\ UNCHANGED <<reviews, accepted, judged, gated, runs>>
    BY DEF Outside, files, seen
  <1>2. CallInv /\ FilesInv /\ Kept
    BY DEF IInv, Kept
  <1>3. CallInv' /\ UNCHANGED call
    BY <1>1, <1>2, OutsideKeeps DEF I!Outside
  <1>4. Kept'
    BY <1>1, <1>2, <1>3, FilesStay, KeptStays
  <1> QED
    BY <1>1, <1>3, <1>4, CtlStays

LEMMA AttemptFields ==
  ASSUME JournalIs, NEW id \in DOMAIN journal
  PROVE  /\ id \in Ids /\ journal[id] \in Attempts
         /\ journal[id].dispatch \in {"open", "completed", "failed", "unknown", "not-started"}
         /\ journal[id].end \in {"none", "completed", "failed"} /\ journal[id].unknown \in BOOLEAN
         /\ journal[id].record \in Records
  BY DEF JournalIs, Attempts

(* The journal when the attempt of the running step comes to its end.      *)
LEMMA EndsWell ==
  ASSUME IInv, ctl.pc \in {"finish", "integrating"}, CallInv', FilesInv', UNCHANGED <<fixRounds, judged, gated>>,
         NEW a \in Attempts, journal' = Put(journal, Step, a), a.plan = journal[Step].plan,
         Step.name = "integrate" /\ a.end = "completed" => Proven(a.record),
         Step.name = "record" /\ a.end = "completed" => ctl.pc = "finish" /\ ctl.exit = "ok"
  PROVE  /\ Kept' /\ DOMAIN journal' = DOMAIN journal /\ Step \in DOMAIN journal'
         /\ \A x \in DOMAIN journal : x.name = "fix" => journal'[x].plan = journal[x].plan
         /\ RepairsIn(DOMAIN journal' \ DOMAIN journal) = {}
  <1>1. /\ Active /\ ControllerIs /\ Recorded /\ Kept /\ Step \in DOMAIN journal /\ ctl.pc # "done"
    BY Acting DEF Pcs, ControllerIs
  <1>2. /\ Step \in Ids /\ Step.round = ctl.round /\ Step.name # "fix"
        /\ Step.name = "record" => Step = RecordId(Named[ctl.at], ctl.round) /\ ctl.at <= N
    BY <1>1, StepIs
  <1>3. ASSUME Step.name = "record", a.end = "completed"
        PROVE  /\ StepId("fix", Step.round - 1) \in DOMAIN journal
               /\ Step.task \in DOMAIN PlanAt(journal, Step.round)
               /\ fixRounds[Step.task] >= PlanAt(journal, Step.round)[Step.task]
    <2>1. Step.task = Named[ctl.at] /\ ctl.at <= N
      BY <1>2, <1>3 DEF RecordId
    <2>2. fixRounds[Step.task] = ctl.plan[Step.task]
      BY <1>1, <1>3, <2>1 DEF Recorded
    <2>3. ctl.at \in 1..N
      BY <1>1, <2>1, CtlFields
    <2>4. Step.task \in DOMAIN ctl.plan
      BY <1>1, <2>1, <2>3, CtlFields
    <2>5. /\ StepId("fix", ctl.round - 1) \in DOMAIN journal /\ ctl.plan = PlanAt(journal, ctl.round)
          /\ PlanFits(DOMAIN journal, ctl.round, ctl.plan)
      BY <1>1, <1>3, Repairing
    <2>6. ctl.plan[Step.task] \in Nat
      <3>1. ctl.plan[Step.task] \in 1..MaxRounds
        BY <2>4, <2>5 DEF PlanFits
      <3> QED
        BY <3>1, BudgetAssumption
    <2> QED
      BY <1>2, <2>2, <2>4, <2>5, <2>6
  <1>4. Kept'
    BY <1>1, <1>2, <1>3, KeptMoves
  <1>5. /\ DOMAIN journal' = DOMAIN journal /\ journal'[Step] = a
        /\ \A x \in DOMAIN journal : x # Step => journal'[x] = journal[x]
    BY <1>1 DEF Put
  <1>6. RepairsIn(DOMAIN journal' \ DOMAIN journal) = {}
    BY <1>5 DEF RepairsIn
  <1> QED
    BY <1>1, <1>4, <1>5, <1>6

LEMMA FinishKeeps ==
  ASSUME IInv, Finish
  PROVE  IInv'
  <1> DEFINE good == ctl.exit = "ok" /\ Valid /\ ~CodeFailed
             collected == IF Doing("collect") /\ ctl.exit = "ok" /\ Valid THEN ctl.read ELSE ctl.collected
             e == IF good THEN "completed" ELSE "failed"
             a == [journal[Step] EXCEPT !.dispatch = Dispatched, !.end = e,
                                        !.unknown = journal[Step].unknown, !.record = journal[Step].record]
  <1>1. /\ ctl.pc = "finish" /\ ctl.pc \in Pcs
        /\ journal' = [journal EXCEPT ![Step].dispatch = Dispatched, ![Step].end = e]
        /\ ctl' = CASE good -> Onward([Taking(Step, NoRecord) EXCEPT !.collected = collected])
                    [] CodeFailed -> [ctl EXCEPT !.pc = "fix", !.exit = "none", !.read = "none",
                                              !.collected = collected]
                    [] OTHER -> Idle
    BY DEF Finish, In, Pcs
  <1>2. /\ UNCHANGED <<gitSide, call, faults>> /\ UNCHANGED <<fixRounds, judged, gated>>
        /\ UNCHANGED <<reviews, accepted, judged, gated, runs>>
    BY DEF Finish, files, seen
  <1>3. /\ Active /\ ControllerIs /\ StepInv /\ Recorded /\ CallInv /\ FilesInv /\ JournalIs
        /\ call = I!NoCall /\ Step \in DOMAIN journal
    BY <1>1, Acting DEF ControllerIs
  <1>4. /\ N \in Nat /\ ctl.at \in Nat /\ ctl \in Invocations /\ ctl.at <= N + 5
        /\ ctl.read \in {"none", "pass", "fail"} /\ ctl.collected \in {"none", "pass", "fail"}
    BY <1>1, <1>3, CtlFields, StepIs
  <1>5. /\ a \in Attempts /\ a.end = e /\ a.plan = journal[Step].plan
    <2>1. Dispatched \in {"open", "completed", "failed", "unknown", "not-started"} /\ e \in {"none", "completed", "failed"}
      BY DEF Dispatched
    <2> HIDE DEF e
    <2>2. journal[Step].unknown \in BOOLEAN /\ journal[Step].record \in Records
      BY <1>3, AttemptFields
    <2> QED
      BY <1>3, <2>1, <2>2, AttemptFields DEF Attempts
  <1>6. journal' = Put(journal, Step, a)
    <2>1. journal \in [DOMAIN journal -> Attempts]
      BY <1>3 DEF JournalIs
    <2>2. a = [journal[Step] EXCEPT !.dispatch = Dispatched, !.end = e]
      BY <1>3, AttemptFields DEF Attempts
    <2> HIDE DEF a, e
    <2>3. journal' = [journal EXCEPT ![Step] = a]
      BY <1>1, <2>2
    <2> QED
      BY <1>3, <2>1, <2>3 DEF Put
  <1> HIDE DEF a
  <1>7. e = "completed" => good
    OBVIOUS
  <1>8. Step.name = "integrate" => e # "completed"
    BY <1>1, <1>3, <1>7, StepIs DEF StepInv
  <1>9. /\ Kept' /\ DOMAIN journal' = DOMAIN journal /\ Step \in DOMAIN journal'
        /\ \A x \in DOMAIN journal : x.name = "fix" => journal'[x].plan = journal[x].plan
        /\ RepairsIn(DOMAIN journal' \ DOMAIN journal) = {}
    <2>1. CallInv' /\ FilesInv'
      BY <1>2, <1>3, FrameKeeps, FilesStay
    <2>2. Step.name = "integrate" /\ a.end = "completed" => Proven(a.record)
      BY <1>5, <1>8
    <2>3. Step.name = "record" /\ a.end = "completed" => ctl.pc = "finish" /\ ctl.exit = "ok"
      BY <1>1, <1>5, <1>7
    <2> QED
      BY <1>1, <1>2, <1>5, <1>6, <2>1, <2>2, <2>3, EndsWell
  <1>10. call' = I!NoCall
    BY <1>2, <1>3
  <1>11. CASE good
    <2> DEFINE c == [Taking(Step, NoRecord) EXCEPT !.collected = collected]
    <2>1. ctl' = Onward(c)
      BY <1>1, <1>11
    <2>2. collected \in {"none", "pass", "fail"}
      BY <1>4
    <2>3. /\ Taking(Step, NoRecord) \in Invocations /\ Taking(Step, NoRecord).round = ctl.round
          /\ Taking(Step, NoRecord).plan = ctl.plan /\ Taking(Step, NoRecord).at = ctl.at
          /\ Step.name \notin {"implement", "repair", "integrate"} => Taking(Step, NoRecord) = ctl
      BY <1>3, <1>4, AttemptIs, TakingIs
    <2>4. /\ c \in Invocations /\ c.round = ctl.round /\ c.plan = ctl.plan /\ c.at = ctl.at
          /\ c.collected = collected
          /\ Step.name \notin {"implement", "repair", "integrate"} => c.taskTips = ctl.taskTips
      <3> HIDE DEF collected
      <3> QED
        BY <2>2, <2>3 DEF Invocations
    <2> HIDE DEF c
    <2>5. /\ ctl' \in Invocations' /\ ctl'.round = ctl.round /\ ctl'.plan = ctl.plan /\ ctl'.steps = ctl.steps
          /\ ctl'.at = ctl.at + 1 /\ ctl'.pc = IF ctl.at < N + 5 THEN "choose" ELSE "done"
          /\ ctl'.collected = collected /\ ctl'.taskTips = c.taskTips
      BY <1>3, <2>1, <2>4, OnwardIs
    <2>6. ctl.exit = "ok" /\ Valid /\ ~CodeFailed
      BY <1>11
    <2>7. ctl.at # N + 5
      BY <1>1, <1>3, <2>6 DEF StepInv
    <2>8. ASSUME ctl.at = N + 3
          PROVE  ctl'.collected = "pass" /\ ctl'.taskTips \in judged
      <3>1. Step.name = "collect"
        BY <1>1, <1>3, <2>8, StepIs
      <3>2. Reviewed
        BY <2>6, <3>1 DEF Valid, Doing
      <3>3. ctl.read # "fail" /\ collected = ctl.read
        BY <2>6, <3>1 DEF CodeFailed, Doing
      <3>4. ctl.read = IF reviews.blocks THEN "fail" ELSE "pass"
        BY <1>1, <1>3, <2>6, <2>8 DEF StepInv
      <3>5. ctl.read = "pass" /\ ~reviews.blocks
        BY <3>3, <3>4
      <3>6. reviews.stamp \in judged /\ reviews.stamp = ctl.taskTips
        BY <1>3, <3>2, <3>5 DEF FilesInv, Reviewed
      <3>7. ctl'.taskTips = ctl.taskTips /\ ctl'.collected = collected
        BY <2>4, <2>5, <3>1
      <3> QED
        BY <3>3, <3>5, <3>6, <3>7
    <2>9. ASSUME ctl.at = N + 4
          PROVE  ctl'.collected = "pass" /\ ctl'.taskTips \in judged /\ ctl'.taskTips \in gated
      <3>1. Step.name = "gate"
        BY <1>1, <1>3, <2>9, StepIs
      <3>2. collected = ctl.collected /\ ctl'.taskTips = ctl.taskTips
        BY <2>4, <2>5, <3>1 DEF Doing
      <3>3. ctl.collected = "pass" /\ ctl.taskTips \in judged /\ ctl.taskTips \in gated
        BY <1>1, <1>3, <1>4, <2>6, <2>9 DEF StepInv
      <3> QED
        BY <2>5, <3>2, <3>3
    <2>10. ctl.at + 1 >= N + 4 => ctl.at = N + 3 \/ ctl.at = N + 4
      BY <1>4, <2>7
    <2>11. ctl.at + 1 >= N + 5 => ctl.at = N + 4
      BY <1>4, <2>7
    <2>12. ctl.at + 1 >= N + 4 => ctl'.collected = "pass" /\ ctl'.taskTips \in judged'
      BY <1>2, <2>8, <2>9, <2>10
    <2>13. ctl.at + 1 >= N + 5 => ctl'.taskTips \in gated'
      BY <1>2, <2>9, <2>11
    <2>14. ctl.at <= N => fixRounds[Named[ctl.at]] = ctl.plan[Named[ctl.at]]
      BY <1>1, <1>3, <2>6 DEF Recorded
    <2> QED
      BY <1>1, <1>2, <1>3, <1>9, <1>10, <2>5, <2>7, <2>12, <2>13, <2>14, GoesOn
  <1>12. CASE CodeFailed
    <2>1. ~good
      BY <1>12
    <2>2. ctl' = [ctl EXCEPT !.pc = "fix", !.exit = "none", !.read = "none", !.collected = collected]
      BY <1>1, <1>12, <2>1
    <2>3. collected \in {"none", "pass", "fail"}
      BY <1>4
    <2>4. /\ SamePlace /\ ctl'.pc = "fix" /\ ctl'.taskTips = ctl.taskTips /\ ctl' \in Invocations'
      <3> HIDE DEF collected
      <3> QED
        BY <1>4, <2>2, <2>3 DEF SamePlace, Invocations, Pcs
    <2>5. judged \subseteq judged' /\ gated \subseteq gated'
      BY <1>2
    <2> QED
      BY <1>1, <1>2, <1>3, <1>9, <1>10, <2>4, <2>5, Unspent, MovesInPlace
  <1>13. CASE ~good /\ ~CodeFailed
    <2>1. ctl' = Idle
      BY <1>1, <1>13
    <2> QED
      BY <1>9, <1>10, <2>1, Stops
  <1> QED
    BY <1>11, <1>12, <1>13

LEMMA IntegratedKeeps ==
  ASSUME IInv, Integrated
  PROVE  IInv'
  <1> DEFINE r == [tips |-> call.taskTips, after |-> call.after]
             a == [journal[Step] EXCEPT !.end = "completed", !.record = r]
  <1>1. /\ ctl.pc = "integrating" /\ ctl.pc \in Pcs /\ call.pc = "integrated"
        /\ journal' = [journal EXCEPT ![Step].end = "completed", ![Step].record = r]
        /\ ctl' = Onward(Taking(Step, r)) /\ call' = I!NoCall
    BY DEF Integrated, In, Pcs
  <1>2. /\ UNCHANGED <<branch, tips, clean, onBranch, faults>> /\ UNCHANGED <<fixRounds, judged, gated>>
        /\ UNCHANGED <<reviews, accepted, judged, gated, runs>>
    BY DEF Integrated, gitSide, files, seen
  <1>3. /\ Active /\ ControllerIs /\ StepInv /\ CallInv /\ FilesInv /\ JournalIs /\ Step \in DOMAIN journal
    BY <1>1, Acting DEF ControllerIs
  <1>4. /\ N \in Nat /\ ctl.at \in Nat /\ ctl \in Invocations /\ ctl.at = N + 5
        /\ call.taskTips = ctl.taskTips /\ Step.name = "integrate"
    BY <1>1, <1>3, CtlFields, StepIs DEF ControllerIs
  <1>5. call \in Calls
    BY <1>1, <1>3, Running DEF CallInv
  <1>6. r \in Records /\ r.tips = call.taskTips /\ r.after = call.after
    BY <1>5, CallFields DEF Records
  <1>7. ctl.taskTips \in gated /\ ctl.taskTips \in judged /\ ctl.collected = "pass"
    BY <1>1, <1>3, <1>4 DEF StepInv
  <1>8. Proven(r)
    BY <1>1, <1>3, <1>4, <1>6, <1>7, CompleteHasTips DEF Proven
  <1> HIDE DEF r
  <1>9. /\ a \in Attempts /\ a.end = "completed" /\ a.plan = journal[Step].plan /\ a.record = r
    BY <1>3, <1>6, AttemptFields DEF Attempts
  <1>10. journal' = Put(journal, Step, a)
    <2>1. journal \in [DOMAIN journal -> Attempts]
      BY <1>3 DEF JournalIs
    <2>2. journal' = [journal EXCEPT ![Step] = a]
      BY <1>1
    <2> HIDE DEF a
    <2> QED
      BY <1>3, <2>1, <2>2 DEF Put
  <1> HIDE DEF a
  <1>11. /\ Kept' /\ DOMAIN journal' = DOMAIN journal
         /\ \A x \in DOMAIN journal : x.name = "fix" => journal'[x].plan = journal[x].plan
    <2>1. CallInv'
      <3>1. GitInv'
        BY <1>2, <1>3, GitKept DEF CallInv, GitStays
      <3> QED
        BY <1>1, <3>1, NoCallKeeps
    <2>2. FilesInv'
      BY <1>2, <1>3, FilesStay
    <2>3. Step.name # "record"
      BY <1>4
    <2> QED
      BY <1>1, <1>2, <1>8, <1>9, <1>10, <2>1, <2>2, <2>3, EndsWell
  <1> DEFINE c == Taking(Step, r)
  <1>12. /\ c \in Invocations /\ c.round = ctl.round /\ c.plan = ctl.plan /\ c.at = ctl.at
         /\ c.collected = ctl.collected /\ c.record = r /\ c.taskTips = r.tips
    BY <1>3, <1>4, <1>6, TakingIs
  <1> HIDE DEF c
  <1>13. /\ ctl' \in Invocations' /\ ctl'.round = ctl.round /\ ctl'.plan = ctl.plan /\ ctl'.steps = ctl.steps
         /\ ctl'.at = ctl.at + 1 /\ ctl'.pc = IF ctl.at < N + 5 THEN "choose" ELSE "done"
         /\ ctl'.collected = ctl.collected /\ ctl'.taskTips = r.tips /\ ctl'.record = r
    BY <1>1, <1>3, <1>12, OnwardIs DEF c
  <1>14. ctl'.collected = "pass" /\ ctl'.taskTips \in judged' /\ ctl'.taskTips \in gated'
    BY <1>2, <1>4, <1>6, <1>7, <1>13
  <1>15. Proven(ctl.record)'
    BY <1>2, <1>8, <1>13 DEF Proven
  <1>16. ~(ctl.at <= N)
    BY <1>4
  <1> QED
    BY <1>1, <1>2, <1>3, <1>11, <1>13, <1>14, <1>15, <1>16, GoesOn

LEMMA NotIntegratedKeeps ==
  ASSUME IInv, NotIntegrated
  PROVE  IInv'
  <1> DEFINE u == call.merges # <<>> \/ call.unread
             a == [journal[Step] EXCEPT !.end = "failed", !.unknown = u]
  <1>1. /\ ctl.pc = "integrating" /\ ctl.pc \in Pcs /\ call.pc = "failed" /\ call' = I!NoCall
        /\ journal' = [journal EXCEPT ![Step].end = "failed", ![Step].unknown = u]
        /\ ctl' = [ctl EXCEPT !.pc = "fix"] \/ ctl' = Idle
    BY DEF NotIntegrated, In, Stop, Pcs
  <1>2. /\ UNCHANGED <<branch, tips, clean, onBranch, faults>> /\ UNCHANGED <<fixRounds, judged, gated>>
        /\ UNCHANGED <<reviews, accepted, judged, gated, runs>>
    BY DEF NotIntegrated, gitSide, files, seen
  <1>3. /\ Active /\ ControllerIs /\ CallInv /\ FilesInv /\ JournalIs /\ Step \in DOMAIN journal
    BY <1>1, Acting DEF ControllerIs
  <1>4. /\ N \in Nat /\ ctl.at \in Nat /\ ctl \in Invocations
    BY <1>3, CtlFields
  <1>5. u \in BOOLEAN
    BY <1>1, <1>3, Running, CallFields DEF CallInv
  <1> HIDE DEF u
  <1>6. /\ a \in Attempts /\ a.end = "failed" /\ a.plan = journal[Step].plan
    <2>1. journal[Step] \in Attempts
      BY <1>3, AttemptFields
    <2>2. CASE u
      BY <2>1, <2>2, <1>5 DEF Attempts
    <2>3. CASE ~u
      BY <2>1, <2>3, <1>5 DEF Attempts
    <2> QED
      BY <2>2, <2>3
  <1>7. journal' = Put(journal, Step, a)
    <2>1. journal \in [DOMAIN journal -> Attempts]
      BY <1>3 DEF JournalIs
    <2>2. journal' = [journal EXCEPT ![Step] = a]
      BY <1>1
    <2> HIDE DEF a
    <2> QED
      BY <1>3, <2>1, <2>2 DEF Put
  <1> HIDE DEF a
  <1>8. /\ Kept' /\ DOMAIN journal' = DOMAIN journal
        /\ \A x \in DOMAIN journal : x.name = "fix" => journal'[x].plan = journal[x].plan
        /\ RepairsIn(DOMAIN journal' \ DOMAIN journal) = {}
    <2>1. CallInv'
      <3>1. GitInv'
        BY <1>2, <1>3, GitKept DEF CallInv, GitStays
      <3> QED
        BY <1>1, <3>1, NoCallKeeps
    <2>2. FilesInv'
      BY <1>2, <1>3, FilesStay
    <2>3. a.end # "completed"
      BY <1>6
    <2> QED
      BY <1>1, <1>2, <1>6, <1>7, <2>1, <2>2, <2>3, EndsWell
  <1>9. CASE ctl' = Idle
    BY <1>1, <1>8, <1>9, Stops
  <1>10. CASE ctl' = [ctl EXCEPT !.pc = "fix"]
    <2>1. /\ SamePlace /\ ctl'.pc = "fix" /\ ctl'.taskTips = ctl.taskTips /\ ctl' \in Invocations'
      BY <1>4, <1>10 DEF SamePlace, Invocations, Pcs
    <2>2. judged \subseteq judged' /\ gated \subseteq gated'
      BY <1>2
    <2> QED
      BY <1>1, <1>2, <1>3, <1>8, <2>1, <2>2, Unspent, MovesInPlace
  <1> QED
    BY <1>1, <1>9, <1>10

(* The fix decision of the running round is written: no repair round rests *)
(* on it yet.                                                              *)
LEMMA Decides ==
  ASSUME IInv, ctl.pc = "fix", UNCHANGED <<gitSide, call, faults>>,
         UNCHANGED <<reviews, accepted, judged, gated, runs>>, UNCHANGED fixRounds,
         NEW plan \in Plans,
         journal' = Put(journal, FixId, [Attempt EXCEPT !.end = "completed", !.plan = plan])
  PROVE  /\ Kept' /\ call' = I!NoCall
         /\ RepairsIn(DOMAIN journal') = RepairsIn(DOMAIN journal)
         /\ \A t, r : RecordId(t, r) \in DOMAIN journal' <=> RecordId(t, r) \in DOMAIN journal
         /\ FixId \in DOMAIN journal' /\ journal'[FixId].plan = plan
         /\ \A x \in RepairsIn(DOMAIN journal) : x.round <= ctl.round
         /\ ctl.round \in 0..MaxRounds
  <1>1. /\ Active /\ ControllerIs /\ RoundIs /\ CallInv /\ FilesInv /\ JournalIs /\ Kept /\ call = I!NoCall
    BY Acting DEF Pcs
  <1> DEFINE a == [Attempt EXCEPT !.end = "completed", !.plan = plan]
  <1>2. a \in Attempts /\ a.end = "completed" /\ a.plan = plan
    BY <1>1, AttemptIs DEF Attempts
  <1>3. ctl.round \in 0..MaxRounds
    BY <1>1, CtlFields
  <1>4. FixId \in Ids /\ FixId.name = "fix" /\ FixId.round = ctl.round
    BY <1>3 DEF FixId, StepId, Ids
  <1>5. \A x \in RepairsIn(DOMAIN journal) : x.round <= ctl.round
    BY <1>1 DEF RoundIs
  <1> HIDE DEF a
  <1>6. journal' = Put(journal, FixId, a)
    BY DEF a
  <1>7. Kept'
    <2>1. CallInv' /\ FilesInv' /\ judged \subseteq judged' /\ gated \subseteq gated'
      BY <1>1, FrameKeeps, FilesStay
    <2> QED
      BY <1>1, <1>2, <1>4, <1>5, <1>6, <2>1, KeptMoves
  <1>8. DOMAIN journal' = DOMAIN journal \cup {FixId} /\ journal'[FixId] = a
    BY <1>6 DEF Put
  <1>9. RepairsIn(DOMAIN journal') = RepairsIn(DOMAIN journal)
    BY <1>4, <1>8 DEF RepairsIn
  <1>10. ASSUME NEW t, NEW r PROVE RecordId(t, r) # FixId
    <2>1. RecordId(t, r).name = "record"
      BY DEF RecordId
    <2> QED
      BY <1>4, <2>1
  <1> QED
    BY <1>1, <1>2, <1>3, <1>5, <1>7, <1>8, <1>9, <1>10

LEMMA EscalateKeeps ==
  ASSUME IInv, Escalate
  PROVE  IInv'
  <1>1. /\ ctl.pc = "fix" /\ ctl.pc \in Pcs /\ ctl' = Idle
        /\ journal' = Put(journal, FixId, [Attempt EXCEPT !.end = "completed"])
    BY DEF Escalate, In, Stop, Starts, Put, Pcs
  <1>2. /\ UNCHANGED <<gitSide, call, faults>> /\ UNCHANGED fixRounds
        /\ UNCHANGED <<reviews, accepted, judged, gated, runs>>
    BY DEF Escalate, files, seen
  <1>3. NoPlan \in Plans
    BY <1>1, Acting, AttemptIs
  <1>4. [Attempt EXCEPT !.end = "completed"] = [Attempt EXCEPT !.end = "completed", !.plan = NoPlan]
    <2>1. Attempt \in Attempts /\ Attempt.plan = NoPlan
      BY <1>1, Acting, AttemptIs DEF Attempt
    <2> QED
      BY <2>1 DEF Attempts
  <1>5. Kept' /\ call' = I!NoCall
    BY <1>1, <1>2, <1>3, <1>4, Decides
  <1> QED
    BY <1>1, <1>5, Stops

LEMMA InvocationIs ==
  ASSUME NEW round \in 0..MaxRounds, NEW plan \in Plans, NEW at \in Tips,
         NEW found \in {"none", "pass", "fail"}, NoRecord \in Records
  PROVE  /\ ctl' = [Invocation(round, plan) EXCEPT !.taskTips = at, !.collected = found] => ctl' \in Invocations'
         /\ ctl' = Invocation(round, plan) => ctl' \in Invocations'
  <1> DEFINE s == Steps(round, SetToSeq(DOMAIN plan))
             S == [pc : Pcs, round : 0..MaxRounds, plan : Plans, at : Nat \ {0},
                   steps : {s}, taskTips : Tips, collected : {"none", "pass", "fail"},
                   read : {"none", "pass", "fail"},
                   exit : {"none", "ok", "failed", "unknown", "code"}, record : Records]
             i == [pc |-> "choose", round |-> round, plan |-> plan, at |-> 1, steps |-> s,
                   taskTips |-> NoTips, collected |-> "none", read |-> "none", exit |-> "none",
                   record |-> NoRecord]
  <1>1. Invocation(round, plan) = i
    BY DEF Invocation
  <1> HIDE DEF s
  <1>2. i \in S
    <2>1. NoTips \in Tips
      BY TipAssumption DEF NoTips, Tips
    <2> QED
      BY <2>1 DEF Pcs
  <1> HIDE DEF i
  <1>3. [i EXCEPT !.taskTips = at, !.collected = found] \in S
    BY <1>2
  <1>4. ctl' \in S => ctl' \in Invocations'
    BY DEF Invocations
  <1> HIDE DEF S
  <1> QED
    BY <1>1, <1>2, <1>3, <1>4

LEMMA RetryKeeps ==
  ASSUME IInv, Retry
  PROVE  IInv'
  <1>1. /\ ctl.pc = "fix" /\ ctl.pc \in Pcs
    BY DEF Retry, In, Pcs
  <1>2. /\ UNCHANGED <<gitSide, call, faults>> /\ UNCHANGED fixRounds
        /\ UNCHANGED <<reviews, accepted, judged, gated, runs>>
    BY DEF Retry, files, seen
  <1>3. /\ Active /\ ControllerIs /\ Spent /\ CallInv /\ JournalIs
    BY <1>1, Acting
  <1>4. PICK blamed \in SUBSET Tasks :
           /\ journal' = Put(journal, FixId, [Attempt EXCEPT !.end = "completed",
                                                !.plan = [t \in blamed |-> fixRounds[t] + 1]])
           /\ ctl' = IF ctl.round < Allowed /\ \A t \in blamed : fixRounds[t] + 1 <= Allowed
                     THEN [Invocation(ctl.round + 1, [t \in blamed |-> fixRounds[t] + 1])
                             EXCEPT !.taskTips = ctl.taskTips, !.collected = ctl.collected]
                     ELSE Idle
    BY DEF Retry, Starts, Put
  <1> DEFINE plan == [t \in blamed |-> fixRounds[t] + 1]
             c == [Invocation(ctl.round + 1, plan) EXCEPT !.taskTips = ctl.taskTips, !.collected = ctl.collected]
  <1>5. \A t \in Tasks : fixRounds[t] \in 0..MaxRounds
    BY <1>3 DEF Spent, SpentIn
  <1>6. plan \in Plans /\ DOMAIN plan = blamed /\ \A t \in blamed : plan[t] = fixRounds[t] + 1
    <2>1. \A t \in blamed : fixRounds[t] + 1 \in 0..MaxRounds + 1
      BY <1>5, BudgetAssumption
    <2>2. plan \in [blamed -> 0..MaxRounds + 1]
      BY <2>1
    <2> QED
      BY <2>2 DEF Plans
  <1>7. (\A t \in blamed : fixRounds[t] + 1 <= Allowed) <=> \A t \in blamed : plan[t] <= Allowed
    BY <1>6
  <1> HIDE DEF plan
  <1>8. journal' = Put(journal, FixId, [Attempt EXCEPT !.end = "completed", !.plan = plan])
    BY <1>4 DEF plan
  <1>9. /\ Kept' /\ call' = I!NoCall
        /\ RepairsIn(DOMAIN journal') = RepairsIn(DOMAIN journal)
        /\ \A t, r : RecordId(t, r) \in DOMAIN journal' <=> RecordId(t, r) \in DOMAIN journal
        /\ FixId \in DOMAIN journal' /\ journal'[FixId].plan = plan
        /\ \A x \in RepairsIn(DOMAIN journal) : x.round <= ctl.round
        /\ ctl.round \in 0..MaxRounds
    BY <1>1, <1>2, <1>6, <1>8, Decides
  <1>10. CASE ctl' = Idle
    BY <1>9, <1>10, Stops
  <1>11. CASE ctl' = c /\ ctl.round < Allowed /\ \A t \in blamed : plan[t] <= Allowed
    <2>1. ctl.round + 1 \in 1..MaxRounds
      BY <1>9, <1>11, AllowedIs, BudgetAssumption
    <2>2. /\ c.round = ctl.round + 1 /\ c.plan = plan /\ c.at = 1 /\ c.pc = "choose"
          /\ c.steps = Steps(c.round, SetToSeq(DOMAIN c.plan))
      BY DEF Invocation
    <2>3. ctl' \in Invocations'
      <3>1. NoRecord \in Records /\ ctl.taskTips \in Tips /\ ctl.collected \in {"none", "pass", "fail"}
        BY <1>3, AttemptIs, CtlFields
      <3>2. ctl.round + 1 \in 0..MaxRounds
        BY <2>1
      <3> QED
        BY <1>6, <1>11, <3>1, <3>2, InvocationIs
    <2> HIDE DEF c
    <2>4. ctl'.round = ctl.round + 1 /\ ctl'.plan = plan
      BY <1>11, <2>2
    <2>5. ctl'.round - 1 = ctl.round /\ ctl'.round # 0
      BY <1>9, <2>1, <2>4, BudgetAssumption
    <2>6. StepId("fix", ctl'.round - 1) \in DOMAIN journal' /\ PlanAt(journal', ctl'.round) = plan
      BY <1>9, <2>5 DEF PlanAt, FixId
    <2>7. \A x \in RepairsIn(DOMAIN journal') : x.round <= ctl'.round
      <3>1. \A x \in RepairsIn(DOMAIN journal) : x.round \in 0..MaxRounds /\ x.round <= ctl.round
        BY <1>3, <1>9 DEF JournalIs, RepairsIn, Ids
      <3> QED
        BY <1>9, <2>4, <3>1, BudgetAssumption
    <2>8. PlanFits(DOMAIN journal', ctl'.round, plan)
      <3> SUFFICES ASSUME NEW t \in blamed
                   PROVE  plan[t] \in 1..MaxRounds
                          /\ plan[t] <= Cardinality({r \in RoundsIn(DOMAIN journal', t) : r < ctl'.round}) + 1
        BY <1>6 DEF PlanFits
      <3>1. plan[t] = fixRounds[t] + 1 /\ fixRounds[t] \in 0..MaxRounds /\ plan[t] <= Allowed /\ t \in Tasks
        BY <1>5, <1>6, <1>11
      <3>2. plan[t] \in 1..MaxRounds
        BY <3>1, AllowedIs, BudgetAssumption
      <3>3. fixRounds[t] <= Cardinality(RoundsIn(DOMAIN journal, t))
        BY <1>3, <3>1 DEF Spent, SpentIn
      <3>4. RoundsIn(DOMAIN journal', t) = RoundsIn(DOMAIN journal, t)
        BY <1>9 DEF RoundsIn
      <3>5. ASSUME NEW r \in RoundsIn(DOMAIN journal, t) PROVE r < ctl'.round
        <4>1. RecordId(t, r) \in RepairsIn(DOMAIN journal) /\ RecordId(t, r).round = r /\ r \in 1..MaxRounds
          BY DEF RoundsIn, RecordId, RepairsIn
        <4>2. r <= ctl.round
          BY <1>9, <4>1
        <4> QED
          BY <1>9, <2>4, <4>1, <4>2, BudgetAssumption
      <3>6. {r \in RoundsIn(DOMAIN journal', t) : r < ctl'.round} = RoundsIn(DOMAIN journal, t)
        BY <3>4, <3>5
      <3>7. Cardinality(RoundsIn(DOMAIN journal, t)) \in Nat
        <4>1. RoundsIn(DOMAIN journal, t) \in SUBSET (1..MaxRounds)
          BY DEF RoundsIn
        <4> QED
          BY <4>1, RoundsAreFinite
      <3>8. plan[t] <= Cardinality(RoundsIn(DOMAIN journal, t)) + 1
        BY <3>1, <3>3, <3>7, BudgetAssumption
      <3> QED
        BY <3>2, <3>6, <3>8
    <2>9. PlanRuns(fixRounds', plan)
      <3> SUFFICES ASSUME NEW t \in blamed PROVE fixRounds'[t] \in {plan[t] - 1, plan[t]}
        BY <1>6 DEF PlanRuns
      <3>1. plan[t] = fixRounds[t] + 1 /\ fixRounds[t] \in 0..MaxRounds
        BY <1>5, <1>6
      <3> QED
        BY <1>2, <3>1, BudgetAssumption
    <2>10. RoundIs'
      BY <2>4, <2>5, <2>6, <2>7, <2>8, <2>9 DEF RoundIs
    <2>11. /\ ctl'.pc = "choose" /\ ctl'.at = 1 /\ ctl'.steps = Steps(ctl'.round, SetToSeq(DOMAIN ctl'.plan))
      BY <1>11, <2>2
    <2> QED
      BY <1>9, <2>3, <2>10, <2>11, Enters
  <1> QED
    <2>1. ctl' = IF ctl.round < Allowed /\ \A t \in blamed : fixRounds[t] + 1 <= Allowed THEN c ELSE Idle
      BY <1>4 DEF plan
    <2> HIDE DEF c
    <2> QED
      BY <1>7, <1>10, <1>11, <2>1

LEMMA PriorIs ==
  ASSUME JournalIs
  PROVE  /\ PriorRound \in 0..MaxRounds
         /\ \A x \in RepairsIn(DOMAIN journal) : x.round <= PriorRound
         /\ PriorRound # 0 => \E x \in RepairsIn(DOMAIN journal) : x.round = PriorRound
  <1> DEFINE S == {0} \cup {id.round : id \in {x \in DOMAIN journal : x.name \in {"record", "repair"}}}
  <1>1. \A x \in RepairsIn(DOMAIN journal) : x.round \in 0..MaxRounds /\ x.round \in S
    BY DEF JournalIs, RepairsIn, Ids
  <1>2. \A y \in S : y = 0 \/ \E x \in RepairsIn(DOMAIN journal) : x.round = y
    BY DEF RepairsIn
  <1>6. 0 \in S
    OBVIOUS
  <1>4. PriorRound = Max(S)
    BY DEF PriorRound
  <1> HIDE DEF S
  <1>3. S \subseteq 0..MaxRounds /\ S # {}
    <2>1. 0 \in 0..MaxRounds
      BY BudgetAssumption
    <2>2. ASSUME NEW y \in S PROVE y \in 0..MaxRounds
      BY <1>1, <1>2, <2>1
    <2> QED
      BY <1>6, <2>2
  <1>5. Max(S) \in S /\ \A y \in S : Max(S) >= y
    BY <1>3, MaxIs, BudgetAssumption
  <1> QED
    BY <1>1, <1>2, <1>3, <1>4, <1>5, BudgetAssumption

LEMMA IdleIs ==
  ASSUME IInv, ctl.pc = "idle"
  PROVE  ctl = Idle /\ call = I!NoCall /\ Kept /\ CallInv /\ FilesInv /\ JournalIs /\ Begun
  BY DEF IInv, ControllerInv, Kept, ControllerIs, Invocations, Pcs

LEMMA ResumeKeeps ==
  ASSUME IInv, Resume
  PROVE  IInv'
  <1> DEFINE plan == IF PriorRound = 0 THEN NoPlan ELSE PriorPlan
  <1>1. /\ ctl.pc = "idle" /\ runs < MaxRuns /\ runs' = runs + 1 /\ ctl' = Invocation(PriorRound, plan)
    BY DEF Resume, In
  <1>2. /\ UNCHANGED <<gitSide, call, faults>> /\ UNCHANGED <<journal, fixRounds>>
        /\ UNCHANGED <<reviews, accepted, judged, gated>>
    BY DEF Resume, files, seen
  <1>3. call = I!NoCall /\ Kept /\ CallInv /\ FilesInv /\ JournalIs /\ Begun
    BY <1>1, IdleIs
  <1>4. Kept'
    <2>1. FilesInv'
      BY <1>1, <1>2, <1>3, BudgetAssumption DEF FilesInv
    <2> QED
      BY <1>2, <1>3, <2>1, FrameKeeps, KeptStays
  <1>5. PriorRound \in 0..MaxRounds /\ \A x \in RepairsIn(DOMAIN journal) : x.round <= PriorRound
    BY <1>3, PriorIs
  <1>6. ASSUME PriorRound # 0
        PROVE  /\ StepId("fix", PriorRound - 1) \in DOMAIN journal /\ PriorPlan = PlanAt(journal, PriorRound)
               /\ PlanFits(DOMAIN journal, PriorRound, PriorPlan) /\ PlanRuns(fixRounds, PriorPlan)
    <2>1. PICK x \in RepairsIn(DOMAIN journal) : x.round = PriorRound
      BY <1>3, <1>6, PriorIs
    <2>2. PriorPlan = PlanAt(journal, PriorRound)
      BY DEF PriorPlan, PlanAt
    <2> QED
      BY <1>3, <1>5, <2>1, <2>2 DEF Begun, BegunIn
  <1>7. plan \in Plans
    <2>1. CASE PriorRound = 0
      BY <1>3, <2>1, AttemptIs
    <2>2. CASE PriorRound # 0
      BY <1>3, <1>6, <2>2 DEF PlanAt, JournalIs, Attempts
    <2> QED
      BY <2>1, <2>2
  <1>8. NoRecord \in Records /\ NoTips \in Tips
    BY <1>3, AttemptIs, TipAssumption DEF NoTips, Tips
  <1> HIDE DEF plan
  <1>9. ctl' \in Invocations'
    BY <1>1, <1>5, <1>7, <1>8, InvocationIs
  <1>10. /\ ctl'.round = PriorRound /\ ctl'.plan = plan /\ ctl'.at = 1 /\ ctl'.pc = "choose"
         /\ ctl'.steps = Steps(ctl'.round, SetToSeq(DOMAIN ctl'.plan))
    BY <1>1 DEF Invocation
  <1>11. RoundIs'
    <2>1. PriorRound = 0 => plan = NoPlan
      BY DEF plan
    <2>2. PriorRound # 0 => plan = PriorPlan
      BY DEF plan
    <2> QED
      BY <1>2, <1>5, <1>6, <1>10, <2>1, <2>2 DEF RoundIs
  <1>12. call' = I!NoCall
    BY <1>2, <1>3
  <1> QED
    BY <1>4, <1>9, <1>10, <1>11, <1>12, Enters

LEMMA ResolveKeeps ==
  ASSUME IInv, Resolve
  PROVE  IInv'
  <1>1. ctl.pc = "idle"
    BY DEF Resolve, In
  <1>2. /\ UNCHANGED <<gitSide, call, faults>> /\ UNCHANGED fixRounds /\ UNCHANGED ctl
        /\ UNCHANGED <<reviews, accepted, judged, gated, runs>>
    BY DEF Resolve, files, seen
  <1>3. ctl = Idle /\ call = I!NoCall /\ Kept /\ CallInv /\ FilesInv /\ JournalIs /\ Begun
    BY <1>1, IdleIs
  <1>4. PICK id \in DOMAIN journal, outcome \in {"not-started", "completed"} :
           IsAgent(id) /\ journal' = [journal EXCEPT ![id].dispatch = outcome]
    BY DEF Resolve
  <1> DEFINE a == [journal[id] EXCEPT !.dispatch = outcome]
  <1>5. id \in Ids /\ a \in Attempts
    BY <1>3, AttemptFields DEF Attempts
  <1>6. journal' = Put(journal, id, a)
    <2>1. journal \in [DOMAIN journal -> Attempts]
      BY <1>3 DEF JournalIs
    <2>2. journal' = [journal EXCEPT ![id] = a]
      BY <1>4
    <2> HIDE DEF a
    <2> QED
      BY <2>1, <2>2 DEF Put
  <1> HIDE DEF a
  <1>7. id.name \notin {"fix", "record", "integrate"}
    BY <1>4 DEF IsAgent
  <1>8. Kept'
    <2>1. CallInv' /\ FilesInv' /\ judged \subseteq judged' /\ gated \subseteq gated'
      BY <1>2, <1>3, FrameKeeps, FilesStay
    <2> QED
      BY <1>2, <1>3, <1>5, <1>6, <1>7, <2>1, KeptMoves
  <1> QED
    BY <1>2, <1>3, <1>8, Stops

LEMMA CrashKeeps ==
  ASSUME IInv, Crash
  PROVE  IInv'
  <1>1. ctl' = Idle /\ call' = I!NoCall /\ I!Spend
    BY DEF Crash, Stop
  <1>2. /\ UNCHANGED <<journal, fixRounds>> /\ UNCHANGED <<reviews, accepted, judged, gated, runs>>
    BY DEF Crash, files, seen
  <1>3. Kept /\ CallInv /\ FilesInv
    BY DEF IInv, Kept
  <1>4. branch' \in Histories /\ tips' \in Tips /\ clean' \in BOOLEAN /\ onBranch' \in BOOLEAN
    <2>1. CASE UNCHANGED gitSide
      BY <1>3, <2>1 DEF gitSide, CallInv, GitInv
    <2>2. CASE /\ call.pc = "merge" /\ UNCHANGED <<tips, onBranch>>
               /\ (I!MergeEffect /\ UNCHANGED clean) \/ (UNCHANGED branch /\ clean' = FALSE)
      <3>1. call.pc \in Merges
        BY <2>2 DEF Merges
      <3>2. branch' \in Histories
        BY <1>3, <2>2, <3>1, EffectIs DEF CallInv, GitInv
      <3> QED
        BY <1>3, <2>2, <3>2 DEF CallInv, GitInv
    <2> QED
      BY <2>1, <2>2 DEF Crash
  <1>5. faults' \in 0..MaxFaults
    BY <1>1, <1>3, TipAssumption DEF I!Spend, CallInv, GitInv
  <1>6. CallInv'
    BY <1>1, <1>4, <1>5, NoCallKeeps DEF GitInv
  <1>7. Kept'
    BY <1>2, <1>3, <1>6, FilesStay, KeptStays
  <1> QED
    BY <1>1, <1>7, Stops

LEMMA StutterKeeps ==
  ASSUME IInv, UNCHANGED vars
  PROVE  IInv'
  <1>1. /\ UNCHANGED <<gitSide, call, faults>> /\ UNCHANGED <<ctl, journal, fixRounds, reviews, judged, gated>>
        /\ UNCHANGED <<reviews, accepted, judged, gated, runs>>
    BY DEF vars, files, seen
  <1>2. Kept /\ CallInv /\ FilesInv
    BY DEF IInv, Kept
  <1>3. Kept'
    BY <1>1, <1>2, FrameKeeps, FilesStay, KeptStays
  <1> QED
    BY <1>1, <1>3, CtlStays

LEMMA Starts0 ==
  ASSUME Init
  PROVE  IInv
  <1>1. /\ I!Init /\ ctl = Idle /\ journal = NoPlan /\ reviews = [stamp |-> NoTips, blocks |-> TRUE]
        /\ accepted = {} /\ fixRounds = NoTips /\ judged = {} /\ gated = {} /\ runs = 0
    BY DEF Init
  <1>2. DOMAIN journal = {} /\ NoTips \in Tips
    BY <1>1, TipAssumption DEF NoPlan, NoTips, Tips
  <1>3. GitInv /\ call = I!NoCall
    BY TipAssumption, <1>1 DEF I!Init, GitInv, Histories, Tips, Tasks
  <1>4. CallInv
    <2>1. call.pc = "none"
      BY <1>3 DEF I!NoCall
    <2>2. call.pc \notin Early \cup Tested \cup Merges \cup Final \cup {"verify", "integrated"}
      BY <2>1 DEF Early, Tested, Merges, Final
    <2> QED
      BY <1>3, <2>2 DEF CallInv, CallIs, Looked, Placed, Told
  <1>5. FilesInv
    BY <1>1, <1>2, BudgetAssumption DEF FilesInv
  <1>6. JournalIs /\ JournalProven /\ Begun
    BY <1>1, <1>2 DEF JournalIs, JournalProven, Begun, BegunIn, RepairsIn, NoPlan
  <1>7. Spent
    <2>1. fixRounds \in [Tasks -> 0..MaxRounds] /\ \A t \in Tasks : fixRounds[t] = 0
      BY <1>1, BudgetAssumption DEF NoTips
    <2>2. ASSUME NEW t \in Tasks PROVE fixRounds[t] <= Cardinality(RoundsIn(DOMAIN journal, t))
      <3>1. RoundsIn(DOMAIN journal, t) \in SUBSET (1..MaxRounds)
        BY DEF RoundsIn
      <3>2. Cardinality(RoundsIn(DOMAIN journal, t)) \in Nat
        BY <3>1, RoundsAreFinite
      <3> QED
        BY <2>1, <3>2
    <2> QED
      BY <1>2, <2>1, <2>2 DEF Spent, SpentIn, RepairsIn
  <1>8. ctl.pc = "idle" /\ ~Active
    BY <1>1 DEF Idle, Active
  <1>9. ControllerIs /\ StepInv /\ RoundIs /\ Recorded
    BY <1>1, <1>3, <1>8 DEF ControllerIs, StepInv, RoundIs, Recorded
  <1> QED
    BY <1>4, <1>5, <1>6, <1>7, <1>9 DEF IInv, Kept, ControllerInv

-----------------------------------------------------------------------------
(* The theorems.                                                           *)

(* The controller, its journal and the branches agree in every reachable   *)
(* state (runPhase, resumeWorkflowProfile, executeGate, integrate).        *)
THEOREM PhaseInvariant == Spec => []IInv
  <1>1. Init => IInv
    BY Starts0
  <1>2. IInv /\ [Next]_vars => IInv'
    <2> SUFFICES ASSUME IInv, [Next]_vars
                 PROVE  IInv'
      OBVIOUS
    <2>1. CASE UNCHANGED vars
      BY <2>1, StutterKeeps
    <2>2. CASE Reuse \/ Block \/ Start
      BY <2>2, ReuseKeeps, BlockKeeps, StartKeeps
    <2>3. CASE Agents \/ Reviewers \/ Collect \/ Gate \/ Record \/ Integrate \/ Integrating
      BY <2>3, AgentsKeeps, ReviewersKeeps, CollectKeeps, GateKeeps, RecordKeeps, IntegrateKeeps,
         IntegratingKeeps
    <2>4. CASE Finish \/ Integrated \/ NotIntegrated \/ Escalate \/ Retry
      BY <2>4, FinishKeeps, IntegratedKeeps, NotIntegratedKeeps, EscalateKeeps, RetryKeeps
    <2>5. CASE Resume \/ Resolve \/ Crash \/ Outside
      BY <2>5, ResumeKeeps, ResolveKeeps, CrashKeeps, OutsideStepKeeps
    <2> QED
      BY <2>1, <2>2, <2>3, <2>4, <2>5 DEF Next
  <1> QED
    BY <1>1, <1>2, PTL DEF Spec

(* A complete integration has put exactly the reviewed tips on the run tip *)
(* it was given, and its tree is the one the checks ran in (executeGate,   *)
(* integrate).                                                             *)
THEOREM CompleteIntegrations == Spec => []CompleteIsTested
  <1>1. IInv => CompleteIsTested
    BY Complete DEF IInv, Kept
  <1> QED
    BY <1>1, PhaseInvariant, PTL

(* A failed integration tells every merge it has made (receipt.merges and  *)
(* receipt.pending in integrate).                                          *)
THEOREM ReceiptsTell == Spec => []ReceiptTells
  <1>1. IInv => ReceiptTells
    BY Tells DEF IInv, Kept
  <1> QED
    BY <1>1, PhaseInvariant, PTL

(* A sequence over a set is one over any larger set. *)
LEMMA SeqGrows ==
  ASSUME NEW S, NEW T, S \subseteq T
  PROVE  Seq(S) \subseteq Seq(T)
  <1> SUFFICES ASSUME NEW s \in Seq(S) PROVE s \in Seq(T)
    OBVIOUS
  <1>1. \A i \in 1..Len(s) : s[i] \in T
    OBVIOUS
  <1> QED
    BY <1>1

LEMMA TypesAre ==
  ASSUME IInv
  PROVE  TypeOK
  <1>1. /\ CallInv /\ FilesInv /\ Spent /\ ControllerIs
    BY DEF IInv, Kept, ControllerInv
  <1>2. branch \in Seq([task : Tasks \cup {I!NoTask}, tip : Nat])
    <2> DEFINE X == [task : Tasks \cup {I!NoTask}, tip : Nat]
    <2>1. Commits \subseteq X
      BY TipAssumption DEF Commits
    <2>2. branch \in Seq(Commits)
      BY <1>1 DEF CallInv, GitInv, Histories
    <2> HIDE DEF X
    <2>3. branch \in Seq(X)
      BY <2>1, <2>2, SeqGrows
    <2> QED
      BY <2>3 DEF X
  <1>3. call # I!NoCall => call.tip \in Seq([task : Tasks \cup {I!NoTask}, tip : Nat])
    <2> DEFINE X == [task : Tasks \cup {I!NoTask}, tip : Nat]
    <2>1. Commits \subseteq X
      BY TipAssumption DEF Commits
    <2>2. call # I!NoCall => call.tip \in Seq(Commits)
      BY <1>1, CallFields DEF CallInv, CallIs, Histories
    <2> HIDE DEF X
    <2>3. call # I!NoCall => call.tip \in Seq(X)
      BY <2>1, <2>2, SeqGrows
    <2> QED
      BY <2>3 DEF X
  <1>4. I!TypeOK
    <2>1. call = I!NoCall \/
            /\ call.next \in 1..Len(Order) + 1 /\ call.pending \in 0..Len(Order)
            /\ call.merges \in Seq(1..Len(Order)) /\ call.unread \in BOOLEAN
      BY <1>1, CallFields DEF CallInv, CallIs, Known
    <2>2. tips \in [Tasks -> 0..MaxTip] /\ clean \in BOOLEAN /\ onBranch \in BOOLEAN /\ faults \in 0..MaxFaults
      BY <1>1 DEF CallInv, GitInv, Tips
    <2> QED
      BY <1>2, <1>3, <2>1, <2>2 DEF I!TypeOK, Tasks
  <1>5. call # I!NoCall => In("integrating")
    BY <1>1 DEF ControllerIs, In
  <1> QED
    BY <1>1, <1>4, <1>5 DEF TypeOK, FilesInv, Tips, Spent, SpentIn

(* A phase that is done rests on a review and a gate of the very tips its  *)
(* record names, and each of them is in the record's commit (runPhase,     *)
(* priorDecision).                                                         *)
THEOREM DonePhasesAreProven == Spec => []PhaseProven
  <1>1. IInv => PhaseProven
    <2> SUFFICES ASSUME IInv
                 PROVE  PhaseProven
      OBVIOUS
    <2>1. StepInv /\ FilesInv
      BY DEF IInv, Kept, ControllerInv
    <2> QED
      BY <2>1, TypesAre DEF PhaseProven, StepInv, FilesInv, Proven, In
  <1> QED
    BY <1>1, PhaseInvariant, PTL

(* A killed record-fix-round or controller costs no task a round, and a    *)
(* repair is only dispatched with its rounds on record (recordLanded,      *)
(* priorRepairTasks).                                                      *)
THEOREM RoundsAreSpentOnce == Spec => []RoundSpentOnce
  <1>1. IInv => RoundSpentOnce
    <2> SUFFICES ASSUME IInv
                 PROVE  RoundSpentOnce
      OBVIOUS
    <2>1. \A t \in Tasks : fixRounds[t] <= Cardinality({r \in 1..MaxRounds : Started(RecordId(t, r))})
      BY DEF IInv, Kept, Spent, SpentIn, RoundsIn, Started
    <2>2. ASSUME ctl.pc = "work", Step.name = "repair", NEW t \in DOMAIN ctl.plan
          PROVE  fixRounds[t] = ctl.plan[t]
      <3>1. Active /\ ControllerIs /\ Recorded
        BY <2>2, Acting DEF Pcs
      <3>2. ctl.at = N + 1 /\ N \in Nat
        BY <2>2, <3>1, StepIs, CtlFields
      <3>3. PICK i \in 1..N : Named[i] = t
        BY <2>2, <3>1, CtlFields
      <3>4. i < ctl.at
        BY <3>2
      <3> QED
        BY <3>1, <3>3, <3>4 DEF Recorded
    <2> QED
      BY <2>1, <2>2 DEF RoundSpentOnce, In, Doing
  <1> QED
    BY <1>1, PhaseInvariant, PTL
=============================================================================
