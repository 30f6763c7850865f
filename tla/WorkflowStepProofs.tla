------------------------- MODULE WorkflowStepProofs -------------------------
(***************************************************************************)
(* Theorems about module WorkflowStep, for any number of controllers,      *)
(* attempts, crashes and faults: its agents never run twice at a time, are *)
(* not started where work was left, a completed attempt rests on work, and *)
(* what the journal refers to is stored (QuietSpec).                       *)
(***************************************************************************)
EXTENDS WorkflowStep, FiniteSetTheorems, SequenceTheorems, TLAPS

(* An attempt has one controller.                                          *)
Own == \A c, d \in Controllers :
    pc[c] \in Dispatching /\ pc[d] \in Dispatching /\ mem[c].n = mem[d].n => c = d

(* A controller only ever writes about an attempt it is at, or read, and a *)
(* dispatch that ended has an outcome.                                     *)
InJournal == \A c \in Controllers :
    /\ pc[c] \in Dispatching \cup {"revalidate", "close"} => mem[c].n \in 1..Len(att)
    /\ pc[c] = "settle" => mem[c].result \in {"completed", "failed", "unknown"}

(* What the journal says of the attempt a controller is at.                *)
BeforeEffect == \A c \in Controllers : pc[c] = "startEffect" =>
    att[mem[c].n].effect = "none" /\ agent[mem[c].n] = "none"
NoneCompleted == \A c \in Controllers : pc[c] \in {"startEffect", "spawn"} =>
    att[mem[c].n].resolved # "completed"
AfterEffect == \A c \in Controllers : pc[c] \in {"spawn", "await", "settle"} =>
    att[mem[c].n].effect = "started" /\ att[mem[c].n].resolved # "not-started"

(* While one controller is about to spawn, every other attempt failed, was *)
(* resolved not-started or dispatched nothing.                             *)
SpawnsAlone == \A c \in Controllers : pc[c] = "spawn" =>
    /\ agent[mem[c].n] = "none"
    /\ \A m \in 1..Len(att) : m # mem[c].n =>
          att[m].effect \in {"none", "failed"} \/ att[m].resolved = "not-started"

(* Agents are those of an attempt whose effect is recorded, and running    *)
(* ones of an effect with no outcome, or an unknown one.                   *)
AgentsRecorded == \A n \in Attempts : agent[n] # "none" =>
    n <= Len(att) /\ att[n].effect # "none"
RunningIsOpen == \A n \in Attempts : agent[n] = "running" =>
    att[n].effect \in {"started", "unknown"} /\ att[n].resolved = "none"
RunningIsUnknown == \A c \in Controllers :
    pc[c] = "settle" /\ agent[mem[c].n] = "running" => mem[c].result = "unknown"
NotStarted == \A n \in 1..Len(att) : att[n].resolved = "not-started" =>
    agent[n] \notin {"running", "landed"} /\ att[n].effect # "none"
OneRuns == \A m, n \in Attempts : agent[m] = "running" /\ agent[n] = "running" => m = n

DispatchInv ==
    /\ TypeOK /\ Own /\ InJournal /\ BeforeEffect /\ NoneCompleted
    /\ AfterEffect /\ SpawnsAlone
    /\ AgentsRecorded /\ RunningIsOpen /\ RunningIsUnknown /\ NotStarted /\ OneRuns

(* Who calls an attempt completed saw work.                                *)
Work == \E m \in Attempts : agent[m] \in {"landed", "spoiled"}
SawWork == \A c \in Controllers : mem[c].result = "ok" \/ pc[c] = "close" => Work
WorkInv == SawWork /\ CompletedIsWork

(* What a controller is about to refer to is stored, and workflow-prune,   *)
(* beside which no controller runs, has read all that is referred to.      *)
ToBeReferenced == \A c \in Controllers :
    /\ pc[c] \in {"startRequest", "endRequest"} => 0 \in store
    /\ pc[c] \in {"end", "close"} /\ mem[c].kept => mem[c].n \in store
PruneKnows == prune.on => prune.live = Referenced
StoreInv == Quiet /\ ToBeReferenced /\ PruneKnows /\ ReferencedIsStored

IInv == DispatchInv /\ WorkInv /\ StoreInv

LEMMA InitIInv == Init => IInv
  <1> SUFFICES ASSUME Init PROVE IInv
    OBVIOUS
  <1> USE BoundsAssumption DEF Init, Blank
  <1>1. TypeOK
    <2>1. <<>> \in Seq(Attempt) /\ Len(<<>>) = 0
      BY EmptySeq
    <2> QED
      BY <2>1 DEF TypeOK, Attempts, Artifacts, Memory, Labels, Stopped
  <1>2. DispatchInv
    BY <1>1 DEF DispatchInv, Own, InJournal, BeforeEffect, NoneCompleted,
       AfterEffect, SpawnsAlone,
       AgentsRecorded, RunningIsOpen, RunningIsUnknown, NotStarted, OneRuns, Dispatching
  <1>3. WorkInv
    BY DEF WorkInv, SawWork, CompletedIsWork
  <1>4. StoreInv
    BY DEF StoreInv, Quiet, ToBeReferenced, PruneKnows, ReferencedIsStored, Referenced, Stopped
  <1> QED
    BY <1>2, <1>3, <1>4 DEF IInv

-----------------------------------------------------------------------------
(* What a change of one attempt, and a new one, make of the journal.       *)

LEMMA Changed ==
  ASSUME att \in Seq(Attempt), NEW n \in 1..Len(att), NEW r \in Attempt,
         att' = [att EXCEPT ![n] = r]
  PROVE  /\ att' \in Seq(Attempt) /\ Len(att') = Len(att)
         /\ \A m \in 1..Len(att) : att'[m] = IF m = n THEN r ELSE att[m]
  BY ExceptSeq

LEMMA Added ==
  ASSUME att \in Seq(Attempt), att' = Append(att, Begun)
  PROVE  /\ att' \in Seq(Attempt) /\ Len(att') = Len(att) + 1 /\ Len(att) \in Nat
         /\ \A m \in 1..Len(att) : att'[m] = att[m]
         /\ att'[Len(att) + 1] = Begun
  <1>1. Begun \in Attempt
    BY DEF Begun, Attempt
  <1> QED
    BY <1>1, AppendProperties, LenProperties

-----------------------------------------------------------------------------
(* Type correctness.                                                       *)
ControllersOK == pc \in [Controllers -> Labels] /\ mem \in [Controllers -> Memory]

LEMMA Limits == MaxAttempts \in Nat /\ 0 \in 0..MaxAttempts /\ 1 \in 0..MaxAttempts
  BY BoundsAssumption

LEMMA BlankWritten ==
  ASSUME NEW k \in 0..MaxAttempts, NEW e \in {"none", "completed", "failed"}
  PROVE  /\ [Blank EXCEPT !.n = k] \in Memory
         /\ [Blank EXCEPT !.n = k, !.end = e] \in Memory
  BY DEF Blank, Memory

LEMMA ResultWritten ==
  ASSUME NEW m \in Memory, NEW r \in {"ok", "completed", "failed", "unknown"}
  PROVE  [m EXCEPT !.result = r] \in Memory
  BY DEF Memory

LEMMA KeptWritten ==
  ASSUME NEW m \in Memory
  PROVE  /\ [m EXCEPT !.kept = TRUE] \in Memory
         /\ [m EXCEPT !.kept = TRUE, !.result = "failed"] \in Memory
         /\ [m EXCEPT !.kept = FALSE, !.result = "failed"] \in Memory
  BY DEF Memory

LEMMA ControllersKept == TypeOK /\ [Next]_vars => ControllersOK'
  <1> SUFFICES ASSUME TypeOK, [Next]_vars PROVE ControllersOK'
    OBVIOUS
  <1> USE DEF ControllersOK, Goto, Set, Labels, Stopped, Dispatching
  <1>1. /\ pc \in [Controllers -> Labels] /\ mem \in [Controllers -> Memory]
        /\ Len(att) \in 0..MaxAttempts /\ \A n \in 1..Len(att) : att[n] \in Attempt
    BY LenProperties, ElementOfSeq DEF TypeOK
  <1>2. Blank \in Memory
    BY Limits DEF Blank, Memory
  <1>3. [Blank EXCEPT !.n = 1] \in Memory
    BY Limits, BlankWritten
  <1>4. ASSUME NEW c \in Controllers
        PROVE  \A r \in {"ok", "completed", "failed", "unknown"} : [mem[c] EXCEPT !.result = r] \in Memory
    BY <1>1, ResultWritten
  <1>5. ASSUME NEW c \in Controllers
        PROVE  /\ [mem[c] EXCEPT !.kept = TRUE] \in Memory
               /\ \A k \in BOOLEAN : [mem[c] EXCEPT !.kept = k, !.result = "failed"] \in Memory
    BY <1>1, KeptWritten
  <1>6. ASSUME NEW c \in Controllers, Request(c) PROVE ControllersOK'
    BY <1>1, <1>2, <1>3, <1>6 DEF Request, Execute, RetainRequest, StartRequest, EndRequest
  <1>7. ASSUME NEW c \in Controllers, Resume(c) PROVE ControllersOK'
    <2>1. InBudget => [Blank EXCEPT !.n = Len(att) + 1] \in Memory
      <3>1. InBudget => Len(att) + 1 \in 0..MaxAttempts
        BY <1>1, Limits DEF InBudget
      <3> QED
        BY <3>1, BlankWritten
    <2>2. Decision = "reuse" => [Blank EXCEPT !.n = Len(att), !.end = att[Len(att)].end] \in Memory
      <3>1. Decision = "reuse" => Len(att) \in 1..Len(att)
        BY <1>1, EmptySeq DEF Decision, TypeOK
      <3>2. Decision = "reuse" => att[Len(att)].end \in {"none", "completed", "failed"}
        BY <1>1, <3>1 DEF Attempt
      <3> QED
        BY <1>1, <3>2, BlankWritten
    <2> QED
      BY <1>1, <1>2, <1>7, <2>1, <2>2 DEF Resume
  <1>8. ASSUME NEW c \in Controllers, Begin(c) PROVE ControllersOK'
    BY <1>1, <1>8 DEF Begin
  <1>16. ASSUME NEW c \in Controllers, StartEffect(c) PROVE ControllersOK'
    <2>1. pc' \in [Controllers -> Labels]
      BY <1>1, <1>16 DEF StartEffect
    <2>2. mem' \in [Controllers -> Memory]
      BY <1>1, <1>4, <1>16 DEF StartEffect
    <2> QED
      BY <2>1, <2>2
  <1>17. ASSUME NEW c \in Controllers, Spawn(c) PROVE ControllersOK'
    BY <1>1, <1>4, <1>17 DEF Spawn
  <1>9. ASSUME NEW c \in Controllers, Await(c) PROVE ControllersOK'
    <2>1. pc' \in [Controllers -> Labels]
      BY <1>1, <1>9 DEF Await
    <2>2. mem' \in [Controllers -> Memory]
      BY <1>1, <1>4, <1>9 DEF Await
    <2> QED
      BY <2>1, <2>2
  <1>10. ASSUME NEW c \in Controllers, Settle(c) PROVE ControllersOK'
    BY <1>1, <1>4, <1>10 DEF Settle
  <1>11. ASSUME NEW c \in Controllers, Validate(c) PROVE ControllersOK'
    BY <1>1, <1>4, <1>11 DEF Validate
  <1>12. ASSUME NEW c \in Controllers, Retain(c) PROVE ControllersOK'
    <2>1. (store' # store) \in BOOLEAN
      OBVIOUS
    <2>2. [mem[c] EXCEPT !.kept = store' # store, !.result = "failed"] \in Memory
      BY <1>5, <2>1
    <2> QED
      BY <1>1, <1>5, <1>12, <2>2 DEF Retain
  <1>13. ASSUME NEW c \in Controllers, End(c) \/ Close(c) \/ Crash(c) PROVE ControllersOK'
    BY <1>1, <1>2, <1>13 DEF End, Close, Crash
  <1>14. ASSUME NEW c \in Controllers, Revalidate(c) PROVE ControllersOK'
    BY <1>1, <1>2, <1>5, <1>14 DEF Revalidate
  <1>15. CASE UNCHANGED <<pc, mem>>
    BY <1>1, <1>15
  <1> QED
    BY <1>6, <1>7, <1>8, <1>9, <1>10, <1>11, <1>12, <1>13, <1>14, <1>15, <1>16, <1>17
    DEF Next, Step, Dispatch, AgentEnds, Resolve, Move, PruneRead, PruneRemove, vars

(* What a step makes of the journal, if it changes it.                     *)
LEMMA JournalKept ==
  ASSUME TypeOK, InJournal, [Next]_vars
  PROVE  att' \in Seq(Attempt) /\ Len(att') \in Len(att)..MaxAttempts
  <1>1. /\ att \in Seq(Attempt) /\ Len(att) \in 0..MaxAttempts /\ mem \in [Controllers -> Memory]
        /\ \A n \in 1..Len(att) : att[n] \in Attempt
    BY LenProperties, ElementOfSeq DEF TypeOK
  <1>2. ASSUME NEW c \in Controllers, Begin(c), att' # att
        PROVE  att' \in Seq(Attempt) /\ Len(att') \in Len(att)..MaxAttempts
    <2>1. att' = Append(att, Begun) /\ mem[c].n = Len(att) + 1
      BY <1>2 DEF Begin, MayStart
    <2>2. mem[c].n \in 0..MaxAttempts
      BY <1>1 DEF Memory
    <2>3. att' \in Seq(Attempt) /\ Len(att') = Len(att) + 1
      BY <1>1, <2>1, Added
    <2> QED
      BY ONLY <1>1, <2>1, <2>2, <2>3, Limits
  <1>3. ASSUME NEW n \in 1..Len(att), NEW r \in Attempt, att' = [att EXCEPT ![n] = r]
        PROVE  att' \in Seq(Attempt) /\ Len(att') \in Len(att)..MaxAttempts
    <2>1. att' \in Seq(Attempt) /\ Len(att') = Len(att)
      BY <1>1, <1>3, Changed
    <2> QED
      BY ONLY <1>1, <2>1, Limits
  <1>4. ASSUME NEW c \in Controllers, StartEffect(c) \/ Settle(c) \/ End(c) \/ Close(c), att' # att
        PROVE  \E n \in 1..Len(att), r \in Attempt : att' = [att EXCEPT ![n] = r]
    <2> DEFINE n == mem[c].n
    <2>1. n \in 1..Len(att) /\ att[n] \in Attempt
      BY <1>1, <1>4 DEF InJournal, Dispatching, StartEffect, Settle, End, Close
    <2>2. CASE StartEffect(c)
      <3>1. att' = [att EXCEPT ![n] = [att[n] EXCEPT !.effect = "started"]]
        BY <1>1, <1>4, <2>1, <2>2 DEF StartEffect
      <3>2. [att[n] EXCEPT !.effect = "started"] \in Attempt
        BY <2>1 DEF Attempt
      <3> QED
        BY <2>1, <3>1, <3>2
    <2>3. CASE Settle(c)
      <3>1. att' = [att EXCEPT ![n] = [att[n] EXCEPT !.effect = mem[c].result]]
        BY <1>1, <1>4, <2>1, <2>3 DEF Settle
      <3>2. mem[c].result \in {"completed", "failed", "unknown"}
        BY <2>3 DEF InJournal, Settle
      <3>3. [att[n] EXCEPT !.effect = mem[c].result] \in Attempt
        BY <2>1, <3>2 DEF Attempt
      <3> QED
        BY <2>1, <3>1, <3>3
    <2>4. CASE End(c) \/ Close(c)
      <3>1. PICK e \in {"completed", "failed"} :
              att' = [att EXCEPT ![n] = [att[n] EXCEPT !.end = e, !.kept = mem[c].kept]]
        BY <1>1, <1>4, <2>1, <2>4 DEF End, Close
      <3>2. mem[c].kept \in BOOLEAN
        BY <1>1 DEF Memory
      <3>3. [att[n] EXCEPT !.end = e, !.kept = mem[c].kept] \in Attempt
        BY <2>1, <3>2 DEF Attempt
      <3> QED
        BY <2>1, <3>1, <3>3
    <2> QED
      BY <1>4, <2>2, <2>3, <2>4
  <1>5. ASSUME NEW n \in Attempts, Resolve(n)
        PROVE  \E k \in 1..Len(att), r \in Attempt : att' = [att EXCEPT ![k] = r]
    <2>1. n \in 1..Len(att) /\ att[n] \in Attempt
      BY <1>1, <1>5, Limits DEF Resolve, Attempts
    <2>2. PICK r \in {"not-started", "completed"} : att' = [att EXCEPT ![n] = [att[n] EXCEPT !.resolved = r]]
      BY <1>1, <1>5, <2>1 DEF Resolve
    <2>3. [att[n] EXCEPT !.resolved = r] \in Attempt
      BY <2>1 DEF Attempt
    <2> QED
      BY <2>1, <2>2, <2>3
  <1>6. CASE att' = att
    BY <1>1, <1>6, Limits
  <1> QED
    BY <1>2, <1>3, <1>4, <1>5, <1>6
    DEF Next, Step, Request, Dispatch, AgentEnds, Move, PruneRead, PruneRemove, Crash, vars,
        Execute, RetainRequest, StartRequest, EndRequest, Resume, Spawn, Await, Validate,
        Retain, Revalidate, journal

LEMMA TypeKept == TypeOK /\ InJournal /\ [Next]_vars => TypeOK'
  <1> SUFFICES ASSUME TypeOK, InJournal, [Next]_vars PROVE TypeOK'
    OBVIOUS
  <1>1. ControllersOK'
    BY ControllersKept
  <1>2. att' \in Seq(Attempt) /\ Len(att') \in Len(att)..MaxAttempts
    BY JournalKept
  <1>3. Len(att') <= MaxAttempts
    BY <1>2, LenProperties DEF TypeOK
  <1>4. ASSUME NEW c \in Controllers, Retain(c) \/ Revalidate(c)
        PROVE  store' \subseteq Artifacts
    <2>1. mem[c].n \in Artifacts
      BY DEF TypeOK, Memory, Artifacts
    <2> QED
      BY <1>4, <2>1 DEF TypeOK, Retain, Revalidate
  <1>5. store' \subseteq Artifacts
    BY <1>4, Limits DEF TypeOK, Artifacts, Next, Step, Request, Dispatch, AgentEnds, Resolve, Move, PruneRead,
       PruneRemove, Crash, vars, Execute, RetainRequest, StartRequest, EndRequest, Resume, Begin,
       StartEffect, Spawn, Await, Settle, Validate, End, Close, world
  <1>6. Referenced \subseteq Artifacts
    BY <1>2, LenProperties, Limits DEF Referenced, Artifacts, TypeOK
  <1>7. prune' \in [on : BOOLEAN, live : SUBSET Artifacts]
    <2>1. ASSUME NEW c \in Controllers, Step(c) \/ Crash(c) PROVE UNCHANGED prune
      <3>1. CASE Request(c) \/ Resume(c) \/ Crash(c)
        BY <3>1 DEF Request, Crash, Execute, RetainRequest, StartRequest, EndRequest, Resume
      <3>2. CASE Dispatch(c) \/ Revalidate(c) \/ Close(c)
        BY <3>2 DEF Dispatch, Begin, StartEffect, Spawn, Await, Settle, Validate, Retain, End,
           Revalidate, Close
      <3> QED
        BY <2>1, <3>1, <3>2 DEF Step
    <2>2. CASE UNCHANGED prune
      BY <2>2 DEF TypeOK
    <2>3. CASE PruneRead \/ PruneRemove
      <3>1. ASSUME NEW set \in SUBSET Artifacts
            PROVE  /\ [on |-> TRUE, live |-> set] \in [on : BOOLEAN, live : SUBSET Artifacts]
                   /\ [on |-> FALSE, live |-> set] \in [on : BOOLEAN, live : SUBSET Artifacts]
        OBVIOUS
      <3>2. CASE PruneRead
        BY <1>6, <3>1, <3>2 DEF PruneRead
      <3>3. CASE PruneRemove
        BY <3>1, <3>3 DEF PruneRemove
      <3> QED
        BY <2>3, <3>2, <3>3
    <2> QED
      BY <2>1, <2>2, <2>3 DEF Next, AgentEnds, Resolve, Move, vars
  <1>8. agent' \in [Attempts -> {"none", "running", "landed", "spoiled", "gone"}]
    <2>1. ASSUME NEW c \in Controllers, Spawn(c) \/ Await(c) PROVE agent' \in [Attempts -> {"none", "running", "landed", "spoiled", "gone"}]
      BY <2>1 DEF TypeOK, Spawn, Await
    <2>2. ASSUME NEW n \in Attempts, AgentEnds(n) PROVE agent' \in [Attempts -> {"none", "running", "landed", "spoiled", "gone"}]
      BY <2>2 DEF TypeOK, AgentEnds
    <2>3. CASE Move
      BY <2>3 DEF TypeOK, Move
    <2>4. CASE UNCHANGED agent
      BY <2>4 DEF TypeOK
    <2> QED
      <3>1. ASSUME NEW c \in Controllers, Step(c) \/ Crash(c) PROVE UNCHANGED agent \/ Spawn(c) \/ Await(c)
        BY <3>1 DEF Step, Request, Dispatch, Crash, Execute, RetainRequest, StartRequest,
           EndRequest, Resume, Begin, StartEffect, Settle, Validate, Retain, End, Revalidate, Close, world
      <3> QED
        BY <2>1, <2>2, <2>3, <2>4, <3>1 DEF Next, Resolve, PruneRead, PruneRemove, vars, world
  <1>9. crashes' \in 0..MaxCrashes /\ faults' \in 0..MaxFaults /\ moves' \in 0..MaxMoves
    <2>1. ASSUME NEW c \in Controllers, Step(c) PROVE UNCHANGED bounds \/ Fault
      BY <2>1 DEF Step, Request, Dispatch, Execute, RetainRequest, StartRequest, EndRequest,
         Resume, Begin, StartEffect, Spawn, Await, Settle, Validate, Retain, End, Revalidate,
         Close, bounds
    <2>2. CASE UNCHANGED bounds
      BY <2>2 DEF TypeOK, bounds
    <2>3. CASE Fault
      BY <2>3, BoundsAssumption DEF Fault, TypeOK
    <2>4. ASSUME NEW c \in Controllers, Crash(c)
          PROVE  crashes' \in 0..MaxCrashes /\ faults' \in 0..MaxFaults /\ moves' \in 0..MaxMoves
      BY <2>4, BoundsAssumption DEF Crash, TypeOK
    <2>5. CASE Move
      BY <2>5, BoundsAssumption DEF Move, TypeOK
    <2> QED
      BY <2>1, <2>2, <2>3, <2>4, <2>5 DEF Next, AgentEnds, Resolve, PruneRead, PruneRemove, vars, bounds
  <1>10. request' \in {"none", "started", "completed"}
    <2>1. ASSUME NEW c \in Controllers, StartRequest(c) \/ EndRequest(c) PROVE request' \in {"none", "started", "completed"}
      BY <2>1 DEF TypeOK, StartRequest, EndRequest
    <2>2. CASE UNCHANGED request
      BY <2>2 DEF TypeOK
    <2> QED
      <3>1. ASSUME NEW c \in Controllers, Step(c) \/ Crash(c) PROVE UNCHANGED request \/ StartRequest(c) \/ EndRequest(c)
        BY <3>1 DEF Step, Request, Dispatch, Crash, Execute, RetainRequest, Resume, Begin,
           StartEffect, Spawn, Await, Settle, Validate, Retain, End, Revalidate, Close, journal
      <3> QED
        BY <2>1, <2>2, <3>1 DEF Next, AgentEnds, Resolve, Move, PruneRead, PruneRemove, vars, journal
  <1> QED
    BY <1>1, <1>2, <1>3, <1>5, <1>7, <1>8, <1>9, <1>10 DEF TypeOK, ControllersOK

-----------------------------------------------------------------------------
(* Every step keeps DispatchInv.                                           *)

(* A controller goes on in its dispatch with the same attempt, or leaves   *)
(* it, and neither the effects in the journal nor the agents change.       *)
SameEffects ==
    /\ Len(att') = Len(att) /\ agent' = agent
    /\ \A m \in 1..Len(att) : att'[m].effect = att[m].effect /\ att'[m].resolved = att[m].resolved

LEMMA PlainStep ==
  ASSUME DispatchInv, TypeOK', SameEffects, NEW c \in Controllers,
         \A d \in Controllers : d # c => pc'[d] = pc[d] /\ mem'[d] = mem[d],
         \/ pc'[c] \notin Dispatching \cup {"revalidate", "close"}
         \/ pc'[c] \in {"revalidate", "close"} /\ mem'[c].n \in 1..Len(att)
         \/ pc[c] \in Dispatching /\ pc'[c] \in {"validate", "retain", "end"} /\ mem'[c].n = mem[c].n
  PROVE  DispatchInv'
  <1> USE DEF DispatchInv, SameEffects, Dispatching
  <1>1. Own' /\ InJournal'
    BY DEF Own, InJournal
  <1>2. BeforeEffect' /\ AfterEffect' /\ NoneCompleted'
    <2>1. BeforeEffect'
      BY DEF BeforeEffect, InJournal
    <2>2. AfterEffect'
      BY DEF AfterEffect, InJournal
    <2>3. NoneCompleted'
      BY DEF NoneCompleted, InJournal
    <2> QED
      BY <2>1, <2>2, <2>3
  <1>3. SpawnsAlone'
    BY DEF SpawnsAlone, InJournal
  <1>4. AgentsRecorded' /\ RunningIsOpen'
    <2>1. Len(att) \in Nat
      BY LenProperties DEF TypeOK
    <2> QED
      BY <2>1 DEF AgentsRecorded, RunningIsOpen, Attempts
  <1>5. RunningIsUnknown' /\ NotStarted' /\ OneRuns'
    BY DEF RunningIsUnknown, NotStarted, OneRuns
  <1> QED
    BY <1>1, <1>2, <1>3, <1>4, <1>5

LEMMA PlainSteps ==
  ASSUME DispatchInv, TypeOK', NEW c \in Controllers,
         \/ Request(c) \/ Resume(c) \/ Validate(c) \/ Retain(c) \/ End(c)
         \/ Revalidate(c) \/ Close(c) \/ Crash(c)
  PROVE  DispatchInv'
  <1>1. /\ pc \in [Controllers -> Labels] /\ mem \in [Controllers -> Memory]
        /\ att \in Seq(Attempt) /\ Len(att) \in Nat /\ InJournal
        /\ \A n \in 1..Len(att) : att[n] \in Attempt
    BY LenProperties, ElementOfSeq DEF DispatchInv, TypeOK
  <1> USE DEF Goto, Set, Stopped, Dispatching
  <1>2. CASE Request(c)
    <2>1. SameEffects /\ pc'[c] \notin Dispatching \cup {"revalidate", "close"}
      BY <1>1, <1>2 DEF SameEffects, Request, Execute, RetainRequest, StartRequest, EndRequest, journal, world
    <2>2. \A d \in Controllers : d # c => pc'[d] = pc[d] /\ mem'[d] = mem[d]
      BY <1>1, <1>2 DEF Request, Execute, RetainRequest, StartRequest, EndRequest
    <2> QED
      BY <2>1, <2>2, PlainStep
  <1>3. CASE Resume(c)
    <2>1. SameEffects
      BY <1>3 DEF SameEffects, Resume, journal, world
    <2>2. \A d \in Controllers : d # c => pc'[d] = pc[d] /\ mem'[d] = mem[d]
      BY <1>1, <1>3 DEF Resume
    <2>3. Decision = "reuse" => Len(att) \in 1..Len(att)
      BY <1>1, EmptySeq DEF Decision
    <2>4. \/ pc'[c] \notin Dispatching \cup {"revalidate", "close"}
          \/ pc'[c] = "revalidate" /\ mem'[c].n \in 1..Len(att)
      BY <1>1, <1>3, <2>3 DEF Resume, Blank
    <2> QED
      BY <2>1, <2>2, <2>4, PlainStep
  <1>4. CASE Validate(c) \/ Retain(c)
    <2>1. SameEffects
      BY <1>4 DEF SameEffects, Validate, Retain, journal, world
    <2>2. \A d \in Controllers : d # c => pc'[d] = pc[d] /\ mem'[d] = mem[d]
      BY <1>1, <1>4 DEF Validate, Retain
    <2>3. pc[c] \in Dispatching /\ pc'[c] \in {"validate", "retain", "end"} /\ mem'[c].n = mem[c].n
      BY <1>1, <1>4 DEF Validate, Retain, Memory
    <2> QED
      BY <2>1, <2>2, <2>3, PlainStep
  <1>5. CASE Revalidate(c) \/ Crash(c)
    <2>1. SameEffects
      BY <1>5 DEF SameEffects, Revalidate, Crash, journal, world
    <2>2. \A d \in Controllers : d # c => pc'[d] = pc[d] /\ mem'[d] = mem[d]
      BY <1>1, <1>5 DEF Revalidate, Crash
    <2>3. \/ pc'[c] \notin Dispatching \cup {"revalidate", "close"}
          \/ pc'[c] = "close" /\ mem'[c].n \in 1..Len(att)
      BY <1>1, <1>5 DEF Revalidate, Crash, InJournal, Memory
    <2> QED
      BY <2>1, <2>2, <2>3, PlainStep
  <1>6. CASE End(c) \/ Close(c)
    <2> DEFINE n == mem[c].n
    <2>1. n \in 1..Len(att) /\ att[n] \in Attempt
      BY <1>1, <1>6 DEF InJournal, End, Close
    <2>2. ASSUME NEW e \in {"completed", "failed"}, NEW r,
                 r = [att[n] EXCEPT !.end = e, !.kept = mem[c].kept],
                 att' = [att EXCEPT ![n] = r]
          PROVE  \A m \in 1..Len(att) : att'[m].effect = att[m].effect /\ att'[m].resolved = att[m].resolved
      <3>1. r \in Attempt /\ r.effect = att[n].effect /\ r.resolved = att[n].resolved
        BY <1>1, <2>1, <2>2 DEF Attempt, Memory
      <3>2. \A m \in 1..Len(att) : att'[m] = IF m = n THEN r ELSE att[m]
        BY <1>1, <2>1, <2>2, <3>1, Changed
      <3> QED
        BY <3>1, <3>2
    <2>3. Len(att') = Len(att)
      BY <1>1, <1>6 DEF End, Close
    <2>4. SameEffects
      BY <1>6, <2>2, <2>3 DEF SameEffects, End, Close, world
    <2>5. \A d \in Controllers : d # c => pc'[d] = pc[d] /\ mem'[d] = mem[d]
      BY <1>1, <1>6 DEF End, Close
    <2>6. pc'[c] \notin Dispatching \cup {"revalidate", "close"}
      BY <1>1, <1>6 DEF End, Close
    <2> QED
      BY <2>4, <2>5, <2>6, PlainStep
  <1> QED
    BY <1>2, <1>3, <1>4, <1>5, <1>6

(* The steps around the spawn: c is at attempt n, and nobody else is.      *)
LEMMA DispatchSteps ==
  ASSUME DispatchInv, TypeOK', NEW c \in Controllers,
         Begin(c) \/ StartEffect(c) \/ Spawn(c) \/ Await(c) \/ Settle(c)
  PROVE  DispatchInv'
  <1> DEFINE n == mem[c].n
  <1>1. /\ pc \in [Controllers -> Labels] /\ mem \in [Controllers -> Memory]
        /\ agent \in [Attempts -> {"none", "running", "landed", "spoiled", "gone"}]
        /\ att \in Seq(Attempt) /\ Len(att) \in 0..MaxAttempts
        /\ \A m \in 1..Len(att) : att[m] \in Attempt /\ m \in Attempts
    BY LenProperties, ElementOfSeq, Limits DEF DispatchInv, TypeOK, Attempts
  <1> USE DEF DispatchInv, Goto, Set, Dispatching
  <1>2. CASE Begin(c)
    <2>1. CASE UNCHANGED att
      <3>1. SameEffects /\ pc'[c] = "blocked"
        BY <1>1, <1>2, <2>1 DEF SameEffects, Begin, world
      <3>2. \A d \in Controllers : d # c => pc'[d] = pc[d] /\ mem'[d] = mem[d]
        BY <1>1, <1>2 DEF Begin
      <3> QED
        BY <3>1, <3>2, PlainStep
    <2>2. CASE MayStart(n) /\ att' = Append(att, Begun) /\ Goto(c, "startEffect")
      <3>1. /\ n = Len(att) + 1 /\ Len(att') = Len(att) + 1
            /\ \A m \in 1..Len(att) : att'[m] = att[m]
            /\ att'[n] = Begun /\ UNCHANGED <<agent, mem>>
            /\ \A d \in Controllers : pc'[d] = IF d = c THEN "startEffect" ELSE pc[d]
        BY <1>1, <1>2, <2>2, Added DEF MayStart, Begin, world
      <3>2. \A m \in 1..Len(att) : Settled(att[m])
        BY <2>2 DEF MayStart
      <3>3. Own' /\ InJournal'
        BY <1>1, <3>1 DEF Own, InJournal
      <3>4. agent[n] = "none"
        BY <1>1, <1>2, <2>2, <3>1, Limits DEF AgentsRecorded, Memory, Attempts
      <3>5. BeforeEffect' /\ AfterEffect' /\ NoneCompleted'
        BY <1>1, <3>1, <3>4 DEF BeforeEffect, AfterEffect, NoneCompleted, InJournal, Begun
      <3>6. SpawnsAlone'
        BY <1>1, <3>1, <3>2 DEF SpawnsAlone, InJournal, Begun
      <3>7. AgentsRecorded' /\ RunningIsOpen'
        BY <1>1, <3>1 DEF AgentsRecorded, RunningIsOpen, Attempts
      <3>8. RunningIsUnknown' /\ NotStarted' /\ OneRuns'
        BY <1>1, <3>1 DEF RunningIsUnknown, NotStarted, OneRuns, Begun
      <3> QED
        BY <3>3, <3>5, <3>6, <3>7, <3>8
    <2> QED
      BY <1>2, <2>1, <2>2 DEF Begin
  <1>3. CASE StartEffect(c)
    <2>0. n \in 1..Len(att) /\ att[n] \in Attempt
      BY <1>1, <1>3 DEF InJournal, StartEffect
    <2>1. CASE UNCHANGED att
      <3>1. SameEffects /\ pc'[c] = "retain" /\ mem'[c].n = mem[c].n
        BY <1>1, <1>3, <2>0, <2>1 DEF SameEffects, StartEffect, world, Memory, MayStartEffect, BeforeEffect, Attempt
      <3>2. \A d \in Controllers : d # c => pc'[d] = pc[d] /\ mem'[d] = mem[d]
        BY <1>1, <1>3 DEF StartEffect
      <3> QED
        BY <1>3, <3>1, <3>2, PlainStep DEF StartEffect
    <2>2. CASE MayStartEffect(n) /\ att' = [att EXCEPT ![n].effect = "started"] /\ Goto(c, "spawn") /\ UNCHANGED mem
      <3>1. [att[n] EXCEPT !.effect = "started"] \in Attempt
        BY <2>0 DEF Attempt
      <3>2. att' = [att EXCEPT ![n] = [att[n] EXCEPT !.effect = "started"]]
        BY <1>1, <2>0, <2>2
      <3>3. /\ Len(att') = Len(att)
            /\ \A m \in 1..Len(att) : att'[m] = IF m = n THEN [att[n] EXCEPT !.effect = "started"] ELSE att[m]
        BY <1>1, <2>0, <3>1, <3>2, Changed
      <3>4. /\ att'[n].effect = "started" /\ att'[n].resolved = att[n].resolved
            /\ \A m \in 1..Len(att) : m # n => att'[m] = att[m]
        BY <2>0, <3>3 DEF Attempt
      <3>5. /\ UNCHANGED <<agent, mem>>
            /\ \A d \in Controllers : pc'[d] = IF d = c THEN "spawn" ELSE pc[d]
        BY <1>1, <1>3, <2>2 DEF StartEffect, world
      <3>6. att[n].effect = "none" /\ agent[n] = "none" /\ att[n].resolved # "not-started"
        BY <1>3, <2>0 DEF BeforeEffect, StartEffect, NotStarted
      <3>7. \A m \in 1..Len(att) : m # n => Settled(att[m])
        BY <2>2 DEF MayStartEffect
      <3>8. Own' /\ InJournal'
        BY <1>3, <3>3, <3>5 DEF Own, InJournal, StartEffect
      <3>9. \A d \in Controllers : d # c /\ pc[d] \in Dispatching => mem[d].n # n
        BY <1>3 DEF Own, StartEffect
      <3>10. BeforeEffect' /\ AfterEffect' /\ NoneCompleted'
        BY <1>3, <2>0, <3>4, <3>5, <3>6, <3>9 DEF BeforeEffect, AfterEffect, NoneCompleted, InJournal, StartEffect
      <3>11. SpawnsAlone'
        <4>1. \A d \in Controllers : d # c => pc[d] # "spawn"
          BY <3>7, <3>9 DEF AfterEffect, InJournal, Settled
        <4> QED
          BY <3>3, <3>4, <3>5, <3>6, <3>7, <4>1 DEF SpawnsAlone, Settled
      <3>12. AgentsRecorded' /\ RunningIsOpen'
        BY <1>1, <2>0, <3>3, <3>4, <3>5, <3>6 DEF AgentsRecorded, RunningIsOpen, Attempts
      <3>13. RunningIsUnknown' /\ NotStarted' /\ OneRuns'
        BY <2>0, <3>3, <3>4, <3>5, <3>6 DEF RunningIsUnknown, NotStarted, OneRuns
      <3> QED
        BY <3>8, <3>10, <3>11, <3>12, <3>13
    <2> QED
      BY <1>3, <2>1, <2>2 DEF StartEffect
  <1>4. CASE Spawn(c)
    <2>0. n \in 1..Len(att) /\ n \in Attempts
      BY <1>1, <1>4 DEF InJournal, Spawn
    <2>1. /\ UNCHANGED att
          /\ \A d \in Controllers : d # c => pc'[d] = pc[d] /\ mem'[d] = mem[d]
      BY <1>1, <1>4 DEF Spawn, journal
    <2>2. /\ pc'[c] \in {"await", "settle"} /\ mem'[c].n = n
          /\ pc'[c] = "settle" => mem'[c].result = "unknown" /\ agent' = agent
          /\ pc'[c] = "await" => agent' = [agent EXCEPT ![n] = "running"]
      BY <1>1, <1>4 DEF Spawn, Memory
    <2>3. /\ agent[n] = "none" /\ att[n].effect = "started" /\ att[n].resolved # "not-started"
          /\ \A m \in 1..Len(att) : m # n =>
                att[m].effect \in {"none", "failed"} \/ att[m].resolved = "not-started"
      BY <1>4 DEF SpawnsAlone, AfterEffect, Spawn
    <2>4. \A m \in Attempts : m # n => agent[m] # "running" /\ agent'[m] = agent[m]
      BY <1>1, <2>2, <2>3, Limits DEF AgentsRecorded, RunningIsOpen, NotStarted, Attempts
    <2>5. att[n].resolved = "none"
      <3>1. att[n].resolved # "completed"
        BY <1>4, <2>0 DEF NoneCompleted, Spawn
      <3> QED
        BY <1>1, <2>0, <2>3, <3>1 DEF Attempt
    <2>6. Own' /\ InJournal'
      BY <1>4, <2>0, <2>1, <2>2 DEF Own, InJournal, Spawn
    <2>7. BeforeEffect' /\ AfterEffect'
      BY <1>1, <1>4, <2>1, <2>2, <2>3, <2>4 DEF BeforeEffect, AfterEffect, InJournal, Own, Spawn
    <2>8. SpawnsAlone' /\ NoneCompleted'
      BY <1>1, <1>4, <2>1, <2>2, <2>3, <2>4 DEF SpawnsAlone, NoneCompleted, InJournal, Own, Spawn
    <2>9. AgentsRecorded' /\ RunningIsOpen' /\ OneRuns'
      BY <1>1, <2>0, <2>1, <2>2, <2>3, <2>4, <2>5, Limits
      DEF AgentsRecorded, RunningIsOpen, OneRuns, Attempts
    <2>10. RunningIsUnknown' /\ NotStarted'
      BY <1>1, <1>4, <2>0, <2>1, <2>2, <2>3, <2>4
      DEF RunningIsUnknown, NotStarted, InJournal, Own, Spawn
    <2> QED
      BY <2>6, <2>7, <2>8, <2>9, <2>10
  <1>5. CASE Await(c)
    <2>0. n \in 1..Len(att) /\ n \in Attempts
      BY <1>1, <1>5 DEF InJournal, Await
    <2>1. /\ UNCHANGED att
          /\ \A d \in Controllers : d # c => pc'[d] = pc[d] /\ mem'[d] = mem[d]
      BY <1>1, <1>5 DEF Await, journal
    <2>2. /\ pc'[c] = "settle" /\ mem'[c].n = n
          /\ mem'[c].result \in {"completed", "failed", "unknown"}
          /\ agent[n] = "running" => mem'[c].result = "unknown"
      BY <1>1, <1>5 DEF Await, Memory
    <2>3. agent' = agent \/ (agent[n] = "running" /\ agent' = [agent EXCEPT ![n] = "gone"])
      BY <1>5 DEF Await
    <2>4. \A m \in Attempts : agent'[m] = agent[m] \/ (agent[m] = "running" /\ agent'[m] = "gone")
      BY <1>1, <2>3
    <2>5. Own' /\ InJournal'
      BY <1>5, <2>0, <2>1, <2>2 DEF Own, InJournal, Await
    <2>6. BeforeEffect' /\ AfterEffect'
      BY <1>1, <1>5, <2>1, <2>2, <2>4 DEF BeforeEffect, AfterEffect, InJournal, Await
    <2>7. SpawnsAlone' /\ NoneCompleted'
      BY <1>1, <1>5, <2>1, <2>2, <2>4 DEF SpawnsAlone, NoneCompleted, InJournal, Await
    <2>8. AgentsRecorded' /\ RunningIsOpen' /\ OneRuns'
      BY <2>1, <2>4 DEF AgentsRecorded, RunningIsOpen, OneRuns
    <2>9. RunningIsUnknown' /\ NotStarted'
      BY <1>1, <1>5, <2>1, <2>2, <2>4 DEF RunningIsUnknown, NotStarted, InJournal, Await
    <2> QED
      BY <2>5, <2>6, <2>7, <2>8, <2>9
  <1>6. CASE Settle(c)
    <2>0. n \in 1..Len(att) /\ att[n] \in Attempt /\ mem[c].result \in {"completed", "failed", "unknown"}
      BY <1>1, <1>6 DEF InJournal, Settle
    <2>1. CASE UNCHANGED att
      <3>1. CASE SameEffects /\ pc'[c] \in {"validate", "retain"} /\ mem'[c].n = mem[c].n
        <4>1. \A d \in Controllers : d # c => pc'[d] = pc[d] /\ mem'[d] = mem[d]
          BY <1>1, <1>6 DEF Settle
        <4> QED
          BY <1>6, <3>1, <4>1, PlainStep DEF Settle
      <3> QED
        BY <1>1, <1>6, <2>0, <2>1, <3>1 DEF SameEffects, Settle, world, Memory
    <2>2. CASE att' = [att EXCEPT ![n].effect = mem[c].result] /\ UNCHANGED mem
      <3>1. [att[n] EXCEPT !.effect = mem[c].result] \in Attempt
        BY <2>0 DEF Attempt
      <3>2. att' = [att EXCEPT ![n] = [att[n] EXCEPT !.effect = mem[c].result]]
        BY <1>1, <2>0, <2>2
      <3>3. /\ Len(att') = Len(att)
            /\ \A m \in 1..Len(att) : att'[m] = IF m = n THEN [att[n] EXCEPT !.effect = mem[c].result] ELSE att[m]
        BY <1>1, <2>0, <3>1, <3>2, Changed
      <3>4. /\ att'[n].effect = mem[c].result /\ att'[n].resolved = att[n].resolved
            /\ \A m \in 1..Len(att) : m # n => att'[m] = att[m]
        BY <2>0, <3>3 DEF Attempt
      <3>5. /\ UNCHANGED <<agent, mem>> /\ pc'[c] \in {"validate", "retain"}
            /\ \A d \in Controllers : d # c => pc'[d] = pc[d]
        BY <1>1, <1>6, <2>2 DEF Settle, world
      <3>6. att[n].effect = "started" /\ att[n].resolved # "not-started"
        BY <1>6, <2>0 DEF AfterEffect, Settle
      <3>7. Own' /\ InJournal'
        BY <1>6, <3>3, <3>5 DEF Own, InJournal, Settle
      <3>8. \A d \in Controllers : d # c /\ pc[d] \in Dispatching => mem[d].n # n
        BY <1>6 DEF Own, Settle
      <3>9. BeforeEffect' /\ AfterEffect'
        BY <3>4, <3>5, <3>8 DEF BeforeEffect, AfterEffect, InJournal
      <3>10. SpawnsAlone' /\ NoneCompleted'
        <4>1. \A d \in Controllers : d # c => pc[d] # "spawn"
          BY <2>0, <3>6, <3>8 DEF SpawnsAlone
        <4>2. \A d \in Controllers : pc'[d] # "spawn"
          BY <3>5, <4>1
        <4>3. NoneCompleted'
          BY <3>4, <3>5, <3>8 DEF NoneCompleted, InJournal
        <4> QED
          BY <4>2, <4>3 DEF SpawnsAlone
      <3>11. AgentsRecorded' /\ RunningIsOpen'
        BY <1>1, <1>6, <2>0, <3>3, <3>4, <3>5 DEF AgentsRecorded, RunningIsOpen, RunningIsUnknown, Attempts, Settle
      <3>12. RunningIsUnknown' /\ NotStarted' /\ OneRuns'
        BY <2>0, <3>3, <3>4, <3>5, <3>6, <3>8 DEF RunningIsUnknown, NotStarted, OneRuns, InJournal
      <3> QED
        BY <3>7, <3>9, <3>10, <3>11, <3>12
    <2> QED
      BY <1>6, <2>1, <2>2 DEF Settle
  <1> QED
    BY <1>2, <1>3, <1>4, <1>5, <1>6

(* What goes on beside the controllers.                                    *)
LEMMA OutsideSteps ==
  ASSUME DispatchInv, TypeOK',
         Move \/ \E n \in Attempts : AgentEnds(n) \/ Resolve(n)
  PROVE  DispatchInv'
  <1>1. /\ agent \in [Attempts -> {"none", "running", "landed", "spoiled", "gone"}]
        /\ att \in Seq(Attempt) /\ Len(att) \in 0..MaxAttempts
        /\ \A m \in 1..Len(att) : att[m] \in Attempt /\ m \in Attempts
    BY LenProperties, ElementOfSeq, Limits DEF DispatchInv, TypeOK, Attempts
  <1> USE DEF DispatchInv, Dispatching
  <1>2. CASE Move \/ \E n \in Attempts : AgentEnds(n)
    <2>1. /\ UNCHANGED <<att, pc, mem>>
          /\ \A m \in Attempts : agent'[m] = agent[m] \/ (agent[m] = "running" /\ agent'[m] \in {"landed", "gone"})
                                \/ (agent[m] = "landed" /\ agent'[m] = "spoiled")
      BY <1>1, <1>2 DEF Move, AgentEnds, journal
    <2>2. Own' /\ InJournal' /\ AfterEffect' /\ NoneCompleted'
      BY <2>1 DEF Own, InJournal, AfterEffect, NoneCompleted
    <2>3. BeforeEffect' /\ SpawnsAlone' /\ RunningIsUnknown'
      BY <1>1, <2>1 DEF BeforeEffect, SpawnsAlone, RunningIsUnknown, InJournal
    <2>4. AgentsRecorded' /\ RunningIsOpen' /\ OneRuns'
      BY <2>1 DEF AgentsRecorded, RunningIsOpen, OneRuns
    <2>5. NotStarted'
      BY <1>1, <2>1 DEF NotStarted
    <2> QED
      BY <2>2, <2>3, <2>4, <2>5
  <1>3. ASSUME NEW n \in Attempts, Resolve(n) PROVE DispatchInv'
    <2>0. n \in 1..Len(att) /\ att[n] \in Attempt
      BY <1>1, <1>3, Limits DEF Resolve, Attempts
    <2>1. PICK r \in {"not-started", "completed"} :
            /\ IF r = "completed" THEN agent[n] = "landed"
               ELSE agent[n] \notin {"running", "landed"} /\ ~InFlight(n)
            /\ att' = [att EXCEPT ![n].resolved = r]
      BY <1>3 DEF Resolve
    <2>2. att[n].effect # "none" /\ UNCHANGED <<agent, pc, mem>>
      BY <1>3 DEF Resolve, world
    <2>3. [att[n] EXCEPT !.resolved = r] \in Attempt
      BY <2>0 DEF Attempt
    <2>4. att' = [att EXCEPT ![n] = [att[n] EXCEPT !.resolved = r]]
      BY <1>1, <2>0, <2>1
    <2>5. /\ Len(att') = Len(att)
          /\ \A m \in 1..Len(att) : att'[m] = IF m = n THEN [att[n] EXCEPT !.resolved = r] ELSE att[m]
      BY <1>1, <2>0, <2>3, <2>4, Changed
    <2>6. /\ att'[n].effect = att[n].effect /\ att'[n].resolved = r
          /\ \A m \in 1..Len(att) : m # n => att'[m] = att[m]
      BY <2>0, <2>5 DEF Attempt
    <2>7. Own' /\ InJournal' /\ BeforeEffect'
      BY <2>2, <2>5, <2>6 DEF Own, InJournal, BeforeEffect
    <2>8. AfterEffect' /\ NoneCompleted'
      BY <2>1, <2>2, <2>5, <2>6 DEF AfterEffect, NoneCompleted, InJournal, InFlight, BeforeEffect, SpawnsAlone
    <2>9. SpawnsAlone'
      BY <1>1, <2>1, <2>2, <2>5, <2>6 DEF SpawnsAlone, InJournal, NotStarted
    <2>10. AgentsRecorded' /\ RunningIsOpen'
      BY <1>1, <2>0, <2>1, <2>2, <2>5, <2>6, Limits DEF AgentsRecorded, RunningIsOpen, Attempts
    <2>11. RunningIsUnknown' /\ NotStarted' /\ OneRuns'
      BY <2>0, <2>1, <2>2, <2>5, <2>6 DEF RunningIsUnknown, NotStarted, OneRuns
    <2> QED
      BY <2>7, <2>8, <2>9, <2>10, <2>11
  <1> QED
    BY <1>2, <1>3

LEMMA DispatchKept == DispatchInv /\ [Next]_vars => DispatchInv'
  <1> SUFFICES ASSUME DispatchInv, [Next]_vars PROVE DispatchInv'
    OBVIOUS
  <1>1. TypeOK'
    BY TypeKept DEF DispatchInv
  <1>2. ASSUME NEW c \in Controllers, Step(c) \/ Crash(c) PROVE DispatchInv'
    BY <1>1, <1>2, PlainSteps, DispatchSteps DEF Step, Dispatch
  <1>3. ASSUME UNCHANGED <<att, agent, pc, mem>> PROVE DispatchInv'
    BY <1>1, <1>3
    DEF DispatchInv, Own, InJournal, BeforeEffect, NoneCompleted, AfterEffect, SpawnsAlone,
        AgentsRecorded, RunningIsOpen, RunningIsUnknown, NotStarted, OneRuns
  <1> QED
    <2>1. Move \/ (\E n \in Attempts : AgentEnds(n) \/ Resolve(n)) => DispatchInv'
      BY <1>1, OutsideSteps
    <2>2. PruneRead \/ PruneRemove \/ UNCHANGED vars => UNCHANGED <<att, agent, pc, mem>>
      BY DEF PruneRead, PruneRemove, journal, world, vars
    <2> QED
      BY <1>2, <1>3, <2>1, <2>2 DEF Next

-----------------------------------------------------------------------------
(* Every step keeps WorkInv.                                               *)

LEMMA WorkKept == DispatchInv /\ WorkInv /\ [Next]_vars => WorkInv'
  <1> SUFFICES ASSUME DispatchInv, WorkInv, [Next]_vars PROVE WorkInv'
    OBVIOUS
  <1>1. /\ pc \in [Controllers -> Labels] /\ mem \in [Controllers -> Memory]
        /\ agent \in [Attempts -> {"none", "running", "landed", "spoiled", "gone"}]
        /\ att \in Seq(Attempt) /\ Len(att) \in Nat
        /\ \A m \in 1..Len(att) : att[m] \in Attempt
    BY LenProperties, ElementOfSeq DEF DispatchInv, TypeOK
  <1> USE DEF Goto, Set
  <1>2. Work => Work'
    <2>1. ASSUME NEW m \in Attempts, agent[m] \in {"landed", "spoiled"}
          PROVE  agent'[m] \in {"landed", "spoiled"}
      <3>1. ASSUME NEW c \in Controllers, Step(c) \/ Crash(c)
            PROVE  UNCHANGED agent \/ Spawn(c) \/ Await(c)
        BY <3>1 DEF Step, Request, Dispatch, Crash, Execute, RetainRequest, StartRequest,
           EndRequest, Resume, Begin, StartEffect, Settle, Validate, Retain, End, Revalidate, Close, world
      <3>2. ASSUME NEW c \in Controllers, Spawn(c)
            PROVE  agent'[m] \in {"landed", "spoiled"}
        BY <1>1, <2>1, <3>2 DEF Spawn, DispatchInv, SpawnsAlone
      <3>3. ASSUME NEW c \in Controllers, Await(c)
            PROVE  agent'[m] \in {"landed", "spoiled"}
        BY <1>1, <2>1, <3>3 DEF Await
      <3>4. ASSUME NEW k \in Attempts, AgentEnds(k)
            PROVE  agent'[m] \in {"landed", "spoiled"}
        BY <1>1, <2>1, <3>4 DEF AgentEnds
      <3>5. CASE Move
        BY <1>1, <2>1, <3>5 DEF Move
      <3>6. CASE UNCHANGED agent
        BY <2>1, <3>6
      <3> QED
        BY <3>1, <3>2, <3>3, <3>4, <3>5, <3>6 DEF Next, Resolve, PruneRead, PruneRemove, vars, world
    <2> QED
      BY <2>1 DEF Work
  <1>3. Valid => Work
    BY DEF Valid, Work
  <1>4. ASSUME NEW c \in Controllers, Step(c) \/ Crash(c)
        PROVE  SawWork'
    <2>1. \A d \in Controllers : d # c => pc'[d] = pc[d] /\ mem'[d] = mem[d]
      <3>1. CASE Request(c) \/ Resume(c) \/ Crash(c)
        BY <1>1, <3>1 DEF Request, Crash, Execute, RetainRequest, StartRequest, EndRequest, Resume
      <3>2. CASE Dispatch(c)
        BY <1>1, <3>2 DEF Dispatch, Begin, StartEffect, Spawn, Await, Settle, Validate, Retain, End
      <3>3. CASE Revalidate(c) \/ Close(c)
        BY <1>1, <3>3 DEF Revalidate, Close
      <3> QED
        BY <1>4, <3>1, <3>2, <3>3 DEF Step
    <2>2. mem'[c].result = "ok" \/ pc'[c] = "close" => mem[c].result = "ok" \/ pc[c] = "close" \/ Valid
      <3>0. mem[c] \in Memory
        BY <1>1
      <3>1. CASE Request(c) \/ Resume(c) \/ Crash(c)
        <4>1. CASE Resume(c)
          <5>1. \/ mem'[c] = Blank \/ mem'[c] = [Blank EXCEPT !.n = Len(att) + 1]
                \/ mem'[c] = [Blank EXCEPT !.n = Len(att), !.end = att[Len(att)].end]
            BY <1>1, <4>1 DEF Resume
          <5>2. pc'[c] # "close"
            BY <1>1, <4>1 DEF Resume
          <5>3. mem'[c].result = "none"
            <6>1. CASE mem'[c] = Blank
              BY <6>1 DEF Blank
            <6>2. CASE mem'[c] = [Blank EXCEPT !.n = Len(att) + 1]
              BY <6>2 DEF Blank
            <6>3. CASE mem'[c] = [Blank EXCEPT !.n = Len(att), !.end = att[Len(att)].end]
              BY <6>3 DEF Blank
            <6> QED
              BY <5>1, <6>1, <6>2, <6>3
          <5> QED
            BY <5>2, <5>3
        <4>2. CASE Request(c) \/ Crash(c)
          BY <1>1, <4>2 DEF Request, Crash, Execute, RetainRequest, StartRequest, EndRequest, Blank
        <4> QED
          BY <3>1, <4>1, <4>2
      <3>2. CASE Begin(c)
        BY <1>1, <3>0, <3>2 DEF Begin
      <3>8. CASE Spawn(c)
        BY <1>1, <3>0, <3>8 DEF Spawn, Memory
      <3>5. CASE StartEffect(c) \/ Await(c)
        BY <1>1, <3>0, <3>5 DEF StartEffect, Await, Memory
      <3>3. CASE Settle(c) \/ Validate(c)
        BY <1>1, <3>0, <3>3 DEF Settle, Validate, Memory
      <3>6. CASE End(c)
        BY <1>1, <3>6 DEF End, Blank
      <3>7. CASE Retain(c)
        <4>1. \/ mem'[c] = [mem[c] EXCEPT !.kept = TRUE]
              \/ mem'[c] = [mem[c] EXCEPT !.kept = store' # store, !.result = "failed"]
          BY <1>1, <3>7 DEF Retain
        <4> QED
          BY <1>1, <3>0, <3>7, <4>1 DEF Retain, Memory
      <3>4. CASE Revalidate(c) \/ Close(c)
        BY <1>1, <3>4 DEF Revalidate, Close, Memory, Blank
      <3> QED
        BY <1>4, <3>1, <3>2, <3>3, <3>4, <3>5, <3>6, <3>7, <3>8 DEF Step, Dispatch
    <2> QED
      BY <1>2, <1>3, <2>1, <2>2 DEF WorkInv, SawWork
  <1>5. SawWork'
    <2>1. CASE UNCHANGED <<pc, mem>>
      BY <1>2, <2>1 DEF WorkInv, SawWork
    <2> QED
      BY <1>4, <2>1 DEF Next, AgentEnds, Resolve, Move, PruneRead, PruneRemove, vars
  <1>6. ASSUME NEW m \in 1..Len(att'), att'[m].end = "completed" PROVE Work'
    <2>1. CASE m \in 1..Len(att) /\ att[m].end = "completed"
      BY <1>2, <2>1 DEF WorkInv, CompletedIsWork, Work
    <2>2. ASSUME NEW c \in Controllers, End(c) \/ Close(c) PROVE Work'
      <3>1. mem[c].n \in 1..Len(att)
        BY <2>2 DEF DispatchInv, InJournal, Dispatching, End, Close
      <3>2. CASE mem[c].result = "ok" \/ pc[c] = "close"
        BY <1>2, <3>2 DEF WorkInv, SawWork
      <3>3. CASE End(c) /\ mem[c].result # "ok"
        <4>1. CASE att' = att
          BY <1>6, <2>1, <4>1
        <4>2. CASE att' = [att EXCEPT ![mem[c].n].end = "failed", ![mem[c].n].kept = mem[c].kept]
          BY <1>1, <1>6, <2>1, <3>1, <4>2 DEF Attempt
        <4> QED
          BY <3>3, <4>1, <4>2 DEF End
      <3> QED
        BY <2>2, <3>2, <3>3 DEF Close
    <2>3. ASSUME NEW c \in Controllers, Begin(c) PROVE Work'
      <3>1. CASE att' = att
        BY <1>6, <2>1, <3>1
      <3>2. CASE att' = Append(att, Begun)
        BY <1>1, <1>6, <2>1, <3>2, Added DEF Begun
      <3> QED
        BY <2>3, <3>1, <3>2 DEF Begin
    <2>4. ASSUME NEW c \in Controllers, StartEffect(c) \/ Settle(c) PROVE Work'
      <3>1. mem[c].n \in 1..Len(att)
        BY <2>4 DEF DispatchInv, InJournal, Dispatching, StartEffect, Settle
      <3>2. att[m].end = "completed" /\ m \in 1..Len(att)
        <4>1. att[mem[c].n] \in Attempt
          BY <1>1, <3>1
        <4>2. CASE att' = att
          BY <1>6, <4>2
        <4>3. ASSUME NEW e, att' = [att EXCEPT ![mem[c].n].effect = e]
              PROVE  att[m].end = "completed" /\ m \in 1..Len(att)
          BY <1>1, <1>6, <3>1, <4>1, <4>3 DEF Attempt
        <4> QED
          BY <2>4, <4>2, <4>3 DEF StartEffect, Settle
      <3> QED
        BY <2>1, <3>2
    <2>5. ASSUME NEW k \in Attempts, Resolve(k) PROVE Work'
      <3>1. att[m].end = "completed" /\ m \in 1..Len(att)
        BY <1>1, <1>6, <2>5, Limits DEF Resolve, Attempt, Attempts
      <3> QED
        BY <2>1, <3>1
    <2>6. CASE UNCHANGED att
      BY <1>6, <2>1, <2>6
    <2>7. ASSUME NEW c \in Controllers, Step(c) \/ Crash(c)
          PROVE  UNCHANGED att \/ Begin(c) \/ StartEffect(c) \/ Settle(c) \/ End(c) \/ Close(c)
      BY <2>7 DEF Step, Request, Dispatch, Crash, Execute, RetainRequest, StartRequest, EndRequest,
         Resume, Spawn, Await, Validate, Retain, Revalidate, journal
    <2> QED
      BY <2>2, <2>3, <2>4, <2>5, <2>6, <2>7 DEF Next, AgentEnds, Move, PruneRead, PruneRemove, vars, journal
  <1> QED
    BY <1>5, <1>6 DEF WorkInv, CompletedIsWork, Work

-----------------------------------------------------------------------------
(* Every step beside which no artifact is pruned keeps StoreInv.           *)

LEMMA SameReferences ==
  ASSUME request' = request, Len(att') = Len(att),
         \A m \in 1..Len(att) : att'[m].kept = att[m].kept
  PROVE  Referenced' = Referenced
  BY DEF Referenced

LEMMA StepReferences ==
  ASSUME DispatchInv, NEW c \in Controllers, Step(c) \/ Crash(c)
  PROVE  \A n \in Referenced' : n \in Referenced
            \/ (n = 0 /\ pc[c] = "endRequest")
            \/ (n = mem[c].n /\ mem[c].kept /\ pc[c] \in {"end", "close"})
  <1>1. /\ att \in Seq(Attempt) /\ Len(att) \in Nat
        /\ \A m \in 1..Len(att) : att[m] \in Attempt
    BY LenProperties, ElementOfSeq DEF DispatchInv, TypeOK
  <1>2. CASE Begin(c)
    <2>1. CASE att' = Append(att, Begun)
      <3>1. /\ Len(att') = Len(att) + 1 /\ att'[Len(att) + 1] = Begun
            /\ \A m \in 1..Len(att) : att'[m] = att[m]
        BY <1>1, <2>1, Added
      <3> QED
        BY <1>1, <1>2, <3>1 DEF Begin, Begun, Referenced
    <2>2. CASE UNCHANGED att
      BY <1>2, <2>2, SameReferences DEF Begin
    <2> QED
      BY <1>2, <2>1, <2>2 DEF Begin
  <1>3. CASE StartEffect(c) \/ Settle(c)
    <2>0. mem[c].n \in 1..Len(att) /\ att[mem[c].n] \in Attempt
      BY <1>1, <1>3 DEF DispatchInv, InJournal, Dispatching, StartEffect, Settle
    <2>1. ASSUME NEW e, att' = [att EXCEPT ![mem[c].n].effect = e]
          PROVE  Len(att') = Len(att) /\ \A m \in 1..Len(att) : att'[m].kept = att[m].kept
      BY <1>1, <2>0, <2>1 DEF Attempt
    <2>2. Len(att') = Len(att) /\ \A m \in 1..Len(att) : att'[m].kept = att[m].kept
      BY <1>3, <2>1 DEF StartEffect, Settle
    <2> QED
      BY <1>3, <2>2, SameReferences DEF StartEffect, Settle
  <1>4. CASE End(c) \/ Close(c)
    <2>0. mem[c].n \in 1..Len(att) /\ att[mem[c].n] \in Attempt
      BY <1>1, <1>4 DEF DispatchInv, InJournal, Dispatching, End, Close
    <2>1. ASSUME NEW e, att' = [att EXCEPT ![mem[c].n].end = e, ![mem[c].n].kept = mem[c].kept]
          PROVE  /\ Len(att') = Len(att)
                 /\ \A m \in 1..Len(att) : att'[m].kept = IF m = mem[c].n THEN mem[c].kept ELSE att[m].kept
      BY <1>1, <2>0, <2>1 DEF Attempt
    <2>2. request' = request /\ Len(att') = Len(att)
      BY <1>1, <1>4 DEF End, Close
    <2>3. \A m \in 1..Len(att) : att'[m].kept =>
             att[m].kept \/ (m = mem[c].n /\ mem[c].kept)
      BY <1>4, <2>1 DEF End, Close
    <2> QED
      BY <1>4, <2>2, <2>3 DEF Referenced, End, Close
  <1>5. CASE EndRequest(c)
    BY <1>5 DEF EndRequest, Referenced
  <1>6. CASE StartRequest(c)
    BY <1>6 DEF StartRequest, Referenced
  <1>7. CASE UNCHANGED journal
    BY <1>7, SameReferences DEF journal
  <1> QED
    BY <1>2, <1>3, <1>4, <1>5, <1>6, <1>7
    DEF Step, Request, Dispatch, Crash, Execute, RetainRequest, Resume, Spawn, Await, Validate, Retain, Revalidate

LEMMA OthersWait ==
  ASSUME pc \in [Controllers -> Labels], mem \in [Controllers -> Memory],
         NEW c \in Controllers, Step(c) \/ Crash(c)
  PROVE  \A d \in Controllers : d # c => pc'[d] = pc[d] /\ mem'[d] = mem[d]
  <1> USE DEF Goto, Set
  <1>1. CASE Request(c) \/ Resume(c) \/ Crash(c)
    BY <1>1 DEF Request, Crash, Execute, RetainRequest, StartRequest, EndRequest, Resume
  <1>2. CASE Dispatch(c)
    BY <1>2 DEF Dispatch, Begin, StartEffect, Spawn, Await, Settle, Validate, Retain, End
  <1>3. CASE Revalidate(c) \/ Close(c)
    BY <1>3 DEF Revalidate, Close
  <1> QED
    BY <1>1, <1>2, <1>3 DEF Step

(* Who gets where: to the request's start, to the end of a dispatch.       *)
LEMMA OwnLabels ==
  ASSUME pc \in [Controllers -> Labels], mem \in [Controllers -> Memory],
         NEW c \in Controllers, Step(c) \/ Crash(c)
  PROVE  /\ pc'[c] \in {"startRequest", "endRequest"} => Request(c)
         /\ pc'[c] \in {"end", "close"} => Retain(c) \/ Revalidate(c)
  <1> USE DEF Goto
  <1>1. CASE Request(c)
    BY <1>1 DEF Request, Execute, RetainRequest, StartRequest, EndRequest
  <1>2. CASE Resume(c) \/ Crash(c)
    BY <1>2 DEF Crash, Resume
  <1>3. CASE Begin(c) \/ StartEffect(c) \/ Spawn(c) \/ Await(c)
    BY <1>3 DEF Begin, StartEffect, Spawn, Await
  <1>4. CASE Settle(c) \/ Validate(c) \/ End(c)
    BY <1>4 DEF Settle, Validate, End
  <1>5. CASE Retain(c) \/ Revalidate(c)
    BY <1>5 DEF Retain, Revalidate
  <1>6. CASE Close(c)
    BY <1>6 DEF Close
  <1> QED
    BY <1>1, <1>2, <1>3, <1>4, <1>5, <1>6 DEF Step, Dispatch

(* What is called kept was stored.                                         *)
LEMMA KeepsWhatItStored ==
  ASSUME pc \in [Controllers -> Labels], mem \in [Controllers -> Memory],
         NEW c \in Controllers, Retain(c) \/ Revalidate(c)
  PROVE  pc'[c] \in {"end", "close"} /\ mem'[c].kept => mem'[c].n \in store'
  <1>1. mem[c] \in Memory
    OBVIOUS
  <1>2. CASE store' = store \cup {mem[c].n}
    <2>1. pc'[c] \in {"end", "close"} => mem'[c].n = mem[c].n
      <3>1. CASE Retain(c)
        <4>1. \/ mem'[c] = [mem[c] EXCEPT !.kept = TRUE]
              \/ mem'[c] = [mem[c] EXCEPT !.kept = store' # store, !.result = "failed"]
          BY <3>1 DEF Retain, Set
        <4> QED
          BY <1>1, <4>1 DEF Memory
      <3>2. CASE Revalidate(c)
        <4>1. pc'[c] \in {"end", "close"} => mem'[c] = [mem[c] EXCEPT !.kept = TRUE]
          BY <3>2 DEF Revalidate, Goto, Set
        <4> QED
          BY <1>1, <4>1 DEF Memory
      <3> QED
        BY <3>1, <3>2
    <2> QED
      BY <1>2, <2>1
  <1>3. CASE store' = store
    <2>1. CASE Retain(c)
      <3>1. \/ mem[c].n \in store
            \/ mem'[c] = [mem[c] EXCEPT !.kept = store' # store, !.result = "failed"]
        BY <1>3, <2>1 DEF Retain, Set
      <3>2. mem'[c].n = mem[c].n
        BY <1>1, <2>1 DEF Retain, Set, Memory
      <3>3. (store' # store) = FALSE
        BY <1>3
      <3>4. [mem[c] EXCEPT !.kept = FALSE, !.result = "failed"].kept = FALSE
        BY <1>1 DEF Memory
      <3> QED
        BY <1>3, <3>1, <3>2, <3>3, <3>4
    <2>2. CASE Revalidate(c)
      <3>1. pc'[c] \in {"end", "close"} => store' = store \cup {mem[c].n}
        BY <2>2 DEF Revalidate, Goto
      <3> QED
        BY <1>2, <3>1
    <2> QED
      BY <2>1, <2>2
  <1> QED
    BY <1>2, <1>3 DEF Retain, Revalidate

(* A command that ends at once writes nothing.                             *)
LEMMA StoppedWritesNothing ==
  ASSUME pc \in [Controllers -> Labels], mem \in [Controllers -> Memory],
         NEW c \in Controllers, Step(c) \/ Crash(c), pc[c] \in Stopped, pc'[c] \in Stopped
  PROVE  UNCHANGED journal
  <1> USE DEF Stopped, Goto
  <1>1. CASE Request(c)
    BY <1>1 DEF Request, Execute, RetainRequest, StartRequest, EndRequest
  <1>2. CASE Resume(c) \/ Crash(c)
    BY <1>2 DEF Resume, Crash
  <1>3. CASE Dispatch(c)
    BY <1>3 DEF Dispatch, Begin, StartEffect, Spawn, Await, Settle, Validate, Retain, End
  <1>4. CASE Revalidate(c) \/ Close(c)
    BY <1>4 DEF Revalidate, Close
  <1> QED
    BY <1>1, <1>2, <1>3, <1>4 DEF Step

LEMMA StoreKept == DispatchInv /\ StoreInv /\ [QuietNext]_vars => StoreInv'
  <1> SUFFICES ASSUME DispatchInv, StoreInv, [QuietNext]_vars PROVE StoreInv'
    OBVIOUS
  <1>1. /\ pc \in [Controllers -> Labels] /\ mem \in [Controllers -> Memory]
        /\ att \in Seq(Attempt) /\ Len(att) \in Nat
        /\ \A m \in 1..Len(att) : att[m] \in Attempt
    BY LenProperties, ElementOfSeq DEF DispatchInv, TypeOK
  <1> USE DEF StoreInv
  <1>2. Quiet'
    BY DEF QuietNext, Quiet, vars
  <1>3. ASSUME NEW c \in Controllers, Step(c) \/ Crash(c) PROVE StoreInv'
    <2>1. store \subseteq store' /\ UNCHANGED prune
      <3>1. CASE Request(c) \/ Resume(c) \/ Crash(c)
        BY <3>1 DEF Request, Crash, Execute, RetainRequest, StartRequest, EndRequest, Resume, world
      <3>2. CASE Begin(c) \/ StartEffect(c) \/ Spawn(c) \/ Await(c) \/ Settle(c) \/ Validate(c)
        BY <3>2 DEF Begin, StartEffect, Spawn, Await, Settle, Validate, world
      <3>3. CASE Retain(c) \/ End(c) \/ Revalidate(c) \/ Close(c)
        BY <3>3 DEF Retain, End, Revalidate, Close, world
      <3> QED
        BY <1>3, <3>1, <3>2, <3>3 DEF Step, Dispatch
    <2>2. ReferencedIsStored'
      BY <2>1, StepReferences, <1>3 DEF ReferencedIsStored, ToBeReferenced
    <2>3. ToBeReferenced'
      <3>1. \A d \in Controllers : d # c => pc'[d] = pc[d] /\ mem'[d] = mem[d]
        BY <1>1, <1>3, OthersWait
      <3>2. pc'[c] \in {"startRequest", "endRequest"} => 0 \in store'
        <4>1. CASE Request(c)
          BY <1>1, <2>1, <4>1
          DEF Request, Execute, RetainRequest, StartRequest, EndRequest, ToBeReferenced, Goto, Set
        <4>2. CASE ~Request(c)
          BY <1>1, <1>3, <4>2, OwnLabels
        <4> QED
          BY <4>1, <4>2
      <3>3. pc'[c] \in {"end", "close"} /\ mem'[c].kept => mem'[c].n \in store'
        <4>1. CASE Retain(c) \/ Revalidate(c)
          BY <1>1, <4>1, KeepsWhatItStored
        <4>2. CASE ~(Retain(c) \/ Revalidate(c))
          BY <1>1, <1>3, <4>2, OwnLabels
        <4> QED
          BY <4>1, <4>2
      <3> QED
        BY <2>1, <3>1, <3>2, <3>3 DEF ToBeReferenced
    <2>4. PruneKnows'
      <3>1. CASE prune.on
        <4>1. pc[c] \in Stopped /\ pc'[c] \in Stopped
          BY <1>2, <2>1, <3>1 DEF Quiet
        <4>2. UNCHANGED journal
          BY <1>1, <1>3, <4>1, StoppedWritesNothing
        <4> QED
          BY <2>1, <4>2, SameReferences DEF PruneKnows, journal
      <3>2. CASE ~prune.on
        BY <2>1, <3>2 DEF PruneKnows
      <3> QED
        BY <3>1, <3>2
    <2> QED
      BY <1>2, <2>2, <2>3, <2>4
  <1>4. ASSUME NEW n \in Attempts, Resolve(n) PROVE StoreInv'
    <2>1. n \in 1..Len(att) /\ att[n] \in Attempt
      BY <1>1, <1>4, Limits DEF Resolve, Attempts
    <2>2. Len(att') = Len(att) /\ \A m \in 1..Len(att) : att'[m].kept = att[m].kept
      BY <1>1, <1>4, <2>1 DEF Resolve, Attempt
    <2>3. Referenced' = Referenced /\ UNCHANGED <<store, pc, mem, prune>>
      BY <1>4, <2>2, SameReferences DEF Resolve, world
    <2> QED
      BY <1>2, <2>3 DEF ToBeReferenced, PruneKnows, ReferencedIsStored
  <1>5. CASE UNCHANGED <<journal, store, pc, mem, prune>>
    <2>1. Referenced' = Referenced
      BY <1>5, SameReferences DEF journal
    <2> QED
      BY <1>2, <1>5, <2>1 DEF ToBeReferenced, PruneKnows, ReferencedIsStored
  <1>6. CASE PruneRead
    <2>1. Referenced' = Referenced
      BY <1>6, SameReferences DEF PruneRead, journal
    <2> QED
      BY <1>2, <1>6, <2>1 DEF PruneRead, world, ToBeReferenced, PruneKnows, ReferencedIsStored
  <1>7. CASE PruneRemove
    <2>1. Referenced' = Referenced /\ UNCHANGED <<pc, mem>>
      BY <1>7, SameReferences DEF PruneRemove, journal
    <2>2. ToBeReferenced'
      BY <1>7, <2>1 DEF PruneRemove, Quiet, Stopped, ToBeReferenced
    <2>3. ReferencedIsStored' /\ PruneKnows'
      BY <1>7, <2>1 DEF PruneRemove, PruneKnows, ReferencedIsStored
    <2> QED
      BY <1>2, <2>2, <2>3
  <1>8. CASE Move \/ \E n \in Attempts : AgentEnds(n)
    BY <1>5, <1>8 DEF Move, AgentEnds
  <1> QED
    BY <1>3, <1>4, <1>5, <1>6, <1>7, <1>8 DEF QuietNext, Next, vars, journal

-----------------------------------------------------------------------------
LEMMA IInvInvariant == QuietSpec => []IInv
  <1>1. IInv /\ [QuietNext]_vars => IInv'
    BY DispatchKept, WorkKept, StoreKept DEF IInv, QuietNext
  <1> QED
    BY InitIInv, <1>1, PTL DEF QuietSpec

(* However controllers overlap and die, the agents of the step never run   *)
(* twice at a time.                                                        *)
THEOREM OneAgentHolds == QuietSpec => []OneAgent
  <1>1. IInv => OneAgent
    <2> SUFFICES ASSUME IInv PROVE OneAgent
      OBVIOUS
    <2> DEFINE Running == {n \in Attempts : agent[n] = "running"}
    <2>1. \A m, n \in Running : m = n
      BY DEF IInv, DispatchInv, OneRuns
    <2>2. Running = {} \/ \E n : Running = {n}
      BY <2>1
    <2>3. Cardinality(Running) <= 1
      <3> HIDE DEF Running
      <3>1. CASE Running = {}
        BY <3>1, FS_EmptySet
      <3>2. ASSUME NEW n, Running = {n} PROVE Cardinality(Running) <= 1
        BY <3>2, FS_Singleton
      <3> QED
        BY <2>2, <3>1, <3>2
    <2> QED
      BY <2>3 DEF OneAgent, IInv, DispatchInv
  <1> QED
    BY IInvInvariant, <1>1, PTL

(* No agent is started where one before it left work that validates,       *)
(* unless its command is known to have failed.                             *)
THEOREM NoWorkRepeatedHolds == QuietSpec => NoWorkRepeated
  <1> DEFINE Repeats == \A n \in Attempts : agent[n] = "none" /\ agent'[n] = "running" =>
                 \A m \in Attempts : agent[m] = "landed" => att[m].effect = "failed"
  <1>1. IInv /\ [QuietNext]_vars => [Repeats]_vars
    <2> SUFFICES ASSUME IInv, QuietNext PROVE Repeats
      OBVIOUS
    <2>1. agent \in [Attempts -> {"none", "running", "landed", "spoiled", "gone"}] /\ Len(att) \in Nat
      BY LenProperties DEF IInv, DispatchInv, TypeOK
    <2>2. ASSUME NEW c \in Controllers, Spawn(c) PROVE Repeats
      <3>1. \A m \in 1..Len(att) : m # mem[c].n =>
               att[m].effect \in {"none", "failed"} \/ att[m].resolved = "not-started"
        BY <2>2 DEF IInv, DispatchInv, SpawnsAlone, Spawn
      <3>2. agent[mem[c].n] = "none"
        BY <2>2 DEF IInv, DispatchInv, SpawnsAlone, Spawn
      <3> QED
        BY <2>1, <3>1, <3>2, Limits DEF IInv, DispatchInv, AgentsRecorded, NotStarted, Attempts
    <2>3. ASSUME NEW c \in Controllers, Await(c) PROVE Repeats
      BY <2>1, <2>3 DEF Await
    <2>4. ASSUME NEW n \in Attempts, AgentEnds(n) PROVE Repeats
      BY <2>1, <2>4 DEF AgentEnds
    <2>5. CASE Move
      BY <2>1, <2>5 DEF Move
    <2>6. CASE UNCHANGED agent
      BY <2>6
    <2>7. ASSUME NEW c \in Controllers, Step(c) \/ Crash(c)
          PROVE  UNCHANGED agent \/ Spawn(c) \/ Await(c)
      BY <2>7 DEF Step, Request, Dispatch, Crash, Execute, RetainRequest, StartRequest,
         EndRequest, Resume, Begin, StartEffect, Settle, Validate, Retain, End, Revalidate, Close, world
    <2> QED
      BY <2>2, <2>3, <2>4, <2>5, <2>6, <2>7 DEF QuietNext, Next, Resolve, PruneRead, PruneRemove, world
  <1> QED
    BY IInvInvariant, <1>1, PTL DEF QuietSpec, NoWorkRepeated

(* A completed attempt rests on work that some attempt really left.        *)
THEOREM CompletedIsWorkHolds == QuietSpec => []CompletedIsWork
  <1>1. IInv => CompletedIsWork
    BY DEF IInv, WorkInv
  <1> QED
    BY IInvInvariant, <1>1, PTL

(* workflow-prune, run beside no controller, removes nothing the journal   *)
(* refers to.                                                              *)
THEOREM ReferencedIsStoredHolds == QuietSpec => []ReferencedIsStored
  <1>1. IInv => ReferencedIsStored
    BY DEF IInv, StoreInv
  <1> QED
    BY IInvInvariant, <1>1, PTL
=============================================================================
