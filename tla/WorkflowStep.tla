---------------------------- MODULE WorkflowStep ----------------------------
(***************************************************************************)
(* One agent step of a workflow run (scripts/workflow-controller.mjs): the *)
(* controller records a start, the start of the `agent-dispatch` effect,   *)
(* its outcome and the step's outcome in the execution journal around the  *)
(* spawn of the agents, and a resumed controller decides from the journal  *)
(* whether to run the step again, to reuse what it left or to stop until   *)
(* an operator resolves the effect.  Controllers overlap, are killed at    *)
(* any point and leave their agents running; workflow-resolve and          *)
(* workflow-prune run beside them.                                         *)
(*                                                                         *)
(* An append to the journal is one step: it is made under the storage lock *)
(* (StorageLock) and is durable once its record is linked (JournalStore).  *)
(***************************************************************************)
EXTENDS Naturals, Sequences, FiniteSets

CONSTANTS
    Controllers, \* processes of workflow-execute and workflow-resume
    MaxAttempts, \* request.limits.maxAttempts
    MaxCrashes,  \* bound: controllers killed
    MaxFaults,   \* bound: writes refused because storage is busy or full
    MaxMoves     \* bound: the tree moves away from what the agents left

ASSUME BoundsAssumption ==
    /\ MaxAttempts \in Nat \ {0}
    /\ MaxCrashes \in Nat /\ MaxFaults \in Nat /\ MaxMoves \in Nat

VARIABLES
    request, \* the journal's `request` step: none, started or completed
    att,     \* the journal's attempts of the step, att[n] the attempt `<step>.<n>`
    store,   \* the retained artifacts
    agent,   \* what became of the agents each attempt spawned
    pc, mem, \* the controllers
    prune,   \* workflow-prune between its reading and its removing
    crashes, faults, moves

journal == <<request, att>>
world == <<store, agent>>
bounds == <<crashes, faults, moves>>
vars == <<request, att, store, agent, pc, mem, prune, crashes, faults, moves>>

Attempts == 1..MaxAttempts
Artifacts == 0..MaxAttempts \* 0: the request; n: the outcome and output of attempt n

Attempt == [effect : {"none", "started", "completed", "failed", "unknown"},
            resolved : {"none", "not-started", "completed"},
            end : {"none", "completed", "failed"}, kept : BOOLEAN]
Begun == [effect |-> "none", resolved |-> "none", end |-> "none", kept |-> FALSE]

(* n: the attempt at hand; result: what the dispatch came to; kept: its    *)
(* outcome is retained; end: the outcome in the journal as read.           *)
Memory == [n : 0..MaxAttempts, result : {"none", "ok", "completed", "failed", "unknown"},
           kept : BOOLEAN, end : {"none", "completed", "failed"}]
Blank == [n |-> 0, result |-> "none", kept |-> FALSE, end |-> "none"]

Stopped == {"idle", "done", "blocked", "failed"}
Dispatching == {"startEffect", "spawn", "await", "settle", "validate", "retain", "end"}
Labels == Stopped \cup Dispatching \cup
          {"retainRequest", "startRequest", "endRequest", "begin", "revalidate", "close"}

TypeOK ==
    /\ request \in {"none", "started", "completed"}
    /\ att \in Seq(Attempt) /\ Len(att) <= MaxAttempts
    /\ store \subseteq Artifacts
    /\ agent \in [Attempts -> {"none", "running", "landed", "spoiled", "gone"}]
    /\ pc \in [Controllers -> Labels] /\ mem \in [Controllers -> Memory]
    /\ prune \in [on : BOOLEAN, live : SUBSET Artifacts]
    /\ crashes \in 0..MaxCrashes /\ faults \in 0..MaxFaults /\ moves \in 0..MaxMoves

Init ==
    /\ request = "none" /\ att = <<>> /\ store = {}
    /\ agent = [n \in Attempts |-> "none"]
    /\ pc = [c \in Controllers |-> "idle"] /\ mem = [c \in Controllers |-> Blank]
    /\ prune = [on |-> FALSE, live |-> {}]
    /\ crashes = 0 /\ faults = 0 /\ moves = 0

Goto(c, label) == pc' = [pc EXCEPT ![c] = label]
Set(c, m) == mem' = [mem EXCEPT ![c] = m]
Fault == faults < MaxFaults /\ faults' = faults + 1 /\ UNCHANGED <<crashes, moves>>

(* validateImplement looks at the branches, whichever attempt made them.   *)
Valid == \E n \in Attempts : agent[n] = "landed"

(* The journal's rule for a start: every earlier effect of the step failed *)
(* or was resolved not-started.                                            *)
Settled(a) == IF a.resolved # "none" THEN a.resolved = "not-started"
              ELSE a.effect \in {"none", "failed"}

MayStart(n) == n = Len(att) + 1 /\ \A m \in 1..Len(att) : Settled(att[m])

MayStartEffect(n) ==
    /\ att[n].end = "none"
    /\ \A m \in 1..Len(att) : m # n => Settled(att[m])

-----------------------------------------------------------------------------
(* workflow-execute starts with an empty journal: it retains the request   *)
(* and records it as a step of its own.                                    *)
Execute(c) ==
    /\ pc[c] \in Stopped /\ request = "none"
    /\ Goto(c, "retainRequest") /\ Set(c, Blank)
    /\ UNCHANGED <<journal, world, prune, bounds>>

RetainRequest(c) ==
    /\ pc[c] = "retainRequest"
    /\ store' = store \cup {0} /\ Goto(c, "startRequest")
    /\ UNCHANGED <<journal, agent, mem, prune, bounds>>

(* Only one start of `request.1` is taken.                                 *)
StartRequest(c) ==
    /\ pc[c] = "startRequest"
    /\ IF request = "none" THEN request' = "started" /\ Goto(c, "endRequest")
       ELSE UNCHANGED request /\ Goto(c, "blocked")
    /\ UNCHANGED <<att, world, mem, prune, bounds>>

EndRequest(c) ==
    /\ pc[c] = "endRequest" /\ request' = "completed"
    /\ Goto(c, "begin") /\ Set(c, [Blank EXCEPT !.n = 1])
    /\ UNCHANGED <<att, world, prune, bounds>>

(* An operator's resolution comes before the recorded outcome.             *)
State(a) == CASE a.resolved # "none" -> a.resolved
              [] a.effect \in {"completed", "failed", "none"} -> a.effect
              [] OTHER -> "unknown"

(* Seeded fault: nothing but a recorded outcome is believed.               *)
DecisionRecorded ==
    IF att = <<>> THEN "run"
    ELSE CASE att[Len(att)].effect \in {"failed", "none"} -> "run"
           [] att[Len(att)].effect = "completed" -> "reuse"
           [] OTHER -> "block"

(* agentDecision about the latest attempt: run the step, reuse it or block.*)
Decision ==
    IF att = <<>> THEN "run"
    ELSE LET last == att[Len(att)] IN
         CASE State(last) \in {"not-started", "failed"} -> "run"
           [] State(last) = "completed" -> "reuse"
           [] State(last) = "none" ->
                 IF last.end = "none" \/ (last.kept /\ Len(att) \in store)
                 THEN "run" ELSE "block"
           [] OTHER -> "block"

InBudget == Len(att) < MaxAttempts

(* workflow-resume reads the request back, then the journal: the attempts  *)
(* and their number are those of this moment.                              *)
Resume(c) ==
    /\ pc[c] \in Stopped
    /\ request = "completed" /\ 0 \in store
    /\ \/ Decision = "run" /\ InBudget
             /\ Goto(c, "begin") /\ Set(c, [Blank EXCEPT !.n = Len(att) + 1])
       \/ Decision = "reuse" /\ Goto(c, "revalidate")
             /\ Set(c, [Blank EXCEPT !.n = Len(att), !.end = att[Len(att)].end])
       \/ (Decision = "block" \/ (Decision = "run" /\ ~InBudget))
             /\ pc[c] # "blocked" /\ Goto(c, "blocked") /\ Set(c, Blank)
    /\ UNCHANGED <<journal, world, prune, bounds>>

(* guarded: the run was suspended or its inputs changed, or the journal    *)
(* refuses the start, which another controller may have made meanwhile.    *)
Begin(c) ==
    /\ pc[c] = "begin"
    /\ \/ /\ MayStart(mem[c].n) /\ att' = Append(att, Begun)
          /\ Goto(c, "startEffect") /\ UNCHANGED bounds
       \/ /\ ~MayStart(mem[c].n) /\ Goto(c, "blocked") /\ UNCHANGED <<att, bounds>>
       \/ /\ Fault /\ Goto(c, "blocked") /\ UNCHANGED att
    /\ UNCHANGED <<request, world, mem, prune>>

(* Seeded fault: the effect is recorded once the agents run.               *)
StartEffectLate(c) ==
    /\ pc[c] = "startEffect" /\ Goto(c, "spawn")
    /\ UNCHANGED <<journal, world, mem, prune, bounds>>

(* The spawn is reached only after the effect's start persisted.           *)
StartEffect(c) ==
    /\ pc[c] = "startEffect"
    /\ LET n == mem[c].n IN
       \/ /\ MayStartEffect(n) /\ att' = [att EXCEPT ![n].effect = "started"]
          /\ Goto(c, "spawn") /\ UNCHANGED <<mem, bounds>>
       \/ /\ ~MayStartEffect(n) /\ UNCHANGED <<att, bounds>>
          /\ Goto(c, "retain") /\ Set(c, [mem[c] EXCEPT !.result = "failed"])
       \/ /\ Fault /\ UNCHANGED att
          /\ Goto(c, "retain") /\ Set(c, [mem[c] EXCEPT !.result = "failed"])
    /\ UNCHANGED <<request, world, prune>>

Spawn(c) ==
    /\ pc[c] = "spawn"
    /\ \/ agent' = [agent EXCEPT ![mem[c].n] = "running"] /\ Goto(c, "await") /\ UNCHANGED mem
       \/ UNCHANGED agent /\ Goto(c, "settle") /\ Set(c, [mem[c] EXCEPT !.result = "unknown"])
    /\ UNCHANGED <<journal, store, prune, bounds>>

(* The command ends by itself, with exit 0, a known exit or another one, or*)
(* is killed at its timeout, which the agents may survive.                 *)
Await(c) ==
    /\ pc[c] = "await"
    /\ LET n == mem[c].n IN
       \/ /\ agent[n] # "running" /\ UNCHANGED agent
          /\ \E r \in {"completed", "failed", "unknown"} : Set(c, [mem[c] EXCEPT !.result = r])
       \/ /\ agent[n] = "running" /\ Set(c, [mem[c] EXCEPT !.result = "unknown"])
          /\ agent' \in {agent, [agent EXCEPT ![n] = "gone"]}
    /\ Goto(c, "settle")
    /\ UNCHANGED <<journal, store, prune, bounds>>

(* The effect's outcome; one that comes after a resolution is refused as   *)
(* out of order, unless it was made before and waited for the lock.        *)
Settle(c) ==
    /\ pc[c] = "settle"
    /\ LET m == mem[c] IN
       \/ /\ att' = [att EXCEPT ![m.n].effect = m.result] /\ UNCHANGED bounds
          /\ Goto(c, IF m.result = "completed" THEN "validate" ELSE "retain")
          /\ UNCHANGED mem
       \/ /\ att[m.n].resolved # "none" /\ UNCHANGED <<att, bounds>>
          /\ Goto(c, "retain") /\ Set(c, [m EXCEPT !.result = "unknown"])
       \/ /\ Fault /\ UNCHANGED att
          /\ Goto(c, "retain") /\ Set(c, [m EXCEPT !.result = "unknown"])
    /\ UNCHANGED <<request, world, prune>>

(* Seeded fault: exit 0 is enough.                                         *)
ValidateNothing(c) ==
    /\ pc[c] = "validate" /\ Goto(c, "retain")
    /\ Set(c, [mem[c] EXCEPT !.result = "ok"])
    /\ UNCHANGED <<journal, world, prune, bounds>>

Validate(c) ==
    /\ pc[c] = "validate" /\ Goto(c, "retain")
    /\ Set(c, [mem[c] EXCEPT !.result = IF Valid THEN "ok" ELSE "failed"])
    /\ UNCHANGED <<journal, world, prune, bounds>>
(* The output, then the outcome; what could not be retained turns a good   *)
(* outcome into a failed one.                                              *)
Retain(c) ==
    /\ pc[c] = "retain" /\ Goto(c, "end")
    /\ LET m == mem[c] IN
       \/ /\ store' = store \cup {m.n} /\ UNCHANGED bounds
          /\ Set(c, [m EXCEPT !.kept = TRUE])
       \/ /\ Fault /\ store' \in {store, store \cup {m.n}}
          /\ Set(c, [m EXCEPT !.kept = store' # store, !.result = "failed"])
    /\ UNCHANGED <<journal, agent, prune>>

(* The step's outcome; there is at most one, and a resumed controller may  *)
(* have closed the attempt.                                                *)
End(c) ==
    /\ pc[c] = "end"
    /\ LET m == mem[c] IN
       \/ /\ att[m.n].end = "none" /\ UNCHANGED bounds
          /\ att' = [att EXCEPT ![m.n].end = IF m.result = "ok" THEN "completed" ELSE "failed",
                                ![m.n].kept = m.kept]
          /\ Goto(c, IF m.result = "ok" THEN "done" ELSE "failed")
       \/ att[m.n].end # "none" /\ Goto(c, "blocked") /\ UNCHANGED <<att, bounds>>
       \/ Fault /\ Goto(c, "blocked") /\ UNCHANGED att
    /\ Set(c, Blank)
    /\ UNCHANGED <<request, world, prune>>

(* completedDecision and revalidated: what the agents left is used if it   *)
(* is valid now; it is retained again unless all of it is still there.     *)
Revalidate(c) ==
    /\ pc[c] = "revalidate"
    /\ LET m == mem[c] IN
       \/ ~Valid /\ Goto(c, "blocked") /\ Set(c, Blank) /\ UNCHANGED <<store, bounds>>
       \/ /\ Valid /\ m.end = "completed" /\ (att[m.n].kept => m.n \in store)
          /\ Goto(c, "done") /\ Set(c, Blank) /\ UNCHANGED <<store, bounds>>
       \/ /\ Valid /\ store' = store \cup {m.n} /\ UNCHANGED bounds
          /\ Goto(c, "close") /\ Set(c, [m EXCEPT !.kept = TRUE])
       \/ Fault /\ Valid /\ Goto(c, "blocked") /\ Set(c, Blank) /\ UNCHANGED store
    /\ UNCHANGED <<journal, agent, prune>>

Close(c) ==
    /\ pc[c] = "close"
    /\ LET m == mem[c] IN
       \/ m.end # "none" /\ Goto(c, "done") /\ UNCHANGED <<att, bounds>>
       \/ /\ m.end = "none" /\ att[m.n].end = "none" /\ UNCHANGED bounds
          /\ att' = [att EXCEPT ![m.n].end = "completed", ![m.n].kept = m.kept]
          /\ Goto(c, "done")
       \/ m.end = "none" /\ att[m.n].end # "none" /\ Goto(c, "blocked") /\ UNCHANGED <<att, bounds>>
       \/ m.end = "none" /\ Fault /\ Goto(c, "blocked") /\ UNCHANGED att
    /\ Set(c, Blank)
    /\ UNCHANGED <<request, world, prune>>

(* A killed controller; its slot stands for a later process.               *)
Crash(c) ==
    /\ pc[c] \notin Stopped /\ crashes < MaxCrashes
    /\ crashes' = crashes + 1 /\ Goto(c, "idle") /\ Set(c, Blank)
    /\ UNCHANGED <<journal, world, prune, faults, moves>>

-----------------------------------------------------------------------------
(* The agents end, with or without the work the step asked for.            *)
AgentEnds(n) ==
    /\ agent[n] = "running"
    /\ agent' \in {[agent EXCEPT ![n] = "landed"], [agent EXCEPT ![n] = "gone"]}
    /\ UNCHANGED <<journal, store, pc, mem, prune, bounds>>

(* The branches or their base move: what was left does not validate.       *)
Move ==
    /\ moves < MaxMoves /\ Valid /\ moves' = moves + 1
    /\ agent' = [n \in Attempts |-> IF agent[n] = "landed" THEN "spoiled" ELSE agent[n]]
    /\ UNCHANGED <<journal, store, pc, mem, prune, crashes, faults>>

(* workflow-resolve, by an operator who looked: `completed` is said of     *)
(* work that is there; `not-started` once no controller and no agent of    *)
(* the attempt is left and there is no work that could be used.            *)
InFlight(n) == \E c \in Controllers : pc[c] \in Dispatching /\ mem[c].n = n

Resolve(n) ==
    /\ n <= Len(att) /\ att[n].effect # "none"
    /\ \E r \in {"not-started", "completed"} \ {att[n].resolved} :
          /\ IF r = "completed" THEN agent[n] = "landed"
             ELSE agent[n] \notin {"running", "landed"} /\ ~InFlight(n)
          /\ att' = [att EXCEPT ![n].resolved = r]
    /\ UNCHANGED <<request, world, pc, mem, prune, bounds>>

Referenced == (IF request = "completed" THEN {0} ELSE {})
              \cup {n \in 1..Len(att) : att[n].kept}

(* Seeded fault: outcomes of failed attempts are not kept.                 *)
PruneReadCompleted ==
    /\ ~prune.on
    /\ prune' = [on |-> TRUE, live |-> {n \in Referenced : n = 0 \/ att[n].end = "completed"}]
    /\ UNCHANGED <<journal, world, pc, mem, bounds>>

(* workflow-prune reads the journal's references and, under the lock of    *)
(* the artifacts only, removes what is not among them: all of it when      *)
(* there are none, otherwise what is too old or too much.                  *)
PruneRead ==
    /\ ~prune.on /\ prune' = [on |-> TRUE, live |-> Referenced]
    /\ UNCHANGED <<journal, world, pc, mem, bounds>>

PruneRemove ==
    /\ prune.on /\ prune' = [on |-> FALSE, live |-> {}]
    /\ \E removed \in IF prune.live = {} THEN {store} ELSE SUBSET (store \ prune.live) :
          store' = store \ removed
    /\ UNCHANGED <<journal, agent, pc, mem, bounds>>

Request(c) == Execute(c) \/ RetainRequest(c) \/ StartRequest(c) \/ EndRequest(c)
Dispatch(c) == Begin(c) \/ StartEffect(c) \/ Spawn(c) \/ Await(c) \/ Settle(c)
               \/ Validate(c) \/ Retain(c) \/ End(c)
Step(c) == Request(c) \/ Resume(c) \/ Dispatch(c) \/ Revalidate(c) \/ Close(c)

Next == \/ \E c \in Controllers : Step(c) \/ Crash(c)
        \/ \E n \in Attempts : AgentEnds(n) \/ Resolve(n)
        \/ Move \/ PruneRead \/ PruneRemove

Spec == Init /\ [][Next]_vars

(* workflow-prune is run while no controller is.                           *)
Quiet == prune.on => \A c \in Controllers : pc[c] \in Stopped
QuietNext == Next /\ Quiet'
QuietSpec == Init /\ [][QuietNext]_vars

(* Controllers and agents go on, and somebody resumes a run that stopped   *)
(* and resolves what blocks it.  Strong fairness: pruning, which keeps     *)
(* controllers away while it lasts, is not done every time one could start.*)
FairSpec == /\ QuietSpec
            /\ \A c \in Controllers : SF_vars(Step(c) /\ Quiet')
            /\ \A n \in Attempts : WF_vars(AgentEnds(n)) /\ WF_vars(Resolve(n))
            /\ WF_vars(PruneRemove)

-----------------------------------------------------------------------------
(* However controllers overlap and die, the agents of the step never run   *)
(* twice at a time, and its attempts stay within their number.             *)
OneAgent == TypeOK /\ Cardinality({n \in Attempts : agent[n] = "running"}) <= 1

(* No agent is started where one before it left work that validates,       *)
(* except when its command is known to have failed.                        *)
NoWorkRepeated ==
    [][\A n \in Attempts : agent[n] = "none" /\ agent'[n] = "running" =>
          \A m \in Attempts : agent[m] = "landed" => att[m].effect = "failed"]_vars

(* An attempt that the journal calls completed rests on work that some     *)
(* attempt really left, if not that one.                                   *)
CompletedIsWork ==
    \A n \in 1..Len(att) : att[n].end = "completed" =>
        \E m \in Attempts : agent[m] \in {"landed", "spoiled"}

(* What the journal refers to is there ("workflow-prune treats every       *)
(* artifact a journal event references as live and never removes it").     *)
ReferencedIsStored == Referenced \subseteq store

(* A run does not stay stopped: the step is completed or its attempts are  *)
(* used up.                                                                *)
StepSettles ==
    (request = "completed") ~> (Len(att) = MaxAttempts \/ \E c \in Controllers : pc[c] = "done")

=============================================================================
