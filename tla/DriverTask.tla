----------------------------- MODULE DriverTask -----------------------------
(***************************************************************************)
(* One task of a strict dispatch: processStrictTask of scripts/driver.mjs. *)
(* A dispatch walks the task through three journaled steps,                *)
(*                                                                         *)
(*    harness  ->  collection  ->  verification                            *)
(*                                                                         *)
(* launching the model in a sandbox, moving the task ref of the host       *)
(* repository to the sandbox's tip, and running the mandatory checks.      *)
(* Each step appends a start event before it acts and an end event after.  *)
(* The dispatch may be killed between any two of them; a later dispatch of *)
(* the same execution reads what survived and decides whether it may go on *)
(* and from where.  The driver lock (module DriverLock) keeps dispatches   *)
(* of one run apart, so there is one dispatch at a time here.              *)
(*                                                                         *)
(* Survives a crash: the journal, the session record, both repositories    *)
(* and a model process already launched.  Everything in `mem` is lost.     *)
(***************************************************************************)
EXTENDS Naturals, Sequences

CONSTANTS
    MaxAttempts,  \* contract.maxAttempts
    NoTip,        \* a ref or a checkout that is not there
    MaxTip,       \* bound: commits made after the run tip, which is 0
    MaxStrays     \* bound: ref moves made by anything but driver and model

ASSUME AttemptsAssumption == MaxAttempts \in Nat \ {0}
ASSUME BoundsAssumption == MaxTip \in Nat /\ MaxStrays \in Nat
ASSUME NoTipAssumption == NoTip \notin Nat

VARIABLES
    harness,      \* journal: the harness attempts, in order
    collections,  \* journal: the collection attempts
    verifs,       \* journal: the verification attempts
    record,       \* the session file
    host,         \* the task ref in the host repository
    sandbox,      \* the tip of the task branch in the sandbox
    worker,       \* the model process launched last
    pc, mem,      \* the running dispatch and its local variables
    lastTip, strays, launches

journal == <<harness, collections, verifs>>
world == <<host, sandbox, worker, lastTip, strays, launches>>
vars == <<harness, collections, verifs, record, host, sandbox, worker,
          pc, mem, lastTip, strays, launches>>

Tip == Nat \cup {NoTip}
End == {"open", "completed", "failed"}
Prompt == {"brief", "fixBrief", "refusal"}
Code == {"pass", "pending", "reject", "other"}

(* An invocation binding and its outcome: the host ref and the prompt it   *)
(* was made with, and the retained source tip.                             *)
HarnessAttempt == [host : Tip, prompt : Prompt, end : End, tip : Tip]
Collection == [of : Nat, end : End]
Verification == [of : Nat, tip : Tip, end : End]

States == {"absent", "starting", "running", "result-retained", "collected",
           "done", "orphaned"}

(* `bound`: the record carries this execution's identity and the sandbox.  *)
Record == [bound : BOOLEAN, state : States]

(* latest: the harness attempt whose result is used; hostTip: the host ref *)
(* as last observed; verified: verifications seen when the dispatch began. *)
Memory == [fix : BOOLEAN, latest : Nat, hostTip : Tip, prompt : Prompt,
           refused : BOOLEAN, collection : Nat, verified : Nat, code : Code]

Labels == {"idle", "reconcile", "start", "persistStart", "launch",
           "persistRunning", "await", "retain", "persistResult", "collect",
           "checkHost", "apply", "confirm", "closeCollection",
           "persistCollected", "startVerify", "enforce", "closeVerify",
           "persistDone", "cleanup", "throw"}

TypeOK ==
    /\ harness \in Seq(HarnessAttempt)
    /\ collections \in Seq(Collection)
    /\ verifs \in Seq(Verification)
    /\ \A log \in {harness, collections, verifs} : Len(log) <= MaxAttempts
    /\ record \in Record
    /\ host \in Tip /\ sandbox \in Tip
    /\ worker \in {"none", "running", "exited", "failed"}
    /\ pc \in Labels
    /\ mem \in Memory
    /\ lastTip \in 0..MaxTip /\ strays \in 0..MaxStrays /\ launches \in Nat

Forgotten == [fix |-> FALSE, latest |-> 0, hostTip |-> NoTip,
              prompt |-> "brief", refused |-> FALSE, collection |-> 0,
              verified |-> 0, code |-> "other"]

Init ==
    /\ harness = <<>> /\ collections = <<>> /\ verifs = <<>>
    /\ record = [bound |-> FALSE, state |-> "absent"]
    /\ host = NoTip /\ sandbox = NoTip /\ worker = "none"
    /\ pc = "idle" /\ mem = Forgotten
    /\ lastTip = 0 /\ strays = 0 /\ launches = 0

Latest == harness[mem.latest]
SourceTip == Latest.tip

CollectionsOf(h) == {c \in 1..Len(collections) : collections[c].of = h}
Collected(h) == \E c \in CollectionsOf(h) : collections[c].end = "completed"

-----------------------------------------------------------------------------
(* dispatch, or dispatch --fix-round, reaches this task.                   *)
Dispatch(fix) ==
    /\ pc = "idle"
    /\ pc' = "reconcile"
    /\ mem' = [Forgotten EXCEPT !.fix = fix,
                                !.prompt = IF fix THEN "fixBrief" ELSE "brief",
                                !.verified = Len(verifs),
                                !.latest = Len(harness),
                                !.hostTip = host]
    /\ UNCHANGED <<journal, record, world>>

(* A record of another execution, or of none, is unverified evidence.      *)
RecordUsable == record.state = "absent" \/ record.bound

(* Seeded fault: a host ref that moved since the attempt began is refused  *)
(* even when this result's own collection moved it.                        *)
ResultReachableUnmoved ==
    /\ sandbox = SourceTip \/ mem.hostTip = SourceTip
    /\ mem.hostTip = Latest.host

(* The retained result is still reachable, and nothing moved the host ref  *)
(* but a collection of that very result.                                   *)
ResultReachable ==
    /\ Collected(mem.latest) => mem.hostTip = SourceTip
    /\ sandbox = SourceTip \/ mem.hostTip = SourceTip
    /\ \/ mem.hostTip = Latest.host
       \/ CollectionsOf(mem.latest) # {} /\ mem.hostTip = SourceTip

(* Seeded fault: a fix round starts before the result was collected.       *)
FixOverUncollected == mem.fix

FixOverCollected ==
    mem.fix /\ Collected(mem.latest) /\ mem.hostTip = SourceTip

SamePrompt == Latest.prompt \in {mem.prompt, "refusal"}

(* First dispatch of the task: no journaled attempt, no task ref.          *)
ReconcileFresh ==
    /\ pc = "reconcile" /\ mem.latest = 0
    /\ RecordUsable /\ mem.hostTip = NoTip
    /\ sandbox' = IF record.bound THEN sandbox ELSE 0
    /\ pc' = "start"
    /\ UNCHANGED <<journal, record, mem, host, worker, lastTip, strays, launches>>

(* Seeded fault: an attempt with no outcome is continued.                  *)
ReconcileUnknown ==
    /\ pc = "reconcile" /\ mem.latest > 0
    /\ RecordUsable /\ record.bound
    /\ FixOverCollected \/ SamePrompt
    /\ pc' = IF Latest.end = "completed" THEN "collect" ELSE "start"
    /\ UNCHANGED <<journal, record, mem, world>>

(* A retained result is reused, or a fix round continues from it.  An      *)
(* attempt that did not complete is never continued.                       *)
ReconcileResult ==
    /\ pc = "reconcile" /\ mem.latest > 0
    /\ RecordUsable /\ record.bound
    /\ Latest.end = "completed"
    /\ ResultReachable
    /\ FixOverCollected \/ SamePrompt
    /\ pc' = IF FixOverCollected THEN "start" ELSE "collect"
    /\ UNCHANGED <<journal, record, mem, world>>

-----------------------------------------------------------------------------
(* invoke: the attempt is journaled before the model is launched.          *)
StartAttempt ==
    /\ pc = "start"
    /\ Len(harness) < MaxAttempts
    /\ sandbox # NoTip
    /\ harness' = Append(harness, [host |-> mem.hostTip, prompt |-> mem.prompt,
                                   end |-> "open", tip |-> NoTip])
    /\ mem' = [mem EXCEPT !.latest = Len(harness) + 1]
    /\ pc' = "persistStart"
    /\ UNCHANGED <<collections, verifs, record, world>>

Persist(from, state, to) ==
    /\ pc = from
    /\ record' = [bound |-> TRUE, state |-> state]
    /\ pc' = to
    /\ UNCHANGED <<journal, mem, world>>

PersistStart == Persist("persistStart", "starting", "launch")

(* adapter.spawn, or adapter.resume of the recorded session.               *)
Launch ==
    /\ pc = "launch"
    /\ worker' = "running"
    /\ launches' = launches + 1
    /\ pc' = "persistRunning"
    /\ UNCHANGED <<journal, record, mem, host, sandbox, lastTip, strays>>

PersistRunning == Persist("persistRunning", "running", "await")

EndAttempt(end, tip) ==
    harness' = [harness EXCEPT ![mem.latest].end = end, ![mem.latest].tip = tip]

(* Seeded fault: only a clean exit ends the wait.                          *)
AwaitCleanExit ==
    /\ pc = "await" /\ worker = "exited" /\ pc' = "retain"
    /\ UNCHANGED <<journal, record, mem, world>>

(* waitForExit: a timeout has killed the process group by now.             *)
AwaitWorker ==
    /\ pc = "await"
    /\ \/ worker = "exited" /\ pc' = "retain" /\ UNCHANGED harness
       \/ worker = "failed" /\ pc' = "throw" /\ EndAttempt("failed", NoTip)
    /\ UNCHANGED <<collections, verifs, record, mem, world>>

(* The output is retained and parsed; an unusable one fails the attempt.   *)
RetainResult ==
    /\ pc = "retain"
    /\ \/ sandbox # NoTip /\ EndAttempt("completed", sandbox)
          /\ pc' = "persistResult"
       \/ EndAttempt("failed", NoTip) /\ pc' = "throw"
    /\ UNCHANGED <<collections, verifs, record, mem, world>>

PersistResult == Persist("persistResult", "result-retained", "collect")

-----------------------------------------------------------------------------
OpenCollections ==
    {c \in CollectionsOf(mem.latest) : collections[c].end = "open"}

(* Seeded fault: the bound uses a count read when the dispatch began.      *)
StartCollectionStaleBound ==
    /\ pc = "collect"
    /\ \/ \E c \in OpenCollections :
             mem' = [mem EXCEPT !.collection = c] /\ UNCHANGED collections
       \/ /\ OpenCollections = {}
          /\ mem.verified < MaxAttempts
          /\ collections' = Append(collections, [of |-> mem.latest, end |-> "open"])
          /\ mem' = [mem EXCEPT !.collection = Len(collections) + 1]
    /\ pc' = "checkHost"
    /\ UNCHANGED <<harness, verifs, record, world>>

(* collectAndVerify: a collection of this result left open is continued.   *)
StartCollection ==
    /\ pc = "collect"
    /\ \/ \E c \in OpenCollections :
             mem' = [mem EXCEPT !.collection = c] /\ UNCHANGED collections
       \/ /\ OpenCollections = {}
          /\ Len(collections) < MaxAttempts
          /\ collections' = Append(collections, [of |-> mem.latest, end |-> "open"])
          /\ mem' = [mem EXCEPT !.collection = Len(collections) + 1]
    /\ pc' = "checkHost"
    /\ UNCHANGED <<harness, verifs, record, world>>

(* Already collected, or the ref is still where it was and the sandbox     *)
(* still holds the retained tip.                                           *)
CheckHost ==
    /\ pc = "checkHost"
    /\ \/ /\ host = SourceTip
          /\ mem' = [mem EXCEPT !.hostTip = host]
          /\ pc' = "closeCollection"
       \/ /\ host \in {NoTip, mem.hostTip} /\ host # SourceTip
          /\ sandbox = SourceTip
          /\ pc' = "apply" /\ UNCHANGED mem
    /\ UNCHANGED <<journal, record, world>>

(* adapter.collect fetches whatever the sandbox branch holds by now.       *)
ApplyCollect ==
    /\ pc = "apply" /\ sandbox # NoTip
    /\ host' = sandbox
    /\ pc' = "confirm"
    /\ UNCHANGED <<journal, record, mem, sandbox, worker, lastTip, strays, launches>>

(* Seeded fault: the ref the fetch produced is not compared.               *)
ConfirmAnyHost ==
    /\ pc = "confirm"
    /\ mem' = [mem EXCEPT !.hostTip = host]
    /\ pc' = "closeCollection"
    /\ UNCHANGED <<journal, record, world>>

ConfirmHost ==
    /\ pc = "confirm" /\ host = SourceTip
    /\ mem' = [mem EXCEPT !.hostTip = host]
    /\ pc' = "closeCollection"
    /\ UNCHANGED <<journal, record, world>>

CloseCollection ==
    /\ pc = "closeCollection"
    /\ collections' = [collections EXCEPT ![mem.collection].end = "completed"]
    /\ pc' = "persistCollected"
    /\ UNCHANGED <<harness, verifs, record, mem, world>>

PersistCollected == Persist("persistCollected", "collected", "startVerify")

(* The bound counts the verifications seen when the dispatch began.        *)
StartVerify ==
    /\ pc = "startVerify"
    /\ mem.verified < MaxAttempts
    /\ verifs' = Append(verifs, [of |-> mem.latest, tip |-> mem.hostTip,
                                 end |-> "open"])
    /\ pc' = "enforce"
    /\ UNCHANGED <<harness, collections, record, mem, world>>

(* completeEnforcement answers; the ref must not have moved meanwhile.     *)
Enforce ==
    /\ pc = "enforce" /\ host = mem.hostTip
    /\ \E code \in Code : mem' = [mem EXCEPT !.code = code]
    /\ pc' = "closeVerify"
    /\ UNCHANGED <<journal, record, world>>

Accepted == mem.code \in {"pass", "pending"}

(* Seeded fault: the answer after the refusal round is not looked at.      *)
CloseVerifyOnce ==
    /\ pc = "closeVerify"
    /\ verifs' = [verifs EXCEPT ![Len(verifs)].end =
                      IF Accepted THEN "completed" ELSE "failed"]
    /\ IF mem.code = "reject" /\ ~mem.refused
       THEN /\ mem' = [mem EXCEPT !.refused = TRUE, !.prompt = "refusal"]
            /\ pc' = "start"
       ELSE pc' = "persistDone" /\ UNCHANGED mem
    /\ UNCHANGED <<harness, collections, record, world>>

(* The first rejection of a dispatch resumes the model with the fixed      *)
(* refusal message; any other unaccepted answer ends the task.             *)
CloseVerify ==
    /\ pc = "closeVerify"
    /\ verifs' = [verifs EXCEPT ![Len(verifs)].end =
                      IF Accepted THEN "completed" ELSE "failed"]
    /\ \/ Accepted /\ pc' = "persistDone" /\ UNCHANGED mem
       \/ /\ mem.code = "reject" /\ ~mem.refused
          /\ mem' = [mem EXCEPT !.refused = TRUE, !.prompt = "refusal"]
          /\ pc' = "start"
       \/ /\ ~Accepted /\ (mem.code # "reject" \/ mem.refused)
          /\ pc' = "throw" /\ UNCHANGED mem
    /\ UNCHANGED <<harness, collections, record, world>>

PersistDone == Persist("persistDone", "done", "cleanup")

(* The checkout of a finished task may be removed.                         *)
Cleanup ==
    /\ pc = "cleanup"
    /\ sandbox' \in {sandbox, NoTip}
    /\ pc' = "idle" /\ mem' = Forgotten
    /\ UNCHANGED <<journal, record, host, worker, lastTip, strays, launches>>

-----------------------------------------------------------------------------
(* Every failed guard, exceeded bound, I/O error and deadline is a throw   *)
(* that orphanThrow catches: it marks the record, unless that write fails  *)
(* as well, and the task is orphaned.                                      *)
Throw ==
    /\ pc # "idle"
    /\ record' \in {record, [record EXCEPT !.state = "orphaned"]}
    /\ pc' = "idle" /\ mem' = Forgotten
    /\ UNCHANGED <<journal, world>>

(* The dispatch is killed.  A model it launched keeps running.             *)
Crash ==
    /\ pc # "idle"
    /\ pc' = "idle" /\ mem' = Forgotten
    /\ UNCHANGED <<journal, record, world>>

WorkerCommit ==
    /\ worker = "running" /\ sandbox # NoTip /\ lastTip < MaxTip
    /\ lastTip' = lastTip + 1
    /\ sandbox' = lastTip + 1
    /\ UNCHANGED <<journal, record, host, worker, pc, mem, strays, launches>>

WorkerExit ==
    /\ worker = "running"
    /\ worker' \in {"exited", "failed"}
    /\ UNCHANGED <<journal, record, host, sandbox, pc, mem, lastTip, strays, launches>>

(* Anything else that has the repositories: the user, another tool, a      *)
(* process the model left behind.                                          *)
Stray ==
    /\ strays < MaxStrays /\ lastTip < MaxTip
    /\ strays' = strays + 1
    /\ lastTip' = lastTip + 1
    /\ \/ host' \in {lastTip + 1, NoTip} /\ UNCHANGED sandbox
       \/ sandbox # NoTip /\ sandbox' = lastTip + 1 /\ UNCHANGED host
    /\ UNCHANGED <<journal, record, worker, pc, mem, launches>>

Invoke == \/ StartAttempt \/ PersistStart \/ Launch \/ PersistRunning
          \/ AwaitWorker \/ RetainResult \/ PersistResult

Collect == \/ StartCollection \/ CheckHost \/ ApplyCollect \/ ConfirmHost
           \/ CloseCollection \/ PersistCollected

Verify == StartVerify \/ Enforce \/ CloseVerify \/ PersistDone \/ Cleanup

Driver == ReconcileFresh \/ ReconcileResult \/ Invoke \/ Collect \/ Verify

Next == \/ \E fix \in BOOLEAN : Dispatch(fix)
        \/ Driver \/ Throw \/ Crash
        \/ WorkerCommit \/ WorkerExit \/ Stray

Spec == Init /\ [][Next]_vars

(* The event loop goes on: a dispatch that does not wait for its model     *)
(* takes the next step or throws.  waitForExit kills a model that outlives *)
(* its timeout.                                                            *)
FairSpec == /\ Spec
            /\ WF_vars(Driver \/ (pc # "await" /\ Throw))
            /\ WF_vars(WorkerExit)

-----------------------------------------------------------------------------
Indices(s) == 1..Len(s)

(* The model runs at most once per journaled attempt, and only when the    *)
(* outcome of every earlier attempt is known to be a retained result:      *)
(* "Interrupted harness outcome is unknown; automatic model retry          *)
(* refused".  The start of the attempt is in the journal by then, and a    *)
(* result that was retained is not paid for twice: the model runs over one *)
(* only for a fix round, or when its own enforcement run rejected it.      *)
KnownBeforeLaunch ==
    [][launches' # launches =>
          /\ worker # "running"
          /\ launches' <= Len(harness)
          /\ harness[Len(harness)].end = "open"
          /\ \A h \in 1..(Len(harness) - 1) : harness[h].end = "completed"
          /\ Len(harness) > 1 => mem.refused \/ (mem.fix /\ Collected(Len(harness) - 1))]_vars

(* What the journal calls verified is the tip the model's attempt          *)
(* retained, and it was collected first; and no count passes its bound,    *)
(* though the verification bound is compared with a count read earlier.    *)
VerifiedIsRetained ==
    /\ TypeOK
    /\ \A v \in Indices(verifs) : verifs[v].end = "completed" =>
          LET h == verifs[v].of IN
              /\ harness[h].end = "completed"
              /\ verifs[v].tip = harness[h].tip
              /\ Collected(h)

(* A record that says the task finished rests on a verification of the     *)
(* newest result, with every crash point in between.                       *)
DoneIsVerified ==
    record.state = "done" =>
        LET completed == {h \in Indices(harness) : harness[h].end = "completed"}
            last == verifs[Len(verifs)]
        IN  /\ verifs # <<>> /\ last.end = "completed"
            /\ last.of \in completed
            /\ \A h \in completed : h <= last.of
(* A crash never makes a retained result unusable: as long as nothing      *)
(* else moved a ref, a dispatch with the same prompt gets past the         *)
(* reconciliation, whatever the point the last one died at.                *)
ResumeAccepted ==
    (/\ pc = "reconcile" /\ mem.latest > 0 /\ strays = 0
     /\ Latest.end = "completed"
     /\ SamePrompt \/ FixOverCollected)
        => RecordUsable /\ record.bound /\ ResultReachable

(* Every dispatch ends.                                                    *)
DispatchEnds == (pc # "idle") ~> (pc = "idle")

=============================================================================
