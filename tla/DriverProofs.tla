---------------------------- MODULE DriverProofs ----------------------------
(***************************************************************************)
(* Theorems about scripts/driver.mjs, that is, about modules DriverLock    *)
(* and DriverTask, which share nothing but the program.                    *)
(*                                                                         *)
(* The driver lock excludes, for any number of processes and any bound on  *)
(* the loop, as long as no process that has released the lock exits inside *)
(* another's read-to-probe window (PromptSpec).                            *)
(*                                                                         *)
(* A strict task, for any number of attempts, commits, stray ref moves and *)
(* crashes: the model is launched only over attempts whose outcome is      *)
(* known, what is verified is what was retained, a done task is verified,  *)
(* and a crash keeps a retained result usable.                             *)
(***************************************************************************)
EXTENDS DriverLock, DriverTask, FiniteSetTheorems, SequenceTheorems, TLAPS

-----------------------------------------------------------------------------
(* DriverLock.                                                             *)

(* Only the process the token names is inside a takeover.                  *)
TokenNamesTaker == \A p \in Pids : at[p] \in Takeover => token = p

(* A pid that was read under the token and is gone by now still is what    *)
(* the lock file says: only the reader could have removed it.              *)
DeadPidStillThere ==
    \A p \in Pids :
        at[p] = "probeUnder" /\ seen[p] # NoPid /\ ~Alive(seen[p])
            => lock = seen[p]

(* A pid about to be removed is in the file, and nobody drives under it.   *)
RemovalIsSafe ==
    \A p \in Pids :
        at[p] = "remove" => lock = seen[p] /\ lock # NoPid /\ at[lock] \notin Holding

(* A process inside acquireLock's loop has not used up its rounds.         *)
InLoop == {"link", "readHolder", "probeHolder", "claim"} \cup Takeover

RoundsLeft == \A p \in Pids : at[p] \in InLoop => attempt[p] < MaxRounds

(* The inductive invariant.  MutualExclusion and HolderIsNamed are not     *)
(* inductive: the rm of a takeover could hit a driving process's file.     *)
LockInv ==
    /\ LockTypeOK
    /\ RoundsLeft
    /\ TokenNamesTaker
    /\ HolderIsNamed
    /\ DeadPidStillThere
    /\ RemovalIsSafe

LEMMA InitLockInv == LockInit => LockInv
  BY NoPidAssumption, RoundsAssumption
  DEF LockInit, LockInv, LockTypeOK, TokenNamesTaker, HolderIsNamed, DeadPidStillThere,
      RemovalIsSafe, RoundsLeft, InLoop, LockLabels, Takeover, Holding

LEMMA NextLockInv == LockInv /\ [PromptNext]_lockVars => LockInv'
  <1> SUFFICES ASSUME LockInv, [PromptNext]_lockVars PROVE LockInv'
    OBVIOUS
  <1> USE NoPidAssumption, RoundsAssumption
          DEF LockInv, LockTypeOK, TokenNamesTaker, HolderIsNamed, DeadPidStillThere,
              RemovalIsSafe, RoundsLeft, InLoop, LockLabels, Takeover, Holding, Alive
  <1>1. CASE UNCHANGED lockVars
    BY <1>1 DEF lockVars
  <1>2. ASSUME NEW p \in Pids, Start(p) PROVE LockInv'
    BY <1>2 DEF Start, Goto
  <1>3. ASSUME NEW p \in Pids, LinkLock(p) PROVE LockInv'
    BY <1>3 DEF LinkLock, Goto
  <1>4. ASSUME NEW p \in Pids, ReadHolder(p) PROVE LockInv'
    BY <1>4 DEF ReadHolder, Goto
  <1>5. ASSUME NEW p \in Pids, ProbeHolder(p) PROVE LockInv'
    BY <1>5 DEF ProbeHolder, Goto
  <1>6. ASSUME NEW p \in Pids, ClaimToken(p) PROVE LockInv'
    BY <1>6 DEF ClaimToken, NextRound, Goto
  <1>7. ASSUME NEW p \in Pids, ReadUnder(p) PROVE LockInv'
    BY <1>7 DEF ReadUnder, Goto
  <1>8. ASSUME NEW p \in Pids, ProbeUnder(p) PROVE LockInv'
    BY <1>8 DEF ProbeUnder, Goto
  <1>9. ASSUME NEW p \in Pids, RemoveStale(p) PROVE LockInv'
    BY <1>9 DEF RemoveStale, Goto
  <1>10. ASSUME NEW p \in Pids, DropToken(p) PROVE LockInv'
    BY <1>10 DEF DropToken, NextRound, Goto
  <1>11. ASSUME NEW p \in Pids, Release(p) PROVE LockInv'
    BY <1>11 DEF Release, FinishPhase, ReleaseRead, ReleaseRemove, Goto
  <1>12. ASSUME NEW p \in Pids, Die(p), InTime PROVE LockInv'
    BY <1>12 DEF Die, InTime, Goto
  <1> QED
    BY <1>1, <1>2, <1>3, <1>4, <1>5, <1>6, <1>7, <1>8, <1>9, <1>10, <1>11, <1>12
       DEF PromptNext, LockNext, Acquire

(* The inductive invariant holds in every reachable state.                 *)
THEOREM LockInvariance == PromptSpec => []LockInv
  BY InitLockInv, NextLockInv, PTL DEF PromptSpec

(* Two drivers never run one run at the same time (acquireLock).           *)
THEOREM MutualExclusionHolds == PromptSpec => []MutualExclusion
  <1>1. LockInv => MutualExclusion
    BY DEF LockInv, HolderIsNamed, MutualExclusion
  <1> QED
    BY <1>1, LockInvariance, PTL

(* A driving process is the one the lock file names, until it releases it. *)
THEOREM HolderIsNamedHolds == PromptSpec => []HolderIsNamed
  <1>1. LockInv => HolderIsNamed
    BY DEF LockInv
  <1> QED
    BY <1>1, LockInvariance, PTL

(* The rm of a takeover removes the stale lock it judged and no other.     *)
THEOREM RemovesOnlyStaleHolds == PromptSpec => []RemovesOnlyStale
  <1>1. LockInv => RemovesOnlyStale
    BY DEF LockInv, RemovesOnlyStale, RemovalIsSafe, HolderIsNamed, LockTypeOK
  <1> QED
    BY <1>1, LockInvariance, PTL

(* Only a process inside a takeover ever owns the token it will drop; this *)
(* part of the invariant needs no assumption on the timing.                *)
TakerInv == LockTypeOK /\ RoundsLeft /\ TokenNamesTaker

LEMMA TakerInvInductive == TakerInv /\ [LockNext]_lockVars => TakerInv'
  <1> SUFFICES ASSUME TakerInv, [LockNext]_lockVars PROVE TakerInv'
    OBVIOUS
  <1> USE NoPidAssumption, RoundsAssumption
          DEF TakerInv, LockTypeOK, RoundsLeft, TokenNamesTaker, InLoop, LockLabels,
              Takeover, Holding, Alive, Goto
  <1>1. CASE UNCHANGED lockVars
    BY <1>1 DEF lockVars
  <1>2. ASSUME NEW p \in Pids, Start(p) \/ Die(p) \/ Release(p) PROVE TakerInv'
    BY <1>2 DEF Start, Die, Release, FinishPhase, ReleaseRead, ReleaseRemove
  <1>3. ASSUME NEW p \in Pids, LinkLock(p) \/ ReadHolder(p) \/ ProbeHolder(p)
        PROVE  TakerInv'
    BY <1>3 DEF LinkLock, ReadHolder, ProbeHolder
  <1>4. ASSUME NEW p \in Pids, ClaimToken(p) \/ ReadUnder(p) \/ ProbeUnder(p)
        PROVE  TakerInv'
    BY <1>4 DEF ClaimToken, NextRound, ReadUnder, ProbeUnder
  <1>5. ASSUME NEW p \in Pids, RemoveStale(p) \/ DropToken(p) PROVE TakerInv'
    BY <1>5 DEF RemoveStale, DropToken, NextRound
  <1> QED
    BY <1>1, <1>2, <1>3, <1>4, <1>5 DEF LockNext, Acquire

(* The files hold pids and every process is at a step of the code, within  *)
(* the rounds of acquireLock's loop, whatever the timing.                  *)
THEOREM LockTypeOKHolds == LockSpec => []LockTypeOK
  <1>1. LockInit => TakerInv
    BY InitLockInv DEF LockInv, TakerInv
  <1>2. TakerInv => LockTypeOK
    BY DEF TakerInv
  <1> QED
    BY <1>1, <1>2, TakerInvInductive, PTL DEF LockSpec

(* A stranded takeover token is never removed or overwritten, whatever the *)
(* timing.                                                                 *)
THEOREM StrandedTokenStaysHolds == LockSpec => StrandedTokenStays
  <1>1. LockInit => TakerInv
    BY InitLockInv DEF LockInv, TakerInv
  <1>2. TakerInv /\ [LockNext]_lockVars =>
          [\A p \in Pids : token = p /\ at[p] \notin Takeover => token' = token]_lockVars
    BY NoPidAssumption
    DEF TakerInv, LockTypeOK, TokenNamesTaker, Takeover, LockNext, Acquire, Release,
        Start, Die, LinkLock, ReadHolder, ProbeHolder, ClaimToken, ReadUnder,
        ProbeUnder, RemoveStale, DropToken, FinishPhase, ReleaseRead,
        ReleaseRemove, lockVars
  <1> QED
    BY <1>1, <1>2, TakerInvInductive, PTL DEF LockSpec, StrandedTokenStays

-----------------------------------------------------------------------------
(* DriverTask.                                                             *)

Attempting == {"persistStart", "launch", "persistRunning", "await", "retain"}
Collecting == {"checkHost", "apply", "confirm", "closeCollection"}
Closed == {"persistCollected", "startVerify", "enforce", "closeVerify", "persistDone", "cleanup"}
Resulting == {"persistResult", "collect"} \cup Collecting \cup Closed

Last == Len(harness)
LastIs(end) == Last > 0 /\ harness[Last].end = end

(* The dispatch is at the newest attempt, and those before it completed.   *)
Newest == pc # "idle" => mem.latest = Last
EarlierCompleted == \A h \in 1..(Last - 1) : harness[h].end = "completed"
AtLatest ==
    /\ pc \in Attempting => LastIs("open")
    /\ pc = "start" /\ Last > 0 => LastIs("completed")
    /\ pc \in Resulting => LastIs("completed")

(* A model runs for the open attempt, and was launched once for each.      *)
OneWorker ==
    /\ worker = "running" => LastIs("open") /\ pc \notin {"persistStart", "launch", "retain"}
    /\ launches <= Last /\ (pc \in {"persistStart", "launch"} => launches < Last)

(* A result is worked over for a fix round or after its own rejection.     *)
Justified ==
    /\ pc = "start" /\ Last > 0 => mem.refused \/ (mem.fix /\ Collected(Last))
    /\ pc \in {"persistStart", "launch"} /\ Last > 1 => mem.refused \/ (mem.fix /\ Collected(Last - 1))

(* Only results are collected, and each verification has a collection of   *)
(* its own, which is what bounds their number.                             *)
ResultsCollected ==
    /\ \A c \in 1..Len(collections) :
          collections[c].of \in 1..Last /\ harness[collections[c].of].end = "completed"
    /\ pc \in Collecting =>
          /\ mem.collection \in 1..Len(collections)
          /\ collections[mem.collection] = [of |-> Last, end |-> "open"]
Completed == {c \in 1..Len(collections) : collections[c].end = "completed"}
OneVerificationEach ==
    /\ Len(verifs) <= Cardinality(Completed)
    /\ pc \in {"persistCollected", "startVerify"} => Len(verifs) < Cardinality(Completed)

(* What is verified: the collected tip of the newest result.               *)
SawTip ==
    /\ pc \in Closed \cup {"closeCollection"} => mem.hostTip = harness[Last].tip
    /\ pc \in Closed => Collected(Last)
LastVerified(end) == verifs # <<>> /\ verifs[Len(verifs)].of = Last /\ verifs[Len(verifs)].end = end
AtVerification ==
    /\ pc \in {"enforce", "closeVerify"} =>
          LastVerified("open") /\ verifs[Len(verifs)].tip = mem.hostTip
    /\ pc = "persistDone" => LastVerified("completed")
Retained == \A v \in Indices(verifs) : verifs[v].end = "completed" =>
    LET h == verifs[v].of IN
        /\ h \in 1..Last /\ harness[h].end = "completed" /\ verifs[v].tip = harness[h].tip
        /\ Collected(h)
NotYetDone == record.state = "done" =>
    pc \notin {"launch", "persistRunning", "await", "retain", "persistResult",
               "startVerify", "enforce", "closeVerify", "persistDone"}

(* The record is this execution's, and as long as nothing else moved a ref *)
(* the result and the ref are where the attempt and the dispatch saw them. *)
Bound == LastIs("completed") \/ pc \in Attempting \ {"persistStart"} => record.bound
SeesHost == pc \notin {"idle", "confirm"} => mem.hostTip = host
Applies ==
    /\ pc = "apply" => sandbox = harness[Last].tip
    /\ pc = "confirm" => host = harness[Last].tip
OpenStays == LastIs("open") => host = harness[Last].host
ResultStays == LastIs("completed") =>
    /\ Collected(Last) => host = harness[Last].tip
    /\ sandbox = harness[Last].tip \/ host = harness[Last].tip
    /\ \/ host = harness[Last].host
       \/ CollectionsOf(Last) # {} /\ host = harness[Last].tip
Undisturbed == strays = 0 => SeesHost /\ Applies /\ OpenStays /\ ResultStays

JournalInv == Newest /\ EarlierCompleted /\ AtLatest /\ OneWorker /\ Justified
VerifiedInv ==
    /\ ResultsCollected /\ OneVerificationEach /\ SawTip /\ AtVerification
    /\ Retained /\ NotYetDone /\ DoneIsVerified
IInv == TypeOK /\ JournalInv /\ VerifiedInv /\ Bound /\ Undisturbed

-----------------------------------------------------------------------------
(* What a step makes of a journal.                                         *)

LEMMA Written ==
  ASSUME NEW S, NEW log \in Seq(S), NEW n \in 1..Len(log), NEW e \in S, NEW new,
         new = [log EXCEPT ![n] = e]
  PROVE  /\ new \in Seq(S) /\ Len(new) = Len(log) /\ Len(log) \in Nat
         /\ \A m \in 1..Len(log) : new[m] = IF m = n THEN e ELSE log[m]
  BY ExceptSeq, LenProperties

LEMMA Added ==
  ASSUME NEW S, NEW log \in Seq(S), NEW e \in S, NEW new, new = Append(log, e)
  PROVE  /\ new \in Seq(S) /\ Len(new) = Len(log) + 1 /\ Len(log) \in Nat
         /\ \A m \in 1..Len(log) : new[m] = log[m]
         /\ new[Len(log) + 1] = e
  BY AppendProperties, LenProperties

LEMMA Entries ==
  ASSUME TypeOK
  PROVE  /\ Last \in Nat /\ \A h \in 1..Last : harness[h] \in HarnessAttempt
         /\ Len(collections) \in Nat /\ \A c \in 1..Len(collections) : collections[c] \in Collection
         /\ Len(verifs) \in Nat /\ \A v \in 1..Len(verifs) : verifs[v] \in Verification
  BY ElementOfSeq, LenProperties DEF TypeOK, Last

OpenAttempt == [host |-> mem.hostTip, prompt |-> mem.prompt, end |-> "open", tip |-> NoTip]

LEMMA AttemptStarted ==
  ASSUME TypeOK, StartAttempt
  PROVE  /\ harness' \in Seq(HarnessAttempt) /\ Last' = Last + 1
         /\ \A h \in 1..Last : harness'[h] = harness[h]
         /\ harness'[Last + 1] = OpenAttempt
  <1>1. OpenAttempt \in HarnessAttempt
    BY DEF OpenAttempt, HarnessAttempt, TypeOK, Memory, End, Tip
  <1>2. harness' = Append(harness, OpenAttempt)
    BY DEF StartAttempt, OpenAttempt
  <1>3. harness \in Seq(HarnessAttempt)
    BY DEF TypeOK
  <1> QED
    BY <1>1, <1>2, <1>3, Added DEF Last

LEMMA AttemptEnded ==
  ASSUME TypeOK, Newest, LastIs("open"), pc # "idle", NEW e \in End, NEW t \in Tip, EndAttempt(e, t)
  PROVE  /\ harness' \in Seq(HarnessAttempt) /\ Last' = Last
         /\ \A h \in 1..Last : h # Last => harness'[h] = harness[h]
         /\ harness'[Last].host = harness[Last].host
         /\ harness'[Last].end = e /\ harness'[Last].tip = t
  <1> DEFINE old == harness[Last]
             new == [old EXCEPT !.end = e, !.tip = t]
  <1>1. Last \in 1..Last /\ old \in HarnessAttempt /\ harness \in Seq(HarnessAttempt)
    BY Entries DEF LastIs, TypeOK
  <1>2. new \in HarnessAttempt /\ new.host = old.host /\ new.end = e /\ new.tip = t
    BY <1>1 DEF HarnessAttempt
  <1>3. harness' = [harness EXCEPT ![Last] = new]
    BY <1>1 DEF EndAttempt, Newest
  <1>4. /\ harness' \in Seq(HarnessAttempt) /\ Len(harness') = Last
        /\ \A h \in 1..Last : harness'[h] = IF h = Last THEN new ELSE harness[h]
    <2> HIDE DEF new
    <2> QED
      BY <1>1, <1>2, <1>3, Written DEF Last
  <1> QED
    BY <1>1, <1>2, <1>4 DEF Last

LEMMA CollectionStarted ==
  ASSUME TypeOK, Newest, AtLatest, StartCollection
  PROVE  /\ collections' \in Seq(Collection) /\ Len(collections') \in Len(collections)..MaxAttempts
         /\ \A c \in 1..Len(collections) : collections'[c] = collections[c]
         /\ \A c \in 1..Len(collections') : c > Len(collections) =>
               collections'[c] = [of |-> Last, end |-> "open"]
         /\ mem'.collection \in 1..Len(collections')
         /\ collections'[mem'.collection] = [of |-> Last, end |-> "open"]
         /\ mem' = [mem EXCEPT !.collection = mem'.collection]
  <1>1. /\ mem.latest = Last /\ mem \in Memory /\ Last \in Nat /\ collections \in Seq(Collection)
        /\ Len(collections) \in 0..MaxAttempts /\ MaxAttempts \in Nat
    BY Entries, AttemptsAssumption DEF TypeOK, Newest, StartCollection
  <1>2. CASE OpenCollections = {}
    <2> DEFINE e == [of |-> Last, end |-> "open"]
    <2>1. e \in Collection
      BY <1>1 DEF Collection, End
    <2>2. /\ Len(collections) < MaxAttempts /\ collections' = Append(collections, e)
          /\ mem' = [mem EXCEPT !.collection = Len(collections) + 1]
      BY <1>1, <1>2 DEF StartCollection
    <2>3. mem'.collection = Len(collections) + 1
      BY <1>1, <2>2 DEF Memory
    <2> HIDE DEF e
    <2>4. /\ collections' \in Seq(Collection) /\ Len(collections') = Len(collections) + 1
          /\ \A m \in 1..Len(collections) : collections'[m] = collections[m]
          /\ collections'[Len(collections) + 1] = e
      BY <1>1, <2>1, <2>2, Added
    <2> QED
      BY <1>1, <2>2, <2>3, <2>4 DEF e
  <1>3. CASE OpenCollections # {}
    <2>1. PICK c \in OpenCollections : mem' = [mem EXCEPT !.collection = c] /\ UNCHANGED collections
      BY <1>3 DEF StartCollection
    <2>2. c \in 1..Len(collections) /\ collections[c].of = Last /\ collections[c].end = "open"
      BY <1>1 DEF OpenCollections, CollectionsOf
    <2>3. mem'.collection = c
      BY <1>1, <2>1 DEF Memory
    <2>4. collections[c] = [of |-> Last, end |-> "open"]
      <3>1. collections[c] \in Collection
        BY <2>2, Entries
      <3> QED
        BY <2>2, <3>1 DEF Collection
    <2> QED
      BY <1>1, <2>1, <2>2, <2>3, <2>4
  <1> QED
    BY <1>2, <1>3

LEMMA CollectionClosed ==
  ASSUME TypeOK, ResultsCollected, CloseCollection
  PROVE  /\ collections' \in Seq(Collection) /\ Len(collections') = Len(collections)
         /\ \A c \in 1..Len(collections) : collections'[c].of = collections[c].of
         /\ \A c \in 1..Len(collections) : c # mem.collection => collections'[c] = collections[c]
         /\ collections'[mem.collection].end = "completed"
         /\ collections[mem.collection].of = Last /\ collections[mem.collection].end = "open"
         /\ mem.collection \in 1..Len(collections)
  <1> DEFINE c == mem.collection
             new == [collections[c] EXCEPT !.end = "completed"]
  <1>1. c \in 1..Len(collections) /\ collections[c] = [of |-> Last, end |-> "open"]
    BY DEF ResultsCollected, Collecting, CloseCollection
  <1>2. collections \in Seq(Collection) /\ collections[c] \in Collection
    BY <1>1, Entries DEF TypeOK
  <1>3. new \in Collection /\ new.of = Last /\ new.end = "completed"
    BY <1>1, <1>2 DEF Collection, End
  <1>4. collections' = [collections EXCEPT ![c] = new]
    BY <1>1, <1>2 DEF CloseCollection
  <1> HIDE DEF new
  <1>5. /\ collections' \in Seq(Collection) /\ Len(collections') = Len(collections)
        /\ \A m \in 1..Len(collections) : collections'[m] = IF m = c THEN new ELSE collections[m]
    BY <1>1, <1>2, <1>3, <1>4, Written
  <1> QED
    BY <1>1, <1>3, <1>5

LEMMA VerificationStarted ==
  ASSUME TypeOK, Newest, StartVerify
  PROVE  /\ verifs' \in Seq(Verification) /\ Len(verifs') = Len(verifs) + 1
         /\ \A v \in 1..Len(verifs) : verifs'[v] = verifs[v]
         /\ verifs'[Len(verifs) + 1] = [of |-> Last, tip |-> mem.hostTip, end |-> "open"]
  <1> DEFINE e == [of |-> Last, tip |-> mem.hostTip, end |-> "open"]
  <1>1. e \in Verification /\ verifs \in Seq(Verification) /\ mem.latest = Last
    BY Entries DEF TypeOK, Verification, Memory, End, Newest, StartVerify
  <1>2. verifs' = Append(verifs, e)
    BY <1>1 DEF StartVerify
  <1> HIDE DEF e
  <1>3. /\ verifs' \in Seq(Verification) /\ Len(verifs') = Len(verifs) + 1
        /\ \A v \in 1..Len(verifs) : verifs'[v] = verifs[v]
        /\ verifs'[Len(verifs) + 1] = e
    BY <1>1, <1>2, Added
  <1> QED
    BY <1>3 DEF e

LEMMA VerificationClosed ==
  ASSUME TypeOK, AtVerification, CloseVerify
  PROVE  /\ verifs' \in Seq(Verification) /\ Len(verifs') = Len(verifs)
         /\ Len(verifs) \in 1..Len(verifs)
         /\ \A v \in 1..Len(verifs) : v # Len(verifs) => verifs'[v] = verifs[v]
         /\ verifs'[Len(verifs)].of = verifs[Len(verifs)].of
         /\ verifs'[Len(verifs)].tip = verifs[Len(verifs)].tip
         /\ verifs'[Len(verifs)].end = IF Accepted THEN "completed" ELSE "failed"
  <1> DEFINE e == IF Accepted THEN "completed" ELSE "failed"
             l == Len(verifs)
             new == [verifs[l] EXCEPT !.end = e]
  <1>1. verifs # <<>> /\ verifs \in Seq(Verification)
    BY DEF AtVerification, CloseVerify, LastVerified, TypeOK
  <1>2. l \in 1..l /\ verifs[l] \in Verification
    BY <1>1, EmptySeq, LenProperties, Entries
  <1>3. new \in Verification /\ new.of = verifs[l].of /\ new.tip = verifs[l].tip /\ new.end = e
    BY <1>2 DEF Verification, End
  <1>4. verifs' = [verifs EXCEPT ![l] = new]
    BY <1>1, <1>2 DEF CloseVerify
  <1> HIDE DEF new, e
  <1>5. /\ verifs' \in Seq(Verification) /\ Len(verifs') = l
        /\ \A v \in 1..l : verifs'[v] = IF v = l THEN new ELSE verifs[v]
    BY <1>1, <1>2, <1>3, <1>4, Written
  <1> QED
    BY <1>2, <1>3, <1>5 DEF e

-----------------------------------------------------------------------------
(* Type correctness.                                                       *)

LEMMA ForgottenTyped == Forgotten \in Memory
  BY DEF Forgotten, Memory, Tip, Prompt, Code

LEMMA Recalled ==
  ASSUME NEW m \in Memory
  PROVE  /\ \A n \in Nat : [m EXCEPT !.latest = n] \in Memory
         /\ \A n \in Nat : [m EXCEPT !.collection = n] \in Memory
         /\ \A t \in Tip : [m EXCEPT !.hostTip = t] \in Memory
         /\ \A c \in Code : [m EXCEPT !.code = c] \in Memory
         /\ [m EXCEPT !.refused = TRUE, !.prompt = "refusal"] \in Memory
  BY DEF Memory, Prompt

LEMMA DispatchTyped ==
  ASSUME TypeOK, NEW fix \in BOOLEAN, Dispatch(fix)
  PROVE  mem' \in Memory
  <1>1. Len(verifs) \in Nat /\ Len(harness) \in Nat /\ host \in Tip
    BY Entries DEF TypeOK, Last
  <1>2. CASE fix = TRUE
    BY <1>1, <1>2 DEF Dispatch, Forgotten, Memory, Tip, Prompt, Code
  <1>3. CASE fix = FALSE
    BY <1>1, <1>3 DEF Dispatch, Forgotten, Memory, Tip, Prompt, Code
  <1> QED
    BY <1>2, <1>3

LEMMA MindKept ==
  ASSUME TypeOK, Newest, AtLatest, [Next]_vars
  PROVE  mem' \in Memory /\ pc' \in Labels
  <1>1. mem \in Memory /\ pc \in Labels /\ host \in Tip /\ Last \in Nat /\ Len(harness) \in Nat
    BY Entries DEF TypeOK, Last
  <1> USE DEF Labels
  <1>2. ASSUME NEW fix \in BOOLEAN, Dispatch(fix) PROVE mem' \in Memory /\ pc' \in Labels
    <2>1. mem' \in Memory
      BY <1>2, DispatchTyped
    <2> QED
      BY <1>2, <2>1 DEF Dispatch
  <1>3. CASE StartAttempt
    <2>1. [mem EXCEPT !.latest = Len(harness) + 1] \in Memory
      <3>1. Len(harness) + 1 \in Nat
        BY <1>1
      <3> QED
        BY <1>1, <3>1, Recalled
    <2> QED
      BY <1>3, <2>1 DEF StartAttempt
  <1>4. CASE StartCollection
    <2>1. mem' = [mem EXCEPT !.collection = mem'.collection] /\ mem'.collection \in Nat
      BY <1>4, CollectionStarted
    <2> QED
      BY <1>1, <1>4, <2>1, Recalled DEF StartCollection
  <1>5. CASE CheckHost \/ ConfirmHost \/ Enforce
    BY <1>1, <1>5, Recalled DEF CheckHost, ConfirmHost, Enforce
  <1>6. CASE CloseVerify
    BY <1>1, <1>6, Recalled DEF CloseVerify
  <1>7. CASE Throw \/ Crash \/ Cleanup
    BY <1>7, ForgottenTyped DEF Throw, Crash, Cleanup
  <1>8. CASE ReconcileFresh \/ ReconcileResult \/ Launch \/ AwaitWorker \/ RetainResult
    BY <1>1, <1>8 DEF ReconcileFresh, ReconcileResult, Launch, AwaitWorker, RetainResult
  <1>9. CASE ApplyCollect \/ CloseCollection \/ StartVerify
    BY <1>1, <1>9 DEF ApplyCollect, CloseCollection, StartVerify
  <1>10. CASE PersistStart \/ PersistRunning \/ PersistResult \/ PersistCollected \/ PersistDone
    BY <1>1, <1>10 DEF PersistStart, PersistRunning, PersistResult, PersistCollected, PersistDone, Persist
  <1>11. CASE WorkerCommit \/ WorkerExit \/ Stray \/ UNCHANGED vars
    BY <1>1, <1>11 DEF WorkerCommit, WorkerExit, Stray, vars
  <1> QED
    BY <1>2, <1>3, <1>4, <1>5, <1>6, <1>7, <1>8, <1>9, <1>10, <1>11
    DEF Next, Driver, Invoke, Collect, Verify

LEMMA WorldKept ==
  ASSUME TypeOK, [Next]_vars
  PROVE  /\ record' \in Record /\ host' \in Tip /\ sandbox' \in Tip
         /\ worker' \in {"none", "running", "exited", "failed"}
         /\ lastTip' \in 0..MaxTip /\ strays' \in 0..MaxStrays /\ launches' \in Nat
  <1>1. /\ record \in Record /\ host \in Tip /\ sandbox \in Tip
        /\ worker \in {"none", "running", "exited", "failed"}
        /\ lastTip \in 0..MaxTip /\ strays \in 0..MaxStrays /\ launches \in Nat
        /\ MaxTip \in Nat /\ MaxStrays \in Nat
    BY BoundsAssumption DEF TypeOK
  <1> USE DEF Tip, world
  <1>2. CASE Throw
    <2>1. [record EXCEPT !.state = "orphaned"] \in Record
      BY <1>1 DEF Record, States
    <2> QED
      BY <1>1, <1>2, <2>1 DEF Throw
  <1>3. ASSUME NEW from, NEW state \in States, NEW to, Persist(from, state, to) PROVE record' \in Record /\ UNCHANGED world
    BY <1>3 DEF Persist, Record
  <1>4. CASE PersistStart \/ PersistRunning \/ PersistResult \/ PersistCollected \/ PersistDone
    <2>1. record' \in Record /\ UNCHANGED world
      BY <1>3, <1>4 DEF PersistStart, PersistRunning, PersistResult, PersistCollected, PersistDone, States
    <2> QED
      BY <1>1, <2>1
  <1>5. CASE Launch \/ WorkerExit
    BY <1>1, <1>5 DEF Launch, WorkerExit
  <1>6. CASE ReconcileFresh \/ ApplyCollect \/ Cleanup
    BY <1>1, <1>6 DEF ReconcileFresh, ApplyCollect, Cleanup
  <1>7. CASE WorkerCommit \/ Stray
    BY <1>1, <1>7 DEF WorkerCommit, Stray
  <1>8. ASSUME UNCHANGED <<record, world>>
        PROVE  /\ record' \in Record /\ host' \in Tip /\ sandbox' \in Tip
               /\ worker' \in {"none", "running", "exited", "failed"}
               /\ lastTip' \in 0..MaxTip /\ strays' \in 0..MaxStrays /\ launches' \in Nat
    BY <1>1, <1>8
  <1>9. CASE StartAttempt \/ AwaitWorker \/ RetainResult \/ StartCollection \/ CheckHost \/ ConfirmHost \/ CloseCollection
    BY <1>8, <1>9 DEF StartAttempt, AwaitWorker, RetainResult, StartCollection, CheckHost, ConfirmHost, CloseCollection
  <1>10. CASE StartVerify \/ Enforce \/ CloseVerify \/ Crash \/ ReconcileResult \/ UNCHANGED vars
    BY <1>8, <1>10 DEF StartVerify, Enforce, CloseVerify, Crash, ReconcileResult, vars
  <1>11. ASSUME NEW fix \in BOOLEAN, Dispatch(fix) PROVE UNCHANGED <<record, world>>
    BY <1>11 DEF Dispatch
  <1> QED
    BY <1>2, <1>4, <1>5, <1>6, <1>7, <1>8, <1>9, <1>10, <1>11
    DEF Next, Driver, Invoke, Collect, Verify

(* Which step writes which journal.                                        *)
LEMMA JournalSteps ==
  ASSUME [Next]_vars
  PROVE  /\ harness' # harness => StartAttempt \/ AwaitWorker \/ RetainResult
         /\ collections' # collections => StartCollection \/ CloseCollection
         /\ verifs' # verifs => StartVerify \/ CloseVerify
  <1> USE DEF journal
  <1>1. CASE Invoke
    BY <1>1 DEF Invoke, StartAttempt, PersistStart, Launch, PersistRunning, AwaitWorker, RetainResult, PersistResult, Persist
  <1>2. CASE Collect
    BY <1>2 DEF Collect, StartCollection, CheckHost, ApplyCollect, ConfirmHost, CloseCollection, PersistCollected, Persist
  <1>3. CASE Verify
    BY <1>3 DEF Verify, StartVerify, Enforce, CloseVerify, PersistDone, Cleanup, Persist
  <1>4. CASE ReconcileFresh \/ ReconcileResult \/ Throw \/ Crash \/ WorkerCommit \/ WorkerExit \/ Stray \/ UNCHANGED vars
    BY <1>4 DEF ReconcileFresh, ReconcileResult, Throw, Crash, WorkerCommit, WorkerExit, Stray, vars
  <1>5. ASSUME NEW fix \in BOOLEAN, Dispatch(fix) PROVE UNCHANGED journal
    BY <1>5 DEF Dispatch
  <1> QED
    BY <1>1, <1>2, <1>3, <1>4, <1>5 DEF Next, Driver

LEMMA AttemptEnds ==
  ASSUME TypeOK, Newest, AtLatest, AwaitWorker \/ RetainResult, harness' # harness
  PROVE  /\ LastIs("open") /\ pc # "idle"
         /\ \/ RetainResult /\ EndAttempt("completed", sandbox) /\ pc' = "persistResult" /\ sandbox \in Tip
            \/ EndAttempt("failed", NoTip) /\ pc' = "throw" /\ NoTip \in Tip
  BY DEF AwaitWorker, RetainResult, AtLatest, Attempting, TypeOK, Tip

LEMMA HarnessKept ==
  ASSUME TypeOK, Newest, AtLatest, [Next]_vars
  PROVE  /\ harness' \in Seq(HarnessAttempt) /\ Last' <= MaxAttempts
         /\ Last' \in Nat /\ Last <= Last'
         /\ \A h \in 1..Last : harness[h].end = "completed" => harness'[h] = harness[h]
  <1>1. harness \in Seq(HarnessAttempt) /\ Last \in Nat /\ Last <= MaxAttempts /\ MaxAttempts \in Nat
    BY Entries, AttemptsAssumption DEF TypeOK, Last
  <1>2. CASE harness' = harness
    BY <1>1, <1>2 DEF Last
  <1>3. CASE StartAttempt
    BY <1>1, <1>3, AttemptStarted DEF StartAttempt, Last
  <1>4. CASE (AwaitWorker \/ RetainResult) /\ harness' # harness
    <2>1. PICK e \in End, t \in Tip : LastIs("open") /\ pc # "idle" /\ EndAttempt(e, t)
      BY <1>4, AttemptEnds DEF End
    <2>2. /\ harness' \in Seq(HarnessAttempt) /\ Last' = Last
          /\ \A h \in 1..Last : h # Last => harness'[h] = harness[h]
      BY <2>1, AttemptEnded
    <2> QED
      BY <1>1, <2>1, <2>2 DEF LastIs
  <1> QED
    BY <1>2, <1>3, <1>4, JournalSteps

LEMMA CollectionsKept ==
  ASSUME TypeOK, Newest, AtLatest, ResultsCollected, [Next]_vars
  PROVE  /\ collections' \in Seq(Collection) /\ Len(collections') <= MaxAttempts
         /\ Len(collections') \in Nat /\ Len(collections) <= Len(collections')
         /\ \A c \in 1..Len(collections) :
               /\ collections'[c].of = collections[c].of
               /\ collections[c].end = "completed" => collections'[c] = collections[c]
  <1>1. /\ collections \in Seq(Collection) /\ Len(collections) \in Nat
        /\ Len(collections) <= MaxAttempts /\ MaxAttempts \in Nat
    BY Entries, AttemptsAssumption DEF TypeOK
  <1>2. CASE collections' = collections
    BY <1>1, <1>2
  <1>3. CASE StartCollection
    BY <1>1, <1>3, CollectionStarted
  <1>4. CASE CloseCollection
    BY <1>1, <1>4, CollectionClosed
  <1> QED
    BY <1>2, <1>3, <1>4, JournalSteps

LEMMA CompletedBounded ==
  ASSUME TypeOK
  PROVE  IsFiniteSet(Completed) /\ Cardinality(Completed) \in Nat /\ Cardinality(Completed) <= Len(collections)
  <1>1. Len(collections) \in Nat
    BY Entries
  <1>2. IsFiniteSet(1..Len(collections)) /\ Cardinality(1..Len(collections)) = Len(collections)
    <2>1. /\ IsFiniteSet(1..Len(collections))
          /\ Cardinality(1..Len(collections)) = IF 1 > Len(collections) THEN 0 ELSE Len(collections) - 1 + 1
      BY <1>1, FS_Interval
    <2> QED
      BY <1>1, <2>1
  <1>3. Completed \subseteq 1..Len(collections)
    BY DEF Completed
  <1> QED
    BY <1>2, <1>3, FS_Subset, FS_CardinalityType

LEMMA VerificationsKept ==
  ASSUME TypeOK, Newest, AtVerification, OneVerificationEach, [Next]_vars
  PROVE  /\ verifs' \in Seq(Verification) /\ Len(verifs') <= MaxAttempts
         /\ Len(verifs') \in Nat /\ Len(verifs) <= Len(verifs')
  <1>1. /\ verifs \in Seq(Verification) /\ Len(verifs) \in Nat
        /\ Len(verifs) <= MaxAttempts /\ MaxAttempts \in Nat
        /\ Len(collections) <= MaxAttempts /\ Len(collections) \in Nat
    BY Entries, AttemptsAssumption DEF TypeOK
  <1>2. CASE verifs' = verifs
    BY <1>1, <1>2
  <1>3. CASE StartVerify
    <2>1. Len(verifs) < Cardinality(Completed)
      BY <1>3 DEF StartVerify, OneVerificationEach
    <2>2. Cardinality(Completed) \in Nat /\ Cardinality(Completed) <= Len(collections)
      BY CompletedBounded
    <2>3. verifs' \in Seq(Verification) /\ Len(verifs') = Len(verifs) + 1
      BY <1>3, VerificationStarted
    <2> QED
      BY <1>1, <2>1, <2>2, <2>3
  <1>4. CASE CloseVerify
    BY <1>1, <1>4, VerificationClosed
  <1> QED
    BY <1>2, <1>3, <1>4, JournalSteps

LEMMA TypeKept ==
  ASSUME TypeOK, Newest, AtLatest, ResultsCollected, AtVerification, OneVerificationEach, [Next]_vars
  PROVE  TypeOK'
  BY MindKept, WorldKept, HarnessKept, CollectionsKept, VerificationsKept DEF TypeOK, Last

-----------------------------------------------------------------------------
(* The dispatch and the harness journal.                                   *)

(* A step in which no journal is written: how the dispatch moves on.       *)
LEMMA LatestKept ==
  ASSUME TypeOK, Newest, AtLatest, [Next]_vars
  PROVE  Newest'
  <1>1. mem \in Memory /\ Last \in Nat /\ (pc # "idle" => mem.latest = Last)
    BY Entries DEF TypeOK, Newest
  <1> USE DEF Newest, Last
  <1>2. ASSUME NEW fix \in BOOLEAN, Dispatch(fix) PROVE Newest'
    BY <1>2 DEF Dispatch, Forgotten, journal
  <1>3. CASE StartAttempt
    <2>1. mem'.latest = Last + 1
      BY <1>1, <1>3 DEF StartAttempt, Memory
    <2> QED
      BY <1>3, <2>1, AttemptStarted
  <1>4. CASE AwaitWorker \/ RetainResult
    <2>1. Len(harness') = Last
      <3>1. CASE harness' = harness
        BY <3>1
      <3>2. CASE harness' # harness
        <4>1. PICK e \in End, t \in Tip : LastIs("open") /\ pc # "idle" /\ EndAttempt(e, t)
          BY <1>4, <3>2, AttemptEnds DEF End
        <4> QED
          BY <4>1, AttemptEnded
      <3> QED
        BY <3>1, <3>2
    <2> QED
      BY <1>1, <1>4, <2>1 DEF AwaitWorker, RetainResult
  <1>5. CASE StartCollection
    <2>1. mem' = [mem EXCEPT !.collection = mem'.collection]
      BY <1>5, CollectionStarted
    <2>2. mem'.latest = mem.latest
      BY ONLY <1>1, <2>1 DEF Memory
    <2> QED
      BY <1>1, <1>5, <2>2 DEF StartCollection
  <1>6. CASE CheckHost \/ ConfirmHost \/ Enforce \/ CloseVerify
    BY <1>1, <1>6 DEF CheckHost, ConfirmHost, Enforce, CloseVerify, journal, Memory
  <1>7. CASE Throw \/ Crash \/ Cleanup
    BY <1>7 DEF Throw, Crash, Cleanup
  <1>8. CASE ReconcileFresh \/ ReconcileResult \/ Launch \/ ApplyCollect \/ CloseCollection \/ StartVerify
    BY <1>1, <1>8 DEF ReconcileFresh, ReconcileResult, Launch, ApplyCollect, CloseCollection, StartVerify, journal
  <1>9. CASE PersistStart \/ PersistRunning \/ PersistResult \/ PersistCollected \/ PersistDone
    <2>1. UNCHANGED <<harness, mem>> /\ pc # "idle"
      BY <1>9 DEF PersistStart, PersistRunning, PersistResult, PersistCollected, PersistDone, Persist, journal
    <2> QED
      BY <1>1, <2>1
  <1>10. CASE WorkerCommit \/ WorkerExit \/ Stray \/ UNCHANGED vars
    BY <1>1, <1>10 DEF WorkerCommit, WorkerExit, Stray, vars, journal
  <1> QED
    BY <1>2, <1>3, <1>4, <1>5, <1>6, <1>7, <1>8, <1>9, <1>10 DEF Next, Driver, Invoke, Collect, Verify

LEMMA AtLatestKept ==
  ASSUME TypeOK, Newest, EarlierCompleted, AtLatest, [Next]_vars
  PROVE  AtLatest' /\ EarlierCompleted'
  <1>1. Last \in Nat /\ \A h \in 1..Last : harness[h] \in HarnessAttempt
    BY Entries
  <1>2. CASE StartAttempt
    <2>1. /\ Last' = Last + 1 /\ \A h \in 1..Last : harness'[h] = harness[h]
          /\ harness'[Last + 1].end = "open"
      BY <1>2, AttemptStarted DEF OpenAttempt
    <2>2. pc' = "persistStart" /\ (Last > 0 => harness[Last].end = "completed")
      BY <1>2 DEF StartAttempt, AtLatest, LastIs
    <2>3. AtLatest'
      BY <1>1, <2>1, <2>2 DEF AtLatest, LastIs, Attempting, Resulting, Collecting, Closed
    <2>4. EarlierCompleted'
      BY <1>1, <2>1, <2>2 DEF EarlierCompleted
    <2> QED
      BY <2>3, <2>4
  <1>3. CASE (AwaitWorker \/ RetainResult) /\ harness' # harness
    <2>1. PICK e \in End, t \in Tip : /\ LastIs("open") /\ pc # "idle" /\ EndAttempt(e, t)
                                      /\ \/ e = "completed" /\ pc' = "persistResult"
                                         \/ pc' = "throw"
      BY <1>3, AttemptEnds DEF End
    <2>2. /\ Last' = Last /\ Last > 0 /\ \A h \in 1..Last : h # Last => harness'[h] = harness[h]
          /\ harness'[Last].end = e
      BY <2>1, AttemptEnded DEF LastIs
    <2>3. AtLatest'
      BY <1>1, <2>1, <2>2 DEF AtLatest, LastIs, Attempting, Resulting, Collecting, Closed
    <2>4. EarlierCompleted'
      BY <1>1, <2>2 DEF EarlierCompleted
    <2> QED
      BY <2>3, <2>4
  <1>4. ASSUME UNCHANGED harness,
               pc' \in Attempting => pc \in Attempting,
               pc' = "start" /\ Last > 0 => LastIs("completed"),
               pc' \in Resulting => LastIs("completed")
        PROVE  AtLatest' /\ EarlierCompleted'
    BY <1>4 DEF AtLatest, EarlierCompleted, LastIs, Last
  <1> USE DEF AtLatest, Attempting, Resulting, Collecting, Closed
  <1>5. CASE harness' = harness /\ Invoke
    <2>1. ~StartAttempt
      <3>1. StartAttempt => Last' = Last + 1
        BY AttemptStarted
      <3> QED
        BY <1>1, <1>5, <3>1 DEF Last
    <2>2. ~RetainResult
      <3>1. RetainResult => LastIs("open") /\ pc # "idle" /\ \E e \in {"completed", "failed"}, t \in Tip : EndAttempt(e, t)
        BY DEF RetainResult, TypeOK, Tip
      <3>2. ASSUME RetainResult PROVE FALSE
        <4>1. PICK e \in {"completed", "failed"}, t \in Tip : EndAttempt(e, t)
          BY <3>1, <3>2
        <4>2. harness'[Last].end = e /\ harness[Last].end = "open"
          BY <3>1, <3>2, <4>1, AttemptEnded DEF End, LastIs
        <4> QED
          BY <1>5, <4>2
      <3> QED
        BY <3>2
    <2>3. CASE AwaitWorker \/ Launch
      <3>1. pc' \in Attempting \cup {"throw"} /\ pc \in Attempting
        BY <2>3 DEF AwaitWorker, Launch
      <3> QED
        BY <1>4, <1>5, <3>1
    <2>4. CASE PersistStart \/ PersistRunning \/ PersistResult
      BY <1>4, <1>5, <2>4 DEF PersistStart, PersistRunning, PersistResult, Persist
    <2> QED
      BY <1>5, <2>1, <2>2, <2>3, <2>4 DEF Invoke
  <1>6. CASE Collect
    BY <1>4, <1>6 DEF Collect, StartCollection, CheckHost, ApplyCollect, ConfirmHost, CloseCollection,
       PersistCollected, Persist, journal
  <1>7. CASE Verify
    BY <1>4, <1>7 DEF Verify, StartVerify, Enforce, CloseVerify, PersistDone, Cleanup, Persist, journal
  <1>8. CASE ReconcileFresh \/ ReconcileResult
    <2>1. mem.latest = Last /\ UNCHANGED harness /\ pc' \in {"start", "collect"}
      BY <1>8 DEF ReconcileFresh, ReconcileResult, Newest, journal
    <2>2. Last > 0 => LastIs("completed")
      BY <1>1, <1>8, <2>1 DEF ReconcileFresh, ReconcileResult, Latest, LastIs
    <2>3. pc' = "collect" => Last > 0
      BY <1>1, <1>8, <2>1 DEF ReconcileFresh, ReconcileResult
    <2> QED
      BY <1>4, <2>1, <2>2, <2>3
  <1>9. CASE Throw \/ Crash \/ WorkerCommit \/ WorkerExit \/ Stray \/ UNCHANGED vars
    BY <1>4, <1>9 DEF Throw, Crash, WorkerCommit, WorkerExit, Stray, vars, journal
  <1>10. ASSUME NEW fix \in BOOLEAN, Dispatch(fix) PROVE AtLatest' /\ EarlierCompleted'
    BY <1>4, <1>10 DEF Dispatch, journal
  <1> QED
    BY <1>2, <1>3, <1>5, <1>6, <1>7, <1>8, <1>9, <1>10, JournalSteps DEF Next, Driver, Invoke

(* The model and its launches.                                             *)
LEMMA WorkerKept ==
  ASSUME TypeOK, JournalInv, [Next]_vars
  PROVE  OneWorker'
  <1>1. /\ Last \in Nat /\ launches \in Nat /\ launches <= Last
        /\ pc \in {"persistStart", "launch"} => launches < Last
        /\ worker = "running" => LastIs("open") /\ pc \notin {"persistStart", "launch", "retain"}
        /\ pc \in Attempting => LastIs("open")
    BY Entries DEF JournalInv, OneWorker, AtLatest, TypeOK
  <1> USE DEF world
  <1>2. CASE StartAttempt
    <2>1. Last' = Last + 1 /\ worker # "running" /\ UNCHANGED <<worker, launches>>
      <3>1. worker = "running" => FALSE
        BY <1>1, <1>2 DEF StartAttempt, LastIs, JournalInv, AtLatest
      <3> QED
        BY <1>2, <3>1, AttemptStarted DEF StartAttempt
    <2> QED
      BY <1>1, <2>1 DEF OneWorker
  <1>3. CASE AwaitWorker
    <2>1. worker # "running" /\ UNCHANGED <<worker, launches>> /\ pc' \in {"retain", "throw"} /\ Last' = Last
      <3>1. harness' # harness => Last' = Last
        BY <1>3, AttemptEnds, AttemptEnded DEF JournalInv, End
      <3> QED
        BY <1>3, <3>1 DEF AwaitWorker, Last
    <2> QED
      BY <1>1, <2>1 DEF OneWorker
  <1>4. CASE RetainResult
    <2>1. worker # "running" /\ UNCHANGED <<worker, launches>> /\ pc' \in {"persistResult", "throw"} /\ Last' = Last
      <3>1. harness' # harness => Last' = Last
        BY <1>4, AttemptEnds, AttemptEnded DEF JournalInv, End
      <3> QED
        BY <1>1, <1>4, <3>1 DEF RetainResult, Last
    <2> QED
      BY <1>1, <2>1 DEF OneWorker
  <1>5. CASE Launch
    BY <1>1, <1>5 DEF Launch, OneWorker, Attempting, LastIs, Last, journal
  <1>6. CASE WorkerExit
    BY <1>1, <1>6 DEF WorkerExit, OneWorker, LastIs, Last, journal
  <1>7. ASSUME UNCHANGED <<harness, worker, launches>>,
               pc' \in {"persistStart", "launch", "retain"} => pc \in {"persistStart", "launch", "retain"} /\ (pc = "retain" => pc' = "retain")
        PROVE  OneWorker'
    BY <1>1, <1>7 DEF OneWorker, LastIs, Last
  <1>8. CASE PersistStart \/ PersistRunning \/ PersistResult
    BY <1>7, <1>8 DEF PersistStart, PersistRunning, PersistResult, Persist, journal
  <1>9. CASE Collect
    BY <1>7, <1>9 DEF Collect, StartCollection, CheckHost, ApplyCollect, ConfirmHost, CloseCollection,
       PersistCollected, Persist, journal
  <1>10. CASE Verify
    BY <1>7, <1>10 DEF Verify, StartVerify, Enforce, CloseVerify, PersistDone, Cleanup, Persist, journal
  <1>11. CASE ReconcileFresh \/ ReconcileResult \/ Throw \/ Crash \/ WorkerCommit \/ Stray \/ UNCHANGED vars
    BY <1>7, <1>11 DEF ReconcileFresh, ReconcileResult, Throw, Crash, WorkerCommit, Stray, vars, journal
  <1>12. ASSUME NEW fix \in BOOLEAN, Dispatch(fix) PROVE OneWorker'
    BY <1>7, <1>12 DEF Dispatch, journal
  <1> QED
    BY <1>2, <1>3, <1>4, <1>5, <1>6, <1>8, <1>9, <1>10, <1>11, <1>12 DEF Next, Driver, Invoke

(* A collected result stays collected.                                     *)
LEMMA StaysCollected ==
  ASSUME TypeOK, Newest, AtLatest, ResultsCollected, [Next]_vars, NEW h, Collected(h)
  PROVE  Collected(h)'
  <1>1. PICK c \in 1..Len(collections) : collections[c].of = h /\ collections[c].end = "completed"
    BY DEF Collected, CollectionsOf
  <1>2. Len(collections) \in Nat /\ Len(collections') \in Nat /\ Len(collections) <= Len(collections')
        /\ collections'[c] = collections[c]
    BY <1>1, Entries, CollectionsKept
  <1> QED
    BY <1>1, <1>2 DEF Collected, CollectionsOf

LEMMA JustifiedKept ==
  ASSUME TypeOK, JournalInv, ResultsCollected, SawTip, [Next]_vars
  PROVE  Justified'
  <1>1. Last \in Nat /\ mem \in Memory /\ (pc # "idle" => mem.latest = Last)
    BY Entries DEF JournalInv, Newest, TypeOK
  <1>2. \A h \in Nat : Collected(h) => Collected(h)'
    BY StaysCollected DEF JournalInv
  <1>3. CASE StartAttempt
    <2>1. Last' = Last + 1 /\ pc' = "persistStart" /\ mem'.fix = mem.fix /\ mem'.refused = mem.refused
      BY <1>1, <1>3, AttemptStarted DEF StartAttempt, Memory
    <2>2. Last > 0 => mem.refused \/ (mem.fix /\ Collected(Last))
      BY <1>3 DEF JournalInv, Justified, StartAttempt
    <2>3. PICK h \in Nat : h = Last
      BY <1>1
    <2>4. Last' - 1 = h
      BY <2>1, <2>3
    <2>5. Collected(h) => Collected(Last - 1)'
      BY <1>2, <2>4 DEF Collected, CollectionsOf
    <2> QED
      BY <1>1, <2>1, <2>2, <2>3, <2>5 DEF Justified
  <1>4. ASSUME UNCHANGED harness,
               pc' \in {"start", "persistStart", "launch"} =>
                   /\ mem'.fix = mem.fix /\ (mem.refused => mem'.refused)
                   /\ \/ pc = "start" /\ pc' = "start"
                      \/ pc \in {"persistStart", "launch"} /\ pc' \in {"persistStart", "launch"}
        PROVE  Justified'
    <2>1. PICK h \in Nat : h = Last
      BY <1>1
    <2>2. Last' = h
      BY <1>4, <2>1 DEF Last
    <2>3. CASE pc = "start" /\ pc' = "start"
      <3>1. Collected(h) => Collected(Last)'
        BY <1>2, <2>2 DEF Collected, CollectionsOf
      <3> QED
        BY <1>4, <2>1, <2>2, <2>3, <3>1 DEF Justified, JournalInv
    <2>4. CASE pc \in {"persistStart", "launch"} /\ pc' \in {"persistStart", "launch"}
      <3>1. CASE h > 1
        <4>1. PICK g \in Nat : g = h - 1
          BY <3>1
        <4>2. Last' - 1 = g
          BY <2>2, <4>1
        <4>3. Collected(g) => Collected(Last - 1)'
          BY <1>2, <4>2 DEF Collected, CollectionsOf
        <4>4. mem.refused \/ (mem.fix /\ Collected(g))
          BY <2>1, <2>4, <3>1, <4>1 DEF Justified, JournalInv
        <4> QED
          BY <1>4, <2>4, <4>3, <4>4 DEF Justified
      <3> QED
        BY <2>2, <2>4, <3>1 DEF Justified
    <2> QED
      BY <1>4, <2>3, <2>4 DEF Justified
  <1>5. CASE AwaitWorker \/ RetainResult
    BY <1>5 DEF Justified, AwaitWorker, RetainResult
  <1>6. CASE Launch \/ PersistStart \/ PersistRunning \/ PersistResult
    BY <1>4, <1>6 DEF Launch, PersistStart, PersistRunning, PersistResult, Persist, journal
  <1>7. CASE StartCollection \/ CheckHost \/ ApplyCollect \/ ConfirmHost \/ CloseCollection \/ PersistCollected
    BY <1>7 DEF StartCollection, CheckHost, ApplyCollect, ConfirmHost, CloseCollection,
       PersistCollected, Persist, journal, Justified
  <1>8. CASE CloseVerify
    <2>1. pc' = "start" => mem'.refused
      BY <1>1, <1>8 DEF CloseVerify, Memory, Accepted
    <2>2. pc' \notin {"persistStart", "launch"}
      BY <1>8 DEF CloseVerify
    <2> QED
      BY <2>1, <2>2 DEF Justified
  <1>9. CASE StartVerify \/ Enforce \/ PersistDone \/ Cleanup \/ Throw \/ Crash
    BY <1>9 DEF StartVerify, Enforce, PersistDone, Cleanup, Persist, Throw, Crash, Justified
  <1>10. CASE WorkerCommit \/ WorkerExit \/ Stray \/ UNCHANGED vars
    BY <1>4, <1>10 DEF WorkerCommit, WorkerExit, Stray, vars, journal
  <1>11. CASE ReconcileFresh
    <2>1. Last' = 0 /\ pc' = "start"
      BY <1>1, <1>11 DEF ReconcileFresh, Last, journal
    <2> QED
      BY <2>1 DEF Justified
  <1>12. CASE ReconcileResult
    <2>1. pc' \in {"start", "collect"} /\ UNCHANGED <<mem, journal>> /\ Last' = Last
      BY <1>12 DEF ReconcileResult, Last, journal
    <2>2. pc' = "start" => mem.fix /\ Collected(Last)
      BY <1>1, <1>12 DEF ReconcileResult, FixOverCollected
    <2>3. pc' = "start" => Collected(Last)'
      BY <2>1, <2>2 DEF Collected, CollectionsOf, journal
    <2> QED
      BY <2>1, <2>2, <2>3 DEF Justified
  <1>13. ASSUME NEW fix \in BOOLEAN, Dispatch(fix) PROVE Justified'
    BY <1>13 DEF Dispatch, Justified
  <1> QED
    BY <1>3, <1>5, <1>6, <1>7, <1>8, <1>9, <1>10, <1>11, <1>12, <1>13 DEF Next, Driver, Invoke, Collect, Verify

-----------------------------------------------------------------------------
(* What is collected and verified.                                         *)

LEMMA Following ==
  ASSUME [Next]_vars, pc' \in Collecting \cup Closed
  PROVE  \/ Collect \/ StartVerify \/ Enforce \/ CloseVerify \/ PersistDone
         \/ pc' = pc /\ UNCHANGED <<journal, record, mem>>
  <1> USE DEF Collecting, Closed
  <1>1. CASE Invoke
    BY <1>1 DEF Invoke, StartAttempt, PersistStart, Launch, PersistRunning, AwaitWorker, RetainResult, PersistResult, Persist
  <1>2. CASE ReconcileFresh \/ ReconcileResult \/ Throw \/ Crash \/ Cleanup
    BY <1>2 DEF ReconcileFresh, ReconcileResult, Throw, Crash, Cleanup
  <1>3. CASE WorkerCommit \/ WorkerExit \/ Stray \/ UNCHANGED vars
    BY <1>3 DEF WorkerCommit, WorkerExit, Stray, vars, journal
  <1>4. ASSUME NEW fix \in BOOLEAN, Dispatch(fix) PROVE FALSE
    BY <1>4 DEF Dispatch
  <1> QED
    BY <1>1, <1>2, <1>3, <1>4 DEF Next, Driver, Verify

LEMMA ResultsCollectedKept ==
  ASSUME TypeOK, JournalInv, ResultsCollected, [Next]_vars
  PROVE  ResultsCollected'
  <1>1. Newest /\ AtLatest
    BY DEF JournalInv
  <1>2. /\ Last \in Nat /\ Last' \in Nat /\ Last <= Last'
        /\ \A h \in 1..Last : harness[h].end = "completed" => harness'[h] = harness[h]
        /\ Len(collections) \in Nat /\ Len(collections') \in Nat
        /\ \A c \in 1..Len(collections) : collections'[c].of = collections[c].of
        /\ \A c \in 1..Len(collections) :
              collections[c].of \in 1..Last /\ harness[collections[c].of].end = "completed"
    BY <1>1, Entries, HarnessKept, CollectionsKept DEF ResultsCollected
  <1>3. ASSUME NEW c \in 1..Len(collections')
        PROVE  collections'[c].of \in 1..Last' /\ harness'[collections'[c].of].end = "completed"
    <2>1. CASE c \in 1..Len(collections)
      BY <1>2, <2>1
    <2>2. CASE c > Len(collections)
      <3>1. StartCollection
        <4>1. ~CloseCollection
          BY <1>2, <2>2, CollectionClosed
        <4> QED
          BY <1>2, <2>2, <4>1, JournalSteps
      <3>2. collections'[c] = [of |-> Last, end |-> "open"]
        BY <1>1, <2>2, <3>1, CollectionStarted
      <3>3. LastIs("completed") /\ harness' = harness
        BY <1>1, <3>1 DEF AtLatest, Resulting, StartCollection
      <3> QED
        BY <1>2, <3>2, <3>3 DEF LastIs, Last
    <2> QED
      BY <1>2, <2>1, <2>2
  <1>4. ASSUME pc' \in Collecting
        PROVE  /\ mem'.collection \in 1..Len(collections')
               /\ collections'[mem'.collection] = [of |-> Last', end |-> "open"]
    <2> USE DEF Collecting
    <2>1. mem \in Memory /\ (pc \in Collecting => mem.collection \in 1..Len(collections)
                               /\ collections[mem.collection] = [of |-> Last, end |-> "open"])
      BY DEF TypeOK, ResultsCollected
    <2>2. CASE StartCollection
      <3>1. Last' = Last
        BY <2>2 DEF StartCollection, Last
      <3> QED
        BY <1>1, <2>2, <3>1, CollectionStarted
    <2>3. CASE CheckHost \/ ApplyCollect \/ ConfirmHost
      <3>1. pc \in Collecting /\ mem'.collection = mem.collection /\ UNCHANGED <<harness, collections>>
        BY <2>1, <2>3 DEF CheckHost, ApplyCollect, ConfirmHost, Memory, journal
      <3> QED
        BY <2>1, <3>1 DEF Last
    <2>4. CASE CloseCollection \/ PersistCollected \/ StartVerify \/ Enforce \/ CloseVerify \/ PersistDone
      BY <1>4, <2>4 DEF CloseCollection, PersistCollected, StartVerify, Enforce, CloseVerify, PersistDone, Persist
    <2>5. CASE pc' = pc /\ UNCHANGED <<journal, record, mem>>
      BY <1>4, <2>1, <2>5 DEF journal, Last
    <2> QED
      BY <1>4, <2>2, <2>3, <2>4, <2>5, Following DEF Collect
  <1> QED
    BY <1>3, <1>4 DEF ResultsCollected

LEMMA OneVerificationEachKept ==
  ASSUME TypeOK, JournalInv, ResultsCollected, OneVerificationEach, AtVerification, [Next]_vars
  PROVE  OneVerificationEach'
  <1>1. Newest /\ AtLatest
    BY DEF JournalInv
  <1>2. /\ Len(collections) \in Nat /\ Len(verifs) \in Nat /\ Len(verifs) <= Cardinality(Completed)
        /\ IsFiniteSet(Completed) /\ Cardinality(Completed) \in Nat
    BY Entries, CompletedBounded DEF OneVerificationEach
  <1>3. CASE CloseCollection
    <2> DEFINE c == mem.collection
    <2>1. Completed' = Completed \cup {c} /\ c \notin Completed
      BY <1>2, <1>3, CollectionClosed DEF Completed
    <2>2. Cardinality(Completed)' = Cardinality(Completed) + 1
      BY <1>2, <2>1, FS_AddElement
    <2>3. verifs' = verifs
      BY <1>3 DEF CloseCollection
    <2> QED
      BY <1>2, <2>2, <2>3 DEF OneVerificationEach
  <1>4. CASE StartCollection
    <2>1. Completed' = Completed
      BY <1>1, <1>2, <1>4, CollectionStarted DEF Completed
    <2>2. verifs' = verifs /\ pc' = "checkHost"
      BY <1>4 DEF StartCollection
    <2> QED
      BY <1>2, <2>1, <2>2 DEF OneVerificationEach
  <1>5. CASE StartVerify
    <2>1. UNCHANGED collections /\ Len(verifs) < Cardinality(Completed) /\ pc' = "enforce"
      BY <1>5 DEF StartVerify, OneVerificationEach
    <2>2. Len(verifs') = Len(verifs) + 1
      BY <1>1, <1>5, VerificationStarted
    <2> QED
      BY <1>2, <2>1, <2>2 DEF OneVerificationEach, Completed
  <1>6. CASE CloseVerify
    <2>1. UNCHANGED collections /\ Len(verifs') = Len(verifs) /\ pc' \notin {"persistCollected", "startVerify"}
      BY <1>6, VerificationClosed DEF CloseVerify
    <2> QED
      BY <1>2, <2>1 DEF OneVerificationEach, Completed
  <1>7. CASE UNCHANGED <<collections, verifs>> /\ ~CloseCollection
    <2>1. pc' \in {"persistCollected", "startVerify"} => pc \in {"persistCollected", "startVerify"}
      <3>1. CASE StartCollection \/ CheckHost \/ ApplyCollect \/ ConfirmHost \/ PersistCollected
        BY <3>1 DEF StartCollection, CheckHost, ApplyCollect, ConfirmHost, PersistCollected, Persist
      <3>2. CASE StartVerify \/ Enforce \/ CloseVerify \/ PersistDone
        BY <3>2 DEF StartVerify, Enforce, CloseVerify, PersistDone, Persist
      <3> QED
        BY <1>7, <3>1, <3>2, Following DEF Closed, Collect
    <2> QED
      BY <1>2, <1>7, <2>1 DEF OneVerificationEach, Completed
  <1> QED
    BY <1>3, <1>4, <1>5, <1>6, <1>7, JournalSteps

LEMMA SawTipKept ==
  ASSUME TypeOK, JournalInv, ResultsCollected, SawTip, [Next]_vars
  PROVE  SawTip'
  <1>1. /\ Newest /\ AtLatest /\ mem \in Memory /\ Last \in Nat
        /\ \A h \in Nat : Collected(h) => Collected(h)'
    BY Entries, StaysCollected DEF JournalInv, TypeOK
  <1> USE DEF Closed, Collecting
  <1>2. ASSUME UNCHANGED harness, Collected(Last) PROVE Collected(Last)'
    <2>1. PICK h \in Nat : h = Last
      BY <1>1
    <2>2. Last' = h
      BY <1>2, <2>1 DEF Last
    <2> QED
      BY <1>1, <1>2, <2>1, <2>2 DEF Collected, CollectionsOf
  <1>3. CASE CheckHost \/ ConfirmHost
    <2>1. pc' = "closeCollection" => mem'.hostTip = harness[Last].tip
      BY <1>1, <1>3 DEF CheckHost, ConfirmHost, SourceTip, Latest, Newest, Memory
    <2>2. Last' = Last /\ UNCHANGED harness /\ pc' \in {"closeCollection", "apply"}
      BY <1>3 DEF CheckHost, ConfirmHost, journal, Last
    <2> QED
      BY <2>1, <2>2 DEF SawTip
  <1>4. CASE CloseCollection
    <2>1. UNCHANGED <<harness, mem>> /\ Last' = Last
      BY <1>4 DEF CloseCollection, Last
    <2>2. /\ mem.collection \in 1..Len(collections') /\ collections'[mem.collection].of = Last
          /\ collections'[mem.collection].end = "completed"
      BY <1>4, CollectionClosed
    <2>3. Collected(Last)'
      BY <2>1, <2>2 DEF Collected, CollectionsOf
    <2>4. mem.hostTip = harness[Last].tip
      BY <1>4 DEF CloseCollection, SawTip
    <2> QED
      BY <2>1, <2>3, <2>4 DEF SawTip
  <1>5. ASSUME UNCHANGED harness, mem'.hostTip = mem.hostTip, pc \in Closed, pc' \in Closed PROVE SawTip'
    <2>1. Collected(Last)'
      BY <1>2, <1>5 DEF SawTip
    <2>2. mem'.hostTip = harness'[Last'].tip
      BY <1>5 DEF SawTip, Last
    <2> QED
      BY <2>1, <2>2 DEF SawTip
  <1>6. CASE PersistCollected \/ StartVerify \/ PersistDone
    BY <1>5, <1>6 DEF PersistCollected, StartVerify, PersistDone, Persist, journal
  <1>7. CASE Enforce
    <2>1. mem'.hostTip = mem.hostTip
      BY <1>1, <1>7 DEF Enforce, Memory
    <2> QED
      BY <1>5, <1>7, <2>1 DEF Enforce, journal
  <1>8. CASE CloseVerify
    <2>1. pc' \notin Closed => pc' \notin Closed \cup {"closeCollection"}
      BY <1>8 DEF CloseVerify
    <2>2. pc' \in Closed => UNCHANGED <<harness, mem>> /\ pc \in Closed
      BY <1>8 DEF CloseVerify
    <2>3. CASE pc' \notin Closed
      BY <2>1, <2>3 DEF SawTip
    <2> QED
      BY <1>5, <2>2, <2>3
  <1>9. CASE pc' = pc /\ UNCHANGED <<journal, record, mem>>
    <2>1. CASE pc \in Closed
      BY <1>5, <1>9, <2>1 DEF journal
    <2>2. CASE pc \notin Closed
      BY <1>9, <2>2 DEF SawTip, journal, Last
    <2> QED
      BY <2>1, <2>2
  <1>10. CASE StartCollection \/ ApplyCollect
    BY <1>10 DEF StartCollection, ApplyCollect, SawTip
  <1>11. CASE pc' \notin Closed \cup {"closeCollection"}
    BY <1>11 DEF SawTip
  <1> QED
    BY <1>3, <1>4, <1>6, <1>7, <1>8, <1>9, <1>10, <1>11, Following DEF Collect

LEMMA AtVerificationKept ==
  ASSUME TypeOK, JournalInv, ResultsCollected, AtVerification, [Next]_vars
  PROVE  AtVerification'
  <1>1. Newest /\ AtLatest /\ mem \in Memory /\ Len(verifs) \in Nat /\ (verifs = <<>> <=> Len(verifs) = 0)
    BY Entries, EmptySeq DEF JournalInv, TypeOK
  <1>2. CASE StartVerify
    <2>1. /\ verifs' \in Seq(Verification) /\ Len(verifs') = Len(verifs) + 1
          /\ verifs'[Len(verifs) + 1] = [of |-> Last, tip |-> mem.hostTip, end |-> "open"]
          /\ pc' = "enforce" /\ mem' = mem /\ Last' = Last
      BY <1>1, <1>2, VerificationStarted DEF StartVerify, Last
    <2>2. verifs' # <<>>
      BY <1>1, <2>1, EmptySeq
    <2> QED
      BY <2>1, <2>2 DEF AtVerification, LastVerified
  <1>3. CASE Enforce
    <2>1. mem'.hostTip = mem.hostTip /\ UNCHANGED <<harness, verifs>> /\ pc' = "closeVerify" /\ pc = "enforce"
      BY <1>1, <1>3 DEF Enforce, Memory, journal
    <2> QED
      BY <2>1 DEF AtVerification, LastVerified, Last
  <1>4. CASE CloseVerify
    <2>1. pc' \in {"start", "throw"} \/ (pc' = "persistDone" /\ Accepted)
      BY <1>4 DEF CloseVerify
    <2>2. /\ verifs' \in Seq(Verification) /\ Len(verifs') = Len(verifs) /\ Len(verifs) \in 1..Len(verifs)
          /\ verifs'[Len(verifs)].of = verifs[Len(verifs)].of
          /\ Accepted => verifs'[Len(verifs)].end = "completed"
      BY <1>4, VerificationClosed
    <2>3. verifs' # <<>> /\ Last' = Last /\ verifs[Len(verifs)].of = Last
      <3>1. verifs' # <<>>
        BY <2>2, EmptySeq
      <3> QED
        BY <1>4, <3>1 DEF AtVerification, LastVerified, CloseVerify, Last
    <2> QED
      BY <2>1, <2>2, <2>3 DEF AtVerification, LastVerified
  <1>5. CASE PersistDone
    BY <1>5 DEF PersistDone, Persist, AtVerification
  <1>6. CASE Collect
    BY <1>6 DEF Collect, StartCollection, CheckHost, ApplyCollect, ConfirmHost, CloseCollection, PersistCollected,
       Persist, AtVerification
  <1>7. CASE pc' = pc /\ UNCHANGED <<journal, record, mem>>
    BY <1>7 DEF AtVerification, LastVerified, Last, journal
  <1>8. CASE pc' \notin Closed
    BY <1>8 DEF AtVerification, Closed
  <1> QED
    BY <1>2, <1>3, <1>4, <1>5, <1>6, <1>7, <1>8, Following

LEMMA RetainedKept ==
  ASSUME TypeOK, JournalInv, VerifiedInv, [Next]_vars
  PROVE  Retained'
  <1>1. /\ Newest /\ AtLatest /\ ResultsCollected /\ AtVerification /\ SawTip /\ Len(verifs) \in Nat
        /\ Last \in Nat
    BY Entries DEF JournalInv, VerifiedInv
  <1>2. /\ \A h \in Nat : Collected(h) => Collected(h)'
        /\ \A h \in 1..Last : harness[h].end = "completed" => harness'[h] = harness[h]
        /\ Last' \in Nat /\ Last <= Last'
    BY <1>1, StaysCollected, HarnessKept
  <1>3. ASSUME NEW h \in 1..Last, harness[h].end = "completed", Collected(h)
        PROVE  h \in 1..Last' /\ harness'[h].end = "completed" /\ harness'[h].tip = harness[h].tip /\ Collected(h)'
    BY <1>1, <1>2, <1>3
  <1>4. ASSUME NEW v \in 1..Len(verifs), verifs[v].end = "completed", NEW w, w.of = verifs[v].of, w.tip = verifs[v].tip
        PROVE  w.of \in 1..Last' /\ harness'[w.of].end = "completed" /\ w.tip = harness'[w.of].tip /\ Collected(w.of)'
    <2>1. PICK h \in 1..Last : /\ h = verifs[v].of /\ harness[h].end = "completed"
                               /\ verifs[v].tip = harness[h].tip /\ Collected(h)
      BY <1>4 DEF VerifiedInv, Retained, Indices
    <2>2. h \in 1..Last' /\ harness'[h].end = "completed" /\ harness'[h].tip = harness[h].tip /\ Collected(h)'
      BY <1>3, <2>1
    <2> QED
      BY <1>4, <2>1, <2>2 DEF Collected, CollectionsOf
  <1> SUFFICES ASSUME NEW v \in 1..Len(verifs'), verifs'[v].end = "completed"
               PROVE  /\ verifs'[v].of \in 1..Last' /\ harness'[verifs'[v].of].end = "completed"
                      /\ verifs'[v].tip = harness'[verifs'[v].of].tip
                      /\ \E c \in 1..Len(collections') : collections'[c].of = verifs'[v].of /\ collections'[c].end = "completed"
    BY DEF Retained, Indices, Collected, CollectionsOf
  <1>5. ASSUME NEW u \in 1..Len(verifs), verifs[u].end = "completed", verifs'[v] = verifs[u]
        PROVE  /\ verifs'[v].of \in 1..Last' /\ harness'[verifs'[v].of].end = "completed"
               /\ verifs'[v].tip = harness'[verifs'[v].of].tip
               /\ \E c \in 1..Len(collections') : collections'[c].of = verifs'[v].of /\ collections'[c].end = "completed"
    BY <1>4, <1>5 DEF Collected, CollectionsOf
  <1>6. CASE verifs' = verifs
    BY <1>5, <1>6
  <1>7. CASE StartVerify
    <2>1. /\ Len(verifs') = Len(verifs) + 1 /\ \A u \in 1..Len(verifs) : verifs'[u] = verifs[u]
          /\ verifs'[Len(verifs) + 1].end = "open"
      BY <1>1, <1>7, VerificationStarted
    <2>2. v \in 1..Len(verifs)
      BY <1>1, <2>1
    <2> QED
      BY <1>5, <2>1, <2>2
  <1>8. CASE CloseVerify
    <2>1. /\ Len(verifs') = Len(verifs)
          /\ \A u \in 1..Len(verifs) : u # Len(verifs) => verifs'[u] = verifs[u]
          /\ verifs'[Len(verifs)].of = verifs[Len(verifs)].of
          /\ verifs'[Len(verifs)].tip = verifs[Len(verifs)].tip
      BY <1>1, <1>8, VerificationClosed
    <2>2. CASE v # Len(verifs)
      BY <1>5, <2>1, <2>2
    <2>3. CASE v = Len(verifs)
      <3>1. /\ pc = "closeVerify" /\ verifs[v].of = Last /\ verifs[v].tip = mem.hostTip
            /\ mem.hostTip = harness[Last].tip /\ Collected(Last) /\ LastIs("completed")
        BY <1>1, <1>8, <2>3 DEF CloseVerify, AtVerification, LastVerified, SawTip, Closed, AtLatest, Resulting
      <3>2. PICK h \in 1..Last : h = Last
        BY <1>1, <3>1 DEF LastIs
      <3>3. h \in 1..Last' /\ harness'[h].end = "completed" /\ harness'[h].tip = harness[h].tip /\ Collected(h)'
        BY <1>3, <3>1, <3>2 DEF LastIs
      <3>4. verifs'[v].of = h /\ verifs'[v].tip = harness[h].tip
        BY <2>1, <2>3, <3>1, <3>2
      <3> QED
        BY <3>3, <3>4 DEF Collected, CollectionsOf
    <2> QED
      BY <2>2, <2>3
  <1> QED
    BY <1>6, <1>7, <1>8, JournalSteps

(* The record says done from the end of a verification until a new attempt *)
(* is recorded.                                                            *)
LEMMA RecordSteps ==
  ASSUME TypeOK, [Next]_vars
  PROVE  \/ record' = record
         \/ record'.state \notin {"done"} /\ (record'.bound \/ record'.bound = record.bound)
         \/ PersistDone
  <1>1. record \in Record
    BY DEF TypeOK
  <1>2. CASE Throw
    BY <1>1, <1>2 DEF Throw, Record
  <1>3. CASE PersistStart \/ PersistRunning \/ PersistResult \/ PersistCollected
    BY <1>3 DEF PersistStart, PersistRunning, PersistResult, PersistCollected, Persist
  <1>4. CASE StartAttempt \/ Launch \/ AwaitWorker \/ RetainResult
    BY <1>4 DEF StartAttempt, Launch, AwaitWorker, RetainResult
  <1>5. CASE StartCollection \/ CheckHost \/ ApplyCollect \/ ConfirmHost \/ CloseCollection
    BY <1>5 DEF StartCollection, CheckHost, ApplyCollect, ConfirmHost, CloseCollection
  <1>6. CASE StartVerify \/ Enforce \/ CloseVerify \/ Cleanup \/ ReconcileFresh \/ ReconcileResult
    BY <1>6 DEF StartVerify, Enforce, CloseVerify, Cleanup, ReconcileFresh, ReconcileResult
  <1>7. CASE Crash \/ WorkerCommit \/ WorkerExit \/ Stray \/ UNCHANGED vars
    BY <1>7 DEF Crash, WorkerCommit, WorkerExit, Stray, vars
  <1>8. ASSUME NEW fix \in BOOLEAN, Dispatch(fix) PROVE record' = record
    BY <1>8 DEF Dispatch
  <1> QED
    BY <1>2, <1>3, <1>4, <1>5, <1>6, <1>7, <1>8 DEF Next, Driver, Invoke, Collect, Verify

LEMMA NotYetDoneKept ==
  ASSUME TypeOK, NotYetDone, [Next]_vars
  PROVE  NotYetDone'
  <1> DEFINE Before == {"launch", "persistRunning", "await", "retain", "persistResult",
                        "startVerify", "enforce", "closeVerify", "persistDone"}
  <1>1. ASSUME record' = record, pc' \in Before => pc \in Before PROVE NotYetDone'
    BY <1>1 DEF NotYetDone
  <1>2. CASE PersistStart \/ PersistRunning \/ PersistResult \/ PersistCollected \/ PersistDone
    BY <1>2 DEF PersistStart, PersistRunning, PersistResult, PersistCollected, PersistDone, Persist, NotYetDone
  <1>3. CASE StartAttempt \/ Launch \/ AwaitWorker \/ RetainResult
    BY <1>1, <1>3 DEF StartAttempt, Launch, AwaitWorker, RetainResult
  <1>4. CASE StartCollection \/ CheckHost \/ ApplyCollect \/ ConfirmHost \/ CloseCollection
    BY <1>1, <1>4 DEF StartCollection, CheckHost, ApplyCollect, ConfirmHost, CloseCollection
  <1>5. CASE StartVerify \/ Enforce \/ CloseVerify
    BY <1>1, <1>5 DEF StartVerify, Enforce, CloseVerify
  <1>6. CASE ReconcileFresh \/ ReconcileResult
    BY <1>1, <1>6 DEF ReconcileFresh, ReconcileResult
  <1>7. CASE Throw \/ Crash \/ Cleanup
    BY <1>7 DEF Throw, Crash, Cleanup, NotYetDone
  <1>8. CASE WorkerCommit \/ WorkerExit \/ Stray \/ UNCHANGED vars
    BY <1>1, <1>8 DEF WorkerCommit, WorkerExit, Stray, vars
  <1>9. ASSUME NEW fix \in BOOLEAN, Dispatch(fix) PROVE NotYetDone'
    BY <1>1, <1>9 DEF Dispatch
  <1> QED
    BY <1>2, <1>3, <1>4, <1>5, <1>6, <1>7, <1>8, <1>9 DEF Next, Driver, Invoke, Collect, Verify

LEMMA DoneKept ==
  ASSUME TypeOK, JournalInv, VerifiedInv, [Next]_vars
  PROVE  DoneIsVerified'
  <1>1. Last \in Nat /\ Newest /\ AtLatest
    BY Entries DEF JournalInv
  <1> DEFINE Done(hs, vs) ==
        /\ vs # <<>> /\ vs[Len(vs)].end = "completed"
        /\ vs[Len(vs)].of \in 1..Len(hs) /\ hs[vs[Len(vs)].of].end = "completed"
        /\ \A h \in 1..Len(hs) : hs[h].end = "completed" => h <= vs[Len(vs)].of
  <1>2. DoneIsVerified <=> (record.state = "done" => Done(harness, verifs))
    BY DEF DoneIsVerified, Indices
  <1>3. DoneIsVerified' <=> (record'.state = "done" => Done(harness', verifs'))
    BY DEF DoneIsVerified, Indices
  <1>4. CASE PersistDone
    <2>1. UNCHANGED <<harness, verifs>> /\ LastVerified("completed") /\ LastIs("completed")
      BY <1>1, <1>4 DEF PersistDone, Persist, journal, VerifiedInv, AtVerification, AtLatest, Resulting, Closed
    <2>2. Done(harness, verifs)
      BY <1>1, <2>1 DEF LastVerified, LastIs, Last
    <2> QED
      BY <1>3, <2>1, <2>2
  <1>5. CASE record' = record /\ record.state = "done"
    <2>1. pc \notin {"await", "retain", "startVerify", "closeVerify"} /\ Done(harness, verifs)
      BY <1>2, <1>5 DEF VerifiedInv, NotYetDone
    <2>2. verifs' = verifs /\ (harness' = harness \/ StartAttempt)
      BY <2>1, JournalSteps DEF AwaitWorker, RetainResult, StartVerify, CloseVerify
    <2>3. CASE harness' = harness
      BY <1>3, <2>1, <2>2, <2>3
    <2>4. CASE StartAttempt
      <3>1. /\ Len(harness') = Last + 1 /\ \A h \in 1..Last : harness'[h] = harness[h]
            /\ harness'[Last + 1].end = "open"
        BY <2>4, AttemptStarted DEF OpenAttempt, Last
      <3>2. verifs[Len(verifs)].of \in 1..Len(harness') /\ harness'[verifs[Len(verifs)].of].end = "completed"
        BY <1>1, <2>1, <3>1 DEF Last
      <3>3. \A h \in 1..Len(harness') : harness'[h].end = "completed" => h \in 1..Last
        BY <1>1, <3>1
      <3>4. Done(harness', verifs)
        BY <1>1, <2>1, <3>1, <3>2, <3>3 DEF Last
      <3> QED
        BY <1>3, <2>2, <3>4
    <2> QED
      BY <2>2, <2>3, <2>4
  <1>6. CASE record'.state # "done"
    BY <1>3, <1>6
  <1> QED
    BY <1>4, <1>5, <1>6, RecordSteps

(* Once a result is retained the record is this execution's.               *)
LEMMA BoundKept ==
  ASSUME TypeOK, JournalInv, Bound, [Next]_vars
  PROVE  Bound'
  <1>1. Newest /\ AtLatest /\ Last \in Nat
    BY Entries DEF JournalInv
  <1>2. record.bound => record'.bound
    <2>1. PersistDone => record'.bound
      BY DEF PersistDone, Persist
    <2> QED
      BY <2>1, RecordSteps
  <1>3. LastIs("completed")' => LastIs("completed") \/ pc = "retain"
    <2>1. CASE harness' = harness
      BY <2>1 DEF LastIs, Last
    <2>2. CASE StartAttempt
      BY <1>1, <2>2, AttemptStarted DEF LastIs, OpenAttempt
    <2>3. CASE (AwaitWorker \/ RetainResult) /\ harness' # harness
      <3>1. pc = "retain" \/ EndAttempt("failed", NoTip)
        BY <2>3 DEF AwaitWorker, RetainResult
      <3>2. CASE EndAttempt("failed", NoTip)
        <4>1. harness'[Last].end = "failed" /\ Last' = Last
          BY <1>1, <2>3, <3>2, AttemptEnds, AttemptEnded DEF End, Tip
        <4> QED
          BY <4>1 DEF LastIs
      <3> QED
        BY <3>1, <3>2
    <2> QED
      BY <2>1, <2>2, <2>3, JournalSteps
  <1>4. pc' \in {"launch", "persistRunning", "await", "retain"} =>
            pc \in {"launch", "persistRunning", "await", "retain"} \/ record'.bound
    <2>1. CASE StartAttempt \/ Launch \/ AwaitWorker \/ RetainResult
      BY <2>1 DEF StartAttempt, Launch, AwaitWorker, RetainResult
    <2>2. CASE PersistStart \/ PersistRunning \/ PersistResult
      BY <2>2 DEF PersistStart, PersistRunning, PersistResult, Persist
    <2>3. CASE Collect
      BY <2>3 DEF Collect, StartCollection, CheckHost, ApplyCollect, ConfirmHost, CloseCollection, PersistCollected, Persist
    <2>4. CASE Verify
      BY <2>4 DEF Verify, StartVerify, Enforce, CloseVerify, PersistDone, Cleanup, Persist
    <2>5. CASE ReconcileFresh \/ ReconcileResult \/ Throw \/ Crash
      BY <2>5 DEF ReconcileFresh, ReconcileResult, Throw, Crash
    <2>6. CASE WorkerCommit \/ WorkerExit \/ Stray \/ UNCHANGED vars
      BY <2>6 DEF WorkerCommit, WorkerExit, Stray, vars
    <2>7. ASSUME NEW fix \in BOOLEAN, Dispatch(fix) PROVE pc' = "reconcile"
      BY <2>7 DEF Dispatch
    <2> QED
      BY <2>1, <2>2, <2>3, <2>4, <2>5, <2>6, <2>7 DEF Next, Driver, Invoke
  <1> QED
    BY <1>2, <1>3, <1>4 DEF Bound, Attempting

-----------------------------------------------------------------------------
(* As long as nothing else moves a ref.                                    *)

LEMMA HostSteps ==
  ASSUME TypeOK, [Next]_vars, strays' = 0
  PROVE  /\ strays = 0
         /\ host' # host => ApplyCollect
         /\ sandbox' # sandbox => ReconcileFresh \/ Cleanup \/ WorkerCommit
  <1> USE DEF world
  <1>1. ~Stray /\ strays \in Nat
    BY BoundsAssumption DEF Stray, TypeOK
  <1>2. CASE Invoke
    BY <1>2 DEF Invoke, StartAttempt, PersistStart, Launch, PersistRunning, AwaitWorker, RetainResult, PersistResult, Persist
  <1>3. CASE Collect
    BY <1>3 DEF Collect, StartCollection, CheckHost, ApplyCollect, ConfirmHost, CloseCollection, PersistCollected, Persist
  <1>4. CASE Verify
    BY <1>4 DEF Verify, StartVerify, Enforce, CloseVerify, PersistDone, Cleanup, Persist
  <1>5. CASE ReconcileFresh \/ ReconcileResult \/ Throw \/ Crash \/ WorkerCommit \/ WorkerExit \/ UNCHANGED vars
    BY <1>5 DEF ReconcileFresh, ReconcileResult, Throw, Crash, WorkerCommit, WorkerExit, vars
  <1>6. ASSUME NEW fix \in BOOLEAN, Dispatch(fix) PROVE UNCHANGED world
    BY <1>6 DEF Dispatch
  <1> QED
    BY <1>1, <1>2, <1>3, <1>4, <1>5, <1>6 DEF Next, Driver

LEMMA SeesHostKept ==
  ASSUME TypeOK, SeesHost, [Next]_vars, strays' = 0
  PROVE  SeesHost'
  <1>1. mem \in Memory /\ ~Stray
    BY BoundsAssumption DEF Stray, TypeOK
  <1> USE DEF SeesHost, world
  <1>2. ASSUME NEW fix \in BOOLEAN, Dispatch(fix) PROVE SeesHost'
    <2>1. host' = host /\ mem' = [[[[[Forgotten EXCEPT !.fix = fix] EXCEPT !.prompt = IF fix THEN "fixBrief" ELSE "brief"]
                          EXCEPT !.verified = Len(verifs)] EXCEPT !.latest = Len(harness)] EXCEPT !.hostTip = host]
      BY <1>2 DEF Dispatch
    <2>2. mem'.hostTip = host
      BY <2>1 DEF Forgotten
    <2> QED
      BY <2>1, <2>2
  <1>3. CASE ApplyCollect \/ Throw \/ Crash \/ Cleanup
    BY <1>3 DEF ApplyCollect, Throw, Crash, Cleanup
  <1>4. CASE StartAttempt \/ StartCollection \/ Enforce \/ CloseVerify
    <2>1. mem'.hostTip = mem.hostTip
      BY <1>1, <1>4 DEF StartAttempt, StartCollection, Enforce, CloseVerify, Memory
    <2> QED
      BY <1>4, <2>1 DEF StartAttempt, StartCollection, Enforce, CloseVerify
  <1>5. CASE CheckHost \/ ConfirmHost
    BY <1>1, <1>5 DEF CheckHost, ConfirmHost, Memory
  <1>6. CASE ReconcileFresh \/ ReconcileResult \/ Launch \/ AwaitWorker \/ RetainResult \/ CloseCollection \/ StartVerify
    BY <1>6 DEF ReconcileFresh, ReconcileResult, Launch, AwaitWorker, RetainResult, CloseCollection, StartVerify
  <1>7. CASE PersistStart \/ PersistRunning \/ PersistResult \/ PersistCollected \/ PersistDone
    BY <1>7 DEF PersistStart, PersistRunning, PersistResult, PersistCollected, PersistDone, Persist
  <1>8. CASE WorkerCommit \/ WorkerExit \/ UNCHANGED vars
    BY <1>8 DEF WorkerCommit, WorkerExit, vars
  <1> QED
    BY <1>1, <1>2, <1>3, <1>4, <1>5, <1>6, <1>7, <1>8 DEF Next, Driver, Invoke, Collect, Verify

LEMMA AppliesKept ==
  ASSUME TypeOK, JournalInv, Applies, [Next]_vars, strays' = 0
  PROVE  Applies'
  <1>1. /\ Newest /\ AtLatest
        /\ host' # host => ApplyCollect
        /\ sandbox' # sandbox => ReconcileFresh \/ Cleanup \/ WorkerCommit
    BY HostSteps DEF JournalInv
  <1>2. CASE StartCollection \/ ConfirmHost \/ CloseCollection \/ PersistCollected
    BY <1>2 DEF StartCollection, ConfirmHost, CloseCollection, PersistCollected, Persist, Applies
  <1>3. CASE CheckHost \/ ApplyCollect
    BY <1>1, <1>3 DEF CheckHost, ApplyCollect, Applies, Newest, SourceTip, Latest, journal, world, Last
  <1>4. CASE StartVerify \/ Enforce \/ CloseVerify \/ PersistDone
    BY <1>4 DEF StartVerify, Enforce, CloseVerify, PersistDone, Persist, Applies
  <1>5. CASE pc' = pc /\ UNCHANGED <<journal, record, mem>> /\ pc \in {"apply", "confirm"}
    <2>1. host' = host
      BY <1>1, <1>5 DEF ApplyCollect
    <2>2. sandbox' = sandbox
      <3>1. ~ReconcileFresh /\ ~Cleanup
        BY <1>5 DEF ReconcileFresh, Cleanup
      <3>2. worker # "running"
        <4>1. LastIs("completed")
          BY <1>1, <1>5 DEF AtLatest, Resulting, Collecting
        <4> QED
          BY <4>1 DEF JournalInv, OneWorker, LastIs
      <3> QED
        BY <1>1, <3>1, <3>2 DEF WorkerCommit
    <2> QED
      BY <1>5, <2>1, <2>2 DEF Applies, journal, Last
  <1>6. CASE pc' \notin {"apply", "confirm"}
    BY <1>6 DEF Applies
  <1> QED
    BY <1>2, <1>3, <1>4, <1>5, <1>6, Following DEF Collect, Collecting

LEMMA OpenStaysKept ==
  ASSUME TypeOK, JournalInv, Undisturbed, [Next]_vars, strays' = 0
  PROVE  OpenStays'
  <1>1. /\ Newest /\ AtLatest /\ Last \in Nat /\ SeesHost /\ OpenStays /\ mem \in Memory
        /\ host' # host => ApplyCollect
    BY Entries, HostSteps DEF JournalInv, Undisturbed, TypeOK
  <1>2. CASE StartAttempt
    <2>1. /\ Last' = Last + 1 /\ harness'[Last + 1].host = mem.hostTip
      BY <1>2, AttemptStarted DEF OpenAttempt
    <2>2. mem.hostTip = host /\ host' = host
      BY <1>1, <1>2 DEF StartAttempt, SeesHost, world
    <2> QED
      BY <1>1, <2>1, <2>2 DEF OpenStays
  <1>3. CASE (AwaitWorker \/ RetainResult) /\ harness' # harness
    <2>1. PICK e \in {"completed", "failed"}, t \in Tip : LastIs("open") /\ pc # "idle" /\ EndAttempt(e, t)
      BY <1>1, <1>3, AttemptEnds
    <2>2. Last' = Last /\ harness'[Last].end # "open"
      BY <1>1, <2>1, AttemptEnded DEF End
    <2> QED
      BY <2>2 DEF OpenStays, LastIs
  <1>4. CASE harness' = harness
    <2>1. CASE ApplyCollect
      <3>1. LastIs("completed")
        BY <1>1, <2>1 DEF ApplyCollect, AtLatest, Resulting, Collecting
      <3> QED
        BY <1>4, <3>1 DEF OpenStays, LastIs, Last
    <2>2. CASE host' = host
      BY <1>1, <1>4, <2>2 DEF OpenStays, LastIs, Last
    <2> QED
      BY <1>1, <2>1, <2>2
  <1> QED
    BY <1>2, <1>3, <1>4, JournalSteps

LEMMA ResultStaysKept ==
  ASSUME TypeOK, JournalInv, VerifiedInv, Undisturbed, [Next]_vars, strays' = 0
  PROVE  ResultStays'
  <1>1. /\ Newest /\ AtLatest /\ Last \in Nat /\ ResultsCollected
        /\ SeesHost /\ OpenStays /\ ResultStays /\ Applies /\ SawTip
        /\ host' # host => ApplyCollect
        /\ sandbox' # sandbox => ReconcileFresh \/ Cleanup \/ WorkerCommit
    BY Entries, HostSteps DEF JournalInv, VerifiedInv, Undisturbed
  <1>2. CASE StartAttempt
    BY <1>1, <1>2, AttemptStarted DEF OpenAttempt, ResultStays, LastIs
  <1>3. CASE (AwaitWorker \/ RetainResult) /\ harness' # harness
    <2>1. PICK e \in {"completed", "failed"}, t \in Tip :
             /\ LastIs("open") /\ pc # "idle" /\ EndAttempt(e, t)
             /\ e = "completed" => t = sandbox /\ RetainResult
      BY <1>1, <1>3, AttemptEnds
    <2>2. /\ Last' = Last /\ harness'[Last].end = e /\ harness'[Last].tip = t
          /\ harness'[Last].host = harness[Last].host
      BY <1>1, <2>1, AttemptEnded DEF End
    <2>3. CASE e = "completed"
      <3>1. UNCHANGED <<host, sandbox, collections>>
        BY <2>1, <2>3 DEF RetainResult, world
      <3>2. \A c \in 1..Len(collections') : collections'[c].of # Last'
        BY <1>1, <2>1, <2>2, <3>1 DEF ResultsCollected, LastIs
      <3>3. host' = harness'[Last'].host /\ sandbox' = harness'[Last'].tip
        BY <1>1, <2>1, <2>2, <2>3, <3>1 DEF OpenStays
      <3> QED
        BY <3>2, <3>3 DEF ResultStays, Collected, CollectionsOf
    <2>4. CASE e = "failed"
      BY <2>2, <2>4 DEF ResultStays, LastIs
    <2> QED
      BY <2>3, <2>4
  <1>4. ASSUME UNCHANGED harness, ~LastIs("completed") PROVE ResultStays'
    BY <1>4 DEF ResultStays, LastIs, Last
  <1>5. CASE harness' = harness /\ LastIs("completed") /\ ApplyCollect
    <2>1. host' = harness'[Last'].tip
      BY <1>1, <1>5 DEF ApplyCollect, Applies, Last
    <2>2. collections' = collections /\ mem.collection \in 1..Len(collections) /\ collections[mem.collection].of = Last
      BY <1>1, <1>5 DEF ApplyCollect, journal, ResultsCollected, Collecting
    <2>3. mem.collection \in CollectionsOf(Last)'
      BY <1>5, <2>2 DEF CollectionsOf, Last
    <2> QED
      BY <2>1, <2>3 DEF ResultStays
  <1>6. CASE harness' = harness /\ LastIs("completed") /\ host' = host
    <2>1. Last' = Last /\ harness'[Last'] = harness[Last]
      BY <1>6 DEF Last
    <2>2. Len(collections) \in Nat /\ Len(collections') \in Nat /\ Len(collections) <= Len(collections')
          /\ \A c \in 1..Len(collections) : collections'[c].of = collections[c].of
      BY <1>1, Entries, CollectionsKept
    <2>3. CollectionsOf(Last) # {} => CollectionsOf(Last)' # {}
      BY <2>1, <2>2 DEF CollectionsOf
    <2>4. host' = harness'[Last'].host \/ (CollectionsOf(Last)' # {} /\ host' = harness'[Last'].tip)
      BY <1>1, <1>6, <2>1, <2>3 DEF ResultStays
    <2>5. Collected(Last)' => host' = harness'[Last'].tip
      <3>1. CASE collections' = collections
        <4>1. Collected(Last)' => Collected(Last)
          BY <2>1, <3>1 DEF Collected, CollectionsOf
        <4> QED
          BY <1>1, <1>6, <2>1, <4>1 DEF ResultStays
      <3>2. CASE StartCollection
        <4>1. Collected(Last)' => Collected(Last)
          BY <1>1, <2>1, <2>2, <3>2, CollectionStarted DEF Collected, CollectionsOf
        <4> QED
          BY <1>1, <1>6, <2>1, <4>1 DEF ResultStays
      <3>3. CASE CloseCollection
        <4>1. pc = "closeCollection"
          BY <3>3 DEF CloseCollection
        <4>2. mem.hostTip = harness[Last].tip /\ mem.hostTip = host
          BY <1>1, <4>1 DEF SawTip, SeesHost
        <4> QED
          BY <1>6, <2>1, <4>2
      <3> QED
        BY <3>1, <3>2, <3>3, JournalSteps
    <2>6. sandbox' = harness'[Last'].tip \/ host' = harness'[Last'].tip
      <3>1. CASE sandbox' = sandbox
        BY <1>1, <1>6, <2>1, <3>1 DEF ResultStays
      <3>2. ~ReconcileFresh
        BY <1>1, <1>6 DEF ReconcileFresh, Newest, LastIs
      <3>3. ~WorkerCommit
        BY <1>6 DEF WorkerCommit, JournalInv, OneWorker, LastIs
      <3>4. CASE Cleanup
        <4>1. Collected(Last)
          BY <1>1, <3>4 DEF Cleanup, SawTip, Closed
        <4> QED
          BY <1>1, <1>6, <2>1, <4>1 DEF ResultStays
      <3> QED
        BY <1>1, <3>1, <3>2, <3>3, <3>4
    <2> QED
      BY <2>4, <2>5, <2>6 DEF ResultStays
  <1> QED
    BY <1>1, <1>2, <1>3, <1>4, <1>5, <1>6, JournalSteps

-----------------------------------------------------------------------------
(* The invariant, and what follows from it.                                *)

LEMMA InitIInv == Init => IInv
  <1> SUFFICES ASSUME Init PROVE IInv
    OBVIOUS
  <1>1. Len(harness) = 0 /\ Len(collections) = 0 /\ Len(verifs) = 0 /\ MaxAttempts \in Nat
    BY AttemptsAssumption DEF Init
  <1>2. TypeOK
    <2>1. harness \in Seq(HarnessAttempt) /\ collections \in Seq(Collection) /\ verifs \in Seq(Verification)
      BY EmptySeq DEF Init
    <2>2. record \in Record /\ mem \in Memory
      BY ForgottenTyped DEF Init, Record, States
    <2> QED
      BY <1>1, <2>1, <2>2, BoundsAssumption DEF Init, TypeOK, Tip, Labels
  <1>3. JournalInv
    BY <1>1 DEF Init, JournalInv, Newest, EarlierCompleted, AtLatest, OneWorker, Justified, Last,
       Attempting, Resulting, Collecting, Closed
  <1>4. VerifiedInv
    <2>1. Cardinality(Completed) \in Nat
      BY <1>2, CompletedBounded
    <2>2. pc = "idle" /\ record.state = "absent"
      BY DEF Init
    <2>3. ResultsCollected /\ OneVerificationEach /\ SawTip
      BY <1>1, <2>1, <2>2 DEF ResultsCollected, OneVerificationEach, SawTip, Collecting, Closed
    <2>4. AtVerification /\ Retained /\ NotYetDone /\ DoneIsVerified
      BY <1>1, <2>2 DEF AtVerification, Retained, NotYetDone, DoneIsVerified, Indices
    <2> QED
      BY <2>3, <2>4 DEF VerifiedInv
  <1>5. Bound /\ Undisturbed
    BY <1>1 DEF Init, Bound, Undisturbed, SeesHost, Applies, OpenStays, ResultStays, LastIs, Last, Attempting
  <1> QED
    BY <1>2, <1>3, <1>4, <1>5 DEF IInv

LEMMA InvKept ==
  ASSUME IInv, [Next]_vars
  PROVE  IInv'
  <1>1. /\ TypeOK /\ JournalInv /\ VerifiedInv /\ Bound /\ Undisturbed
        /\ Newest /\ EarlierCompleted /\ AtLatest
        /\ ResultsCollected /\ OneVerificationEach /\ SawTip /\ AtVerification /\ NotYetDone
    BY DEF IInv, JournalInv, VerifiedInv
  <1>2. TypeOK'
    BY <1>1, TypeKept
  <1>3. JournalInv'
    <2>1. Newest' /\ AtLatest' /\ EarlierCompleted'
      BY <1>1, LatestKept, AtLatestKept
    <2>2. OneWorker' /\ Justified'
      BY <1>1, WorkerKept, JustifiedKept
    <2> QED
      BY <2>1, <2>2 DEF JournalInv
  <1>4. VerifiedInv'
    <2>1. ResultsCollected' /\ OneVerificationEach' /\ SawTip'
      BY <1>1, ResultsCollectedKept, OneVerificationEachKept, SawTipKept
    <2>2. AtVerification' /\ Retained'
      BY <1>1, AtVerificationKept, RetainedKept
    <2>3. NotYetDone' /\ DoneIsVerified'
      BY <1>1, NotYetDoneKept, DoneKept
    <2> QED
      BY <2>1, <2>2, <2>3 DEF VerifiedInv
  <1>5. Bound'
    BY <1>1, BoundKept
  <1>6. Undisturbed'
    <2> SUFFICES ASSUME strays' = 0 PROVE SeesHost' /\ Applies' /\ OpenStays' /\ ResultStays'
      BY DEF Undisturbed
    <2>1. SeesHost /\ Applies
      BY <1>1, HostSteps DEF Undisturbed
    <2>2. SeesHost' /\ Applies'
      BY <1>1, <2>1, SeesHostKept, AppliesKept
    <2>3. OpenStays' /\ ResultStays'
      BY <1>1, OpenStaysKept, ResultStaysKept
    <2> QED
      BY <2>2, <2>3
  <1> QED
    BY <1>2, <1>3, <1>4, <1>5, <1>6 DEF IInv

(* The inductive invariant of the strict task, TypeOK among its conjuncts. *)
THEOREM DriverTaskInvariant == Spec => []IInv
  <1>1. Init => IInv
    BY InitIInv
  <1>2. IInv /\ [Next]_vars => IInv'
    BY InvKept
  <1> QED
    BY <1>1, <1>2, PTL DEF Spec

(* Whatever the crashes and stray ref moves, a verification journaled as   *)
(* completed is of a retained result, of the tip it was retained with,     *)
(* after that result was collected.                                        *)
THEOREM VerifiedIsRetainedHolds == Spec => []VerifiedIsRetained
  <1>1. IInv => VerifiedIsRetained
    BY DEF IInv, VerifiedInv, Retained, VerifiedIsRetained, Indices
  <1> QED
    BY <1>1, DriverTaskInvariant, PTL

(* A record in state done rests on a completed verification of the newest  *)
(* completed attempt.                                                      *)
THEOREM DoneIsVerifiedHolds == Spec => []DoneIsVerified
  <1>1. IInv => DoneIsVerified
    BY DEF IInv, VerifiedInv
  <1> QED
    BY <1>1, DriverTaskInvariant, PTL

(* While no ref is moved from outside, a later dispatch over a retained    *)
(* result passes the reconciliation, whatever point the last one died at.  *)
THEOREM ResumeAcceptedHolds == Spec => []ResumeAccepted
  <1>1. ASSUME IInv PROVE ResumeAccepted
    <2> SUFFICES ASSUME pc = "reconcile", mem.latest > 0, strays = 0, Latest.end = "completed"
                 PROVE  RecordUsable /\ record.bound /\ ResultReachable
      BY DEF ResumeAccepted
    <2>1. mem.latest = Last /\ mem.hostTip = host /\ SourceTip = harness[Last].tip /\ Latest = harness[Last]
      BY <1>1 DEF IInv, JournalInv, Newest, Undisturbed, SeesHost, SourceTip, Latest
    <2>2. LastIs("completed") /\ ResultStays /\ Bound
      BY <1>1, <2>1 DEF IInv, Undisturbed, LastIs
    <2>3. record.bound
      BY <2>2 DEF Bound
    <2>4. ResultReachable
      BY <2>1, <2>2 DEF ResultStays, ResultReachable
    <2> QED
      BY <2>3, <2>4 DEF RecordUsable
  <1> QED
    BY <1>1, DriverTaskInvariant, PTL

LEMMA LaunchSteps ==
  ASSUME TypeOK, [Next]_vars, launches' # launches
  PROVE  Launch
  <1> USE DEF world
  <1>1. CASE Invoke
    BY <1>1 DEF Invoke, StartAttempt, PersistStart, PersistRunning, AwaitWorker, RetainResult, PersistResult, Persist
  <1>2. CASE Collect
    BY <1>2 DEF Collect, StartCollection, CheckHost, ApplyCollect, ConfirmHost, CloseCollection, PersistCollected, Persist
  <1>3. CASE Verify
    BY <1>3 DEF Verify, StartVerify, Enforce, CloseVerify, PersistDone, Cleanup, Persist
  <1>4. CASE ReconcileFresh \/ ReconcileResult \/ Throw \/ Crash \/ WorkerCommit \/ WorkerExit \/ Stray \/ UNCHANGED vars
    BY <1>4 DEF ReconcileFresh, ReconcileResult, Throw, Crash, WorkerCommit, WorkerExit, Stray, vars
  <1>5. ASSUME NEW fix \in BOOLEAN, Dispatch(fix) PROVE UNCHANGED launches
    BY <1>5 DEF Dispatch
  <1> QED
    BY <1>1, <1>2, <1>3, <1>4, <1>5 DEF Next, Driver

(* The model is launched for a journaled attempt with no outcome yet, over *)
(* attempts that all completed, and again only for a fix round or after    *)
(* its own rejection; no model is running then.                            *)
THEOREM KnownBeforeLaunchHolds == Spec => KnownBeforeLaunch
  <1> DEFINE Launched ==
        launches' # launches =>
          /\ worker # "running"
          /\ launches' <= Len(harness)
          /\ harness[Len(harness)].end = "open"
          /\ \A h \in 1..(Len(harness) - 1) : harness[h].end = "completed"
          /\ Len(harness) > 1 => mem.refused \/ (mem.fix /\ Collected(Len(harness) - 1))
  <1>1. ASSUME IInv, [Next]_vars PROVE Launched
    <2> SUFFICES ASSUME launches' # launches PROVE Launched
      OBVIOUS
    <2>1. Launch
      BY <1>1, LaunchSteps DEF IInv
    <2>2. /\ Last \in Nat /\ launches \in Nat /\ pc = "launch" /\ launches' = launches + 1
          /\ LastIs("open") /\ launches < Last /\ worker # "running"
      BY <1>1, <2>1, Entries DEF Launch, IInv, TypeOK, JournalInv, AtLatest, Attempting, OneWorker
    <2>3. EarlierCompleted /\ Justified
      BY <1>1 DEF IInv, JournalInv
    <2> QED
      BY <2>2, <2>3 DEF EarlierCompleted, Justified, LastIs, Last
  <1> HIDE DEF Launched
  <1>2. [][Launched]_vars <=> KnownBeforeLaunch
    BY DEF Launched, KnownBeforeLaunch
  <1> QED
    BY <1>1, <1>2, DriverTaskInvariant, PTL DEF Spec
=============================================================================
