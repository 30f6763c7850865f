----------------------------- MODULE DriverLock -----------------------------
(***************************************************************************)
(* The per-run driver lock of scripts/driver.mjs: acquireLock, readPid and *)
(* releaseLock.  Several `dispatch` processes of one run race for one lock *)
(* file whose content is the pid of its holder.  A lock is installed by a  *)
(* non-clobbering link(2).  A lock whose pid is gone is stale: it may be   *)
(* removed only by the process that holds the takeover token, a second     *)
(* file that is also claimed by a non-clobbering link, and only after the  *)
(* holder was read again under the token.                                  *)
(*                                                                         *)
(* Every `await` of the code is a step boundary: the file is read in one   *)
(* step and the pid it named is probed (process.kill(pid, 0)) in the next. *)
(* A process is identified by its pid, and a pid may come back: `Start`    *)
(* after `Die` is a new process the kernel gave an old pid.                *)
(***************************************************************************)
EXTENDS Naturals

CONSTANTS
    Pids,         \* the pids of the processes that may dispatch this run
    NoPid,        \* an absent file, the code's NaN
    MaxRounds   \* rounds of acquireLock's loop, 50 in the code

ASSUME NoPidAssumption == NoPid \notin Pids
ASSUME RoundsAssumption == MaxRounds \in Nat \ {0}

VARIABLES
    lock,     \* the pid in <run>/driver.lock, or NoPid
    token,    \* the pid in <run>/driver.lock.takeover, or NoPid
    at,       \* where each process is; "gone" is a pid no process has
    seen,     \* the pid a process read last and has still to probe
    attempt   \* the loop counter of acquireLock

lockVars == <<lock, token, at, seen, attempt>>

(* The steps of a takeover, all of them taken while the token is held.     *)
Takeover == {"readUnder", "probeUnder", "remove", "dropRefuse", "dropRetry"}

(* The process believes it holds the lock.                                 *)
Holding == {"drive", "releaseRead", "releaseRemove"}

LockLabels == {"gone", "link", "readHolder", "probeHolder", "claim", "ended"}
          \cup Takeover \cup Holding

LockTypeOK ==
    /\ lock \in Pids \cup {NoPid}
    /\ token \in Pids \cup {NoPid}
    /\ at \in [Pids -> LockLabels]
    /\ seen \in [Pids -> Pids \cup {NoPid}]
    /\ attempt \in [Pids -> 0..MaxRounds]

(* pidAlive: process.kill(pid, 0) does not throw ESRCH.                    *)
Alive(p) == p # NoPid /\ at[p] # "gone"

LockInit ==
    /\ lock = NoPid
    /\ token = NoPid
    /\ at = [p \in Pids |-> "gone"]
    /\ seen = [p \in Pids |-> NoPid]
    /\ attempt = [p \in Pids |-> 0]

Goto(p, label) == at' = [at EXCEPT ![p] = label]

-----------------------------------------------------------------------------
(* A `dispatch` process starts and enters acquireLock.                     *)
Start(p) ==
    /\ at[p] = "gone"
    /\ Goto(p, "link")
    /\ attempt' = [attempt EXCEPT ![p] = 0]
    /\ UNCHANGED <<lock, token, seen>>

(* await link(tmp, lockPath): installs into an empty slot, else EEXIST.    *)
LinkLock(p) ==
    /\ at[p] = "link"
    /\ \/ /\ lock = NoPid
          /\ lock' = p
          /\ Goto(p, "drive")
       \/ /\ lock # NoPid
          /\ lock' = lock
          /\ Goto(p, "readHolder")
    /\ UNCHANGED <<token, seen, attempt>>

(* The file is read here and its pid is probed in a later step.            *)
ReadHolder(p) ==
    /\ at[p] = "readHolder"
    /\ seen' = [seen EXCEPT ![p] = lock]
    /\ Goto(p, "probeHolder")
    /\ UNCHANGED <<lock, token, attempt>>

(* A live holder refuses; a dead one, or no lock any more, tries to take   *)
(* the token.                                                              *)
ProbeHolder(p) ==
    /\ at[p] = "probeHolder"
    /\ Goto(p, IF Alive(seen[p]) THEN "ended" ELSE "claim")
    /\ seen' = [seen EXCEPT ![p] = NoPid]
    /\ UNCHANGED <<lock, token, attempt>>

(* The next round of the loop, or DriverLockError(-1) after the last one.  *)
NextRound(p) ==
    /\ attempt' = [attempt EXCEPT ![p] = @ + 1]
    /\ Goto(p, IF attempt[p] + 1 < MaxRounds THEN "link" ELSE "ended")

(* Seeded fault: the token is installed by a rename, which clobbers.       *)
ClaimTokenClobbering(p) ==
    /\ at[p] = "claim"
    /\ token' = p
    /\ Goto(p, "readUnder")
    /\ UNCHANGED <<lock, seen, attempt>>

(* await link(tmp, token): EEXIST means a takeover is in flight.           *)
ClaimToken(p) ==
    /\ at[p] = "claim"
    /\ \/ /\ token = NoPid
          /\ token' = p
          /\ Goto(p, "readUnder")
          /\ UNCHANGED attempt
       \/ /\ token # NoPid
          /\ NextRound(p)
          /\ UNCHANGED token
    /\ UNCHANGED <<lock, seen>>

(* const under = await readPid(lockPath)                                   *)
ReadUnder(p) ==
    /\ at[p] = "readUnder"
    /\ seen' = [seen EXCEPT ![p] = lock]
    /\ Goto(p, "probeUnder")
    /\ UNCHANGED <<lock, token, attempt>>

(* Seeded fault: an empty slot is taken for a dead holder and removed.     *)
ProbeUnderEmptyIsDead(p) ==
    /\ at[p] = "probeUnder"
    /\ Goto(p, IF Alive(seen[p]) THEN "dropRefuse" ELSE "remove")
    /\ seen' = [seen EXCEPT ![p] = IF Alive(seen[p]) THEN NoPid ELSE seen[p]]
    /\ UNCHANGED <<lock, token, attempt>>

(* isAlive(under) and the branch it selects.                               *)
ProbeUnder(p) ==
    /\ at[p] = "probeUnder"
    /\ \/ /\ Alive(seen[p])
          /\ Goto(p, "dropRefuse")
          /\ seen' = [seen EXCEPT ![p] = NoPid]
       \/ /\ seen[p] # NoPid /\ ~Alive(seen[p])
          /\ Goto(p, "remove")
          /\ UNCHANGED seen
       \/ /\ seen[p] = NoPid
          /\ Goto(p, "dropRetry")
          /\ UNCHANGED seen
    /\ UNCHANGED <<lock, token, attempt>>

(* await rm(lockPath, {force: true}): removes whatever is there by now.    *)
RemoveStale(p) ==
    /\ at[p] = "remove"
    /\ lock' = NoPid
    /\ seen' = [seen EXCEPT ![p] = NoPid]
    /\ Goto(p, "dropRetry")
    /\ UNCHANGED <<token, attempt>>

(* finally { await unlink(token) }                                         *)
DropToken(p) ==
    /\ \/ /\ at[p] = "dropRefuse"
          /\ Goto(p, "ended")
          /\ UNCHANGED attempt
       \/ /\ at[p] = "dropRetry"
          /\ NextRound(p)
    /\ token' = NoPid
    /\ UNCHANGED <<lock, seen>>

-----------------------------------------------------------------------------
(* dispatchPhase is over and its finally block calls releaseLock.          *)
FinishPhase(p) ==
    /\ at[p] = "drive"
    /\ Goto(p, "releaseRead")
    /\ UNCHANGED <<lock, token, seen, attempt>>

(* releaseLock reads the file first ...                                    *)
ReleaseRead(p) ==
    /\ at[p] = "releaseRead"
    /\ Goto(p, IF lock = p THEN "releaseRemove" ELSE "ended")
    /\ UNCHANGED <<lock, token, seen, attempt>>

(* ... and removes it only if it named this process.                       *)
ReleaseRemove(p) ==
    /\ at[p] = "releaseRemove"
    /\ lock' = NoPid
    /\ Goto(p, "ended")
    /\ UNCHANGED <<token, seen, attempt>>

(* The process exits after its dispatch, or is killed at any point: the    *)
(* files it left stay where they are.                                      *)
Die(p) ==
    /\ at[p] # "gone"
    /\ Goto(p, "gone")
    /\ seen' = [seen EXCEPT ![p] = NoPid]
    /\ UNCHANGED <<lock, token, attempt>>

Acquire(p) ==
    \/ LinkLock(p) \/ ReadHolder(p) \/ ProbeHolder(p) \/ ClaimToken(p)
    \/ ReadUnder(p) \/ ProbeUnder(p) \/ RemoveStale(p) \/ DropToken(p)

Release(p) == FinishPhase(p) \/ ReleaseRead(p) \/ ReleaseRemove(p)

LockNext == \E p \in Pids : Start(p) \/ Acquire(p) \/ Release(p) \/ Die(p)

LockSpec == LockInit /\ [][LockNext]_lockVars

(* The code reads the holder under the token and probes it a moment later. *)
(* A prompt step is one in which no process that has already released the  *)
(* lock exits inside another's window between those two.                   *)
InTime ==
    \A p, q \in Pids :
        (at[q] = "probeUnder" /\ seen[q] = p /\ Alive(p) /\ ~Alive(p)')
            => lock = p

PromptNext == LockNext /\ InTime

PromptSpec == LockInit /\ [][PromptNext]_lockVars

-----------------------------------------------------------------------------
(* The reason for the lock: two drivers never run one run at a time        *)
(* (comment above acquireLock, "Two properties make concurrent dispatches  *)
(* on one run safe").                                                      *)
MutualExclusion ==
    \A p, q \in Pids : at[p] \in Holding /\ at[q] \in Holding => p = q

(* A process that drives is the one the file names, so a later dispatch    *)
(* that reads the file is refused for as long as it drives.                *)
HolderIsNamed == \A p \in Pids : at[p] \in Holding => lock = p

(* When a takeover is about to rm the lock file, the file still holds the  *)
(* pid the takeover judged dead, and nobody drives under that pid: the rm  *)
(* never hits a lock installed in between.                                 *)
RemovesOnlyStale ==
    \A p \in Pids : at[p] = "remove" => /\ lock = seen[p]
                                        /\ \A q \in Pids : at[q] \notin Holding

(* A token whose owner died, or whose pid came back as another process, is *)
(* never removed or overwritten ("a stranded token is NOT auto-recovered   *)
(* -- it is never overwritten and blocks future takeovers").               *)
StrandedTokenStays ==
    [][\A p \in Pids :
          token = p /\ at[p] \notin Takeover => token' = token]_lockVars

=============================================================================
