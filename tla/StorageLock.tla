----------------------------- MODULE StorageLock -----------------------------
(***************************************************************************)
(* withStorageLock of scripts/execution-artifacts.mjs: the lock under which *)
(* the execution journal and the artifact store are written.  The lock is  *)
(* a directory `.lock` holding the pid of its owner; a staging directory   *)
(* that already holds the pid is renamed into place, and renamed away      *)
(* again when it is released.  The lock of a dead owner is reclaimed by    *)
(* the process that creates the reclaim token inside that very directory;  *)
(* the token of a reclaimer that died itself is superseded by a longer one.*)
(*                                                                         *)
(* Every path is looked up when it is used, so the directory a step acts   *)
(* on is whatever `.lock` is by then.  A directory is known by its inode.  *)
(***************************************************************************)
EXTENDS Naturals, Sequences

CONSTANTS
    Pids,      \* the processes; each takes the lock at most once
    Inos,      \* inode numbers of lock directories
    None,      \* no directory, or no pid
    MaxDeaths, \* bound: processes killed
    MaxAges    \* bound: locks that get older than STALE_TEMPORARY_MS

ASSUME NoneAssumption == None \notin Pids \cup Inos
ASSUME BoundsAssumption == MaxDeaths \in Nat /\ MaxAges \in Nat

VARIABLES
    lock,    \* the inode of `.lock`, or None
    place,   \* where the directory of each inode is
    owner,   \* the pid written in it
    keeper,  \* the pid in the name of a staging or stale directory
    old,     \* it was not changed for STALE_TEMPORARY_MS
    tokens,  \* the reclaim tokens in it: name -> pid of the claimer
    pc, mem, deaths, ages

disk == <<lock, place, owner, keeper, old, tokens>>
vars == <<lock, place, owner, keeper, old, tokens, pc, mem, deaths, ages>>

Pid == Pids \cup {None}

(* A process remembers the holder it saw first (ino, pid, old) and the one *)
(* it read again under its token, and the name of that token.              *)
Memory == [mine : Inos \cup {None}, ino : Inos \cup {None}, pid : Pid,
           old : BOOLEAN, again : Inos \cup {None}, pidAgain : Pid,
           name : Seq(Pid)]
Blank == [mine |-> None, ino |-> None, pid |-> None, old |-> FALSE,
          again |-> None, pidAgain |-> None, name |-> <<>>]

Holding == {"hold", "release"}
Labels == {"new", "stage", "look", "install", "stat", "readPid", "probe",
           "claim", "statAgain", "readAgain", "judge", "move", "drop",
           "wait", "clear", "clearRelease", "ended", "gone"} \cup Holding

TypeOK ==
    /\ lock \in Inos \cup {None}
    /\ place \in [Inos -> {"free", "staging", "lock", "stale"}]
    /\ owner \in [Inos -> Pid] /\ keeper \in [Inos -> Pid]
    /\ old \in [Inos -> BOOLEAN]
    /\ \A i \in Inos : DOMAIN tokens[i] \subseteq Seq(Pid)
                       /\ \A n \in DOMAIN tokens[i] : tokens[i][n] \in Pids
    /\ pc \in [Pids -> Labels]
    /\ mem \in [Pids -> Memory]
    /\ deaths \in 0..MaxDeaths /\ ages \in 0..MaxAges

NoTokens == [n \in {} |-> None]

Init ==
    /\ lock = None
    /\ place = [i \in Inos |-> "free"]
    /\ owner = [i \in Inos |-> None] /\ keeper = [i \in Inos |-> None]
    /\ old = [i \in Inos |-> FALSE] /\ tokens = [i \in Inos |-> NoTokens]
    /\ pc = [p \in Pids |-> "new"] /\ mem = [p \in Pids |-> Blank]
    /\ deaths = 0 /\ ages = 0

Alive(p) == pc[p] # "gone"
Goto(p, label) == pc' = [pc EXCEPT ![p] = label]
Remember(p, m) == mem' = [mem EXCEPT ![p] = m]
Bounds == <<deaths, ages>>

(* rm of a directory: its inode is free again.                             *)
Freed(set) ==
    /\ place' = [i \in Inos |-> IF i \in set THEN "free" ELSE place[i]]
    /\ owner' = [i \in Inos |-> IF i \in set THEN None ELSE owner[i]]
    /\ keeper' = [i \in Inos |-> IF i \in set THEN None ELSE keeper[i]]
    /\ old' = [i \in Inos |-> IF i \in set THEN FALSE ELSE old[i]]
    /\ tokens' = [i \in Inos |-> IF i \in set THEN NoTokens ELSE tokens[i]]

(* rename(`.lock`, moved): whatever is there goes.                         *)
MovedAway(p) ==
    /\ lock # None /\ lock' = None
    /\ place' = [place EXCEPT ![lock] = "stale"]
    /\ keeper' = [keeper EXCEPT ![lock] = p]
    /\ UNCHANGED <<owner, old, tokens>>

-----------------------------------------------------------------------------
Call(p) ==
    /\ pc[p] = "new" /\ Goto(p, "stage")
    /\ UNCHANGED <<disk, mem, Bounds>>

(* Seeded fault: the pid is not written before the rename.                 *)
StageUnowned(p) ==
    /\ pc[p] = "stage"
    /\ \E i \in Inos :
          /\ place[i] = "free"
          /\ place' = [place EXCEPT ![i] = "staging"]
          /\ keeper' = [keeper EXCEPT ![i] = p]
          /\ Remember(p, [Blank EXCEPT !.mine = i])
    /\ Goto(p, "look")
    /\ UNCHANGED <<lock, owner, old, tokens, Bounds>>

(* createLock: the staging directory gets its pid before anyone looks.     *)
Stage(p) ==
    /\ pc[p] = "stage"
    /\ \E i \in Inos :
          /\ place[i] = "free"
          /\ place' = [place EXCEPT ![i] = "staging"]
          /\ owner' = [owner EXCEPT ![i] = p]
          /\ keeper' = [keeper EXCEPT ![i] = p]
          /\ Remember(p, [Blank EXCEPT !.mine = i])
    /\ Goto(p, "look")
    /\ UNCHANGED <<lock, old, tokens, Bounds>>

(* An existing lock is left alone, and the staging directory removed.      *)
Look(p) ==
    /\ pc[p] = "look"
    /\ \/ lock = None /\ Goto(p, "install") /\ UNCHANGED <<disk, mem>>
       \/ /\ lock # None /\ Goto(p, "stat")
          /\ Freed({mem[p].mine}) /\ UNCHANGED lock /\ Remember(p, Blank)
    /\ UNCHANGED Bounds
(* rename(staging, `.lock`) fails on a directory that is not empty.        *)
Install(p) ==
    /\ pc[p] = "install"
    /\ \/ /\ lock = None /\ lock' = mem[p].mine
          /\ place' = [place EXCEPT ![mem[p].mine] = "lock"]
          /\ Goto(p, "hold")
          /\ UNCHANGED <<owner, keeper, old, tokens, mem>>
       \/ /\ lock # None /\ Goto(p, "stat")
          /\ Freed({mem[p].mine}) /\ UNCHANGED lock /\ Remember(p, Blank)
    /\ UNCHANGED Bounds

(* lockHolder: the directory is looked at first, its pid read afterwards.  *)
Stat(p) ==
    /\ pc[p] = "stat"
    /\ IF lock = None THEN Goto(p, "stage") /\ UNCHANGED mem
       ELSE /\ Goto(p, "readPid")
            /\ Remember(p, [Blank EXCEPT !.ino = lock, !.old = old[lock]])
    /\ UNCHANGED <<disk, Bounds>>

PidThere == IF lock = None THEN None ELSE owner[lock]

ReadPid(p) ==
    /\ pc[p] = "readPid"
    /\ Remember(p, [mem[p] EXCEPT !.pid = PidThere])
    /\ Goto(p, "probe")
    /\ UNCHANGED <<disk, Bounds>>

(* abandoned: a dead pid, or no pid in an old directory.                   *)
Abandoned(m) == IF m.pid = None THEN m.old ELSE ~Alive(m.pid)

Probe(p) ==
    /\ pc[p] = "probe"
    /\ Goto(p, IF Abandoned(mem[p]) THEN "claim" ELSE "wait")
    /\ Remember(p, [mem[p] EXCEPT !.name = <<mem[p].pid>>])
    /\ UNCHANGED <<disk, Bounds>>

(* Seeded fault: a token is never superseded.                              *)
ClaimFirst(p) ==
    /\ pc[p] = "claim"
    /\ LET n == mem[p].name IN
       IF lock = None \/ n \in DOMAIN tokens[lock]
       THEN Goto(p, "wait") /\ UNCHANGED <<disk, mem>>
       ELSE /\ tokens' = [tokens EXCEPT ![lock] =
                   [t \in DOMAIN @ \cup {n} |-> IF t = n THEN p ELSE @[t]]]
            /\ old' = [old EXCEPT ![lock] = FALSE]
            /\ Goto(p, "statAgain") /\ UNCHANGED <<lock, place, owner, keeper, mem>>
    /\ UNCHANGED Bounds

(* claimToken links this pid under the name, inside the directory.  An     *)
(* existing token of a live process is respected, that of a dead one makes *)
(* the name longer.                                                        *)
Claim(p) ==
    /\ pc[p] = "claim"
    /\ LET n == mem[p].name IN
       IF lock = None THEN Goto(p, "wait") /\ UNCHANGED <<disk, mem>>
       ELSE IF n \in DOMAIN tokens[lock] THEN
            LET claimer == tokens[lock][n] IN
            /\ IF Alive(claimer) THEN Goto(p, "wait") /\ UNCHANGED mem
               ELSE /\ Remember(p, [mem[p] EXCEPT !.name = Append(n, claimer)])
                    /\ UNCHANGED pc
            /\ UNCHANGED disk
       ELSE /\ tokens' = [tokens EXCEPT ![lock] =
                   [t \in DOMAIN @ \cup {n} |-> IF t = n THEN p ELSE @[t]]]
            /\ old' = [old EXCEPT ![lock] = FALSE]
            /\ Goto(p, "statAgain") /\ UNCHANGED <<lock, place, owner, keeper, mem>>
    /\ UNCHANGED Bounds

StatAgain(p) ==
    /\ pc[p] = "statAgain"
    /\ Goto(p, IF lock = None THEN "drop" ELSE "readAgain")
    /\ Remember(p, [mem[p] EXCEPT !.again = lock])
    /\ UNCHANGED <<disk, Bounds>>

ReadAgain(p) ==
    /\ pc[p] = "readAgain"
    /\ Remember(p, [mem[p] EXCEPT !.pidAgain = PidThere])
    /\ Goto(p, "judge")
    /\ UNCHANGED <<disk, Bounds>>

(* Seeded fault: the directory is not compared.                            *)
JudgePid(p) ==
    /\ pc[p] = "judge"
    /\ LET m == mem[p] IN
       Goto(p, IF m.pidAgain = m.pid /\ (m.pid = None \/ ~Alive(m.pid))
               THEN "move" ELSE "drop")
    /\ UNCHANGED <<disk, mem, Bounds>>

(* Still the same directory with the same dead holder?                     *)
Judge(p) ==
    /\ pc[p] = "judge"
    /\ LET m == mem[p] IN
       Goto(p, IF m.again = m.ino /\ m.pidAgain = m.pid
                  /\ (m.pid = None \/ ~Alive(m.pid))
               THEN "move" ELSE "drop")
    /\ UNCHANGED <<disk, mem, Bounds>>

(* The token is removed, from whatever directory is there.                 *)
Drop(p) ==
    /\ pc[p] = "drop" /\ Goto(p, "wait")
    /\ IF lock = None THEN UNCHANGED <<tokens, old>>
       ELSE LET n == mem[p].name IN
            /\ tokens' = [tokens EXCEPT ![lock] =
                              [t \in DOMAIN @ \ {n} |-> @[t]]]
            /\ old' = [old EXCEPT ![lock] = @ /\ n \notin DOMAIN tokens[lock]]
    /\ UNCHANGED <<lock, place, owner, keeper, mem, Bounds>>

Move(p) ==
    /\ pc[p] = "move"
    /\ \/ /\ lock = None /\ Goto(p, "wait") /\ UNCHANGED <<disk, mem>>
       \/ /\ Remember(p, [Blank EXCEPT !.mine = lock])
          /\ MovedAway(p) /\ Goto(p, "clear")
    /\ UNCHANGED Bounds

Clear(p) ==
    /\ pc[p] \in {"clear", "clearRelease"}
    /\ Freed({mem[p].mine}) /\ UNCHANGED lock /\ Remember(p, Blank)
    /\ Goto(p, IF pc[p] = "clear" THEN "stage" ELSE "ended")
    /\ UNCHANGED Bounds

(* LOCK_WAIT_MS may be over; otherwise the next round.                     *)
Wait(p) ==
    /\ pc[p] = "wait" /\ Goto(p, "stage") /\ Remember(p, Blank)
    /\ UNCHANGED <<disk, Bounds>>

Busy(p) ==
    /\ pc[p] = "wait" /\ Goto(p, "ended") /\ Remember(p, Blank)
    /\ UNCHANGED <<disk, Bounds>>

(* The action under the lock begins with reconcileTemporaries: what dead   *)
(* processes were creating or deleting is removed.                         *)
Reconcile(p) ==
    /\ pc[p] = "hold" /\ Goto(p, "release")
    /\ Freed({i \in Inos : place[i] \in {"staging", "stale"} /\ ~Alive(keeper[i])})
    /\ UNCHANGED <<lock, mem, Bounds>>

Release(p) ==
    /\ pc[p] = "release"
    /\ IF lock = None THEN Goto(p, "ended") /\ UNCHANGED <<disk, mem>>
       ELSE /\ Remember(p, [Blank EXCEPT !.mine = lock])
            /\ MovedAway(p) /\ Goto(p, "clearRelease")
    /\ UNCHANGED Bounds

(* The process is killed: what it left on disk stays.                      *)
Die(p) ==
    /\ pc[p] \notin {"new", "gone"} /\ deaths < MaxDeaths
    /\ Goto(p, "gone") /\ Remember(p, Blank) /\ deaths' = deaths + 1
    /\ UNCHANGED <<disk, ages>>

Grow ==
    /\ lock # None /\ ~old[lock] /\ ages < MaxAges
    /\ old' = [old EXCEPT ![lock] = TRUE] /\ ages' = ages + 1
    /\ UNCHANGED <<lock, place, owner, keeper, tokens, pc, mem, deaths>>

Create(p) == Call(p) \/ Stage(p) \/ Look(p) \/ Install(p)
Reclaim(p) == \/ Stat(p) \/ ReadPid(p) \/ Probe(p) \/ Claim(p) \/ StatAgain(p)
              \/ ReadAgain(p) \/ Judge(p) \/ Drop(p) \/ Move(p) \/ Clear(p)
Step(p) == Create(p) \/ Reclaim(p) \/ Wait(p) \/ Reconcile(p) \/ Release(p)

Next == Grow \/ \E p \in Pids : Step(p) \/ Busy(p) \/ Die(p)

Spec == Init /\ [][Next]_vars

(* A file system that gives a new directory no inode number that a waiting *)
(* process still remembers.                                                *)
FreshInodes ==
    \A i \in Inos : place[i] = "free" /\ place[i]' # "free"
                        => \A p \in Pids : mem[p].ino # i

FreshNext == Next /\ FreshInodes

FreshSpec == Init /\ [][FreshNext]_vars

FairSpec == /\ FreshSpec
            /\ \A p \in Pids : WF_vars(Step(p) /\ FreshInodes)

-----------------------------------------------------------------------------
(* The lock of a process that writes is in place and carries its pid: no   *)
(* two write at a time, whatever was killed before, and the release, which *)
(* renames whatever is there, moves its own directory away.                *)
HolderInPlace ==
    /\ TypeOK
    /\ \A p \in Pids : pc[p] \in Holding => lock # None /\ owner[lock] = p

(* A reclaimer moves away the very directory it judged, and its owner is   *)
(* dead ("removes it only if it is still the same directory with the same  *)
(* dead holder; anything else is left untouched").                         *)
ReclaimsOnlyDead ==
    [][\A p \in Pids : pc[p] = "move" /\ pc'[p] = "clear"
          => lock = mem[p].ino /\ ~Alive(owner[lock])]_vars

(* A process that asks gets the lock or is refused: neither a lock left by *)
(* a killed writer nor a token left by a killed reclaimer blocks for ever. *)
EveryoneServed == \A p \in Pids : (pc[p] = "stage") ~> (pc[p] \in {"hold", "ended", "gone"})

=============================================================================
