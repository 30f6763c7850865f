------------------------- MODULE StorageLockProofs -------------------------
(***************************************************************************)
(* Theorems about module StorageLock, for any number of processes and      *)
(* kills: the lock of a process that writes is in place, and a reclaimer   *)
(* moves away nothing but the dead lock it judged (FreshSpec).  The last   *)
(* part is about the journal files that are written under that lock.       *)
(***************************************************************************)
EXTENDS StorageLock, FiniteSetTheorems, SequenceTheorems, TLAPS

Claimed == {"statAgain", "readAgain", "judge", "move", "drop"}
Claiming == Claimed \cup {"claim"}
Seen == Claiming \cup {"probe"}

(* Where directories are, and who put them there.                          *)
LockInPlace == \A i \in Inos : lock = i <=> place[i] = "lock"
LockIsOwned == lock # None => owner[lock] \in Pids
OwnStaging == \A p \in Pids : pc[p] \in {"look", "install"} =>
    /\ mem[p].mine \in Inos /\ place[mem[p].mine] = "staging"
    /\ keeper[mem[p].mine] = p /\ owner[mem[p].mine] = p
OwnStale == \A p \in Pids : pc[p] \in {"clear", "clearRelease"} =>
    /\ mem[p].mine \in Inos /\ place[mem[p].mine] = "stale" /\ keeper[mem[p].mine] = p
Placed == LockInPlace /\ LockIsOwned /\ OwnStaging /\ OwnStale

(* What a reclaimer remembers: the directory it saw does not come back, its*)
(* pid is that directory's, if it is still there, and dead.                *)
SawDirectory == \A p \in Pids :
    /\ mem[p].ino # None => place[mem[p].ino] # "staging"
    /\ pc[p] \in Seen \cup {"readPid"} => mem[p].ino # None
    /\ pc[p] \in Seen /\ lock = mem[p].ino => mem[p].pid = owner[lock]
SawDead == \A p \in Pids : pc[p] \in Claiming =>
    /\ mem[p].pid = None \/ ~Alive(mem[p].pid)
    /\ mem[p].name # <<>> /\ mem[p].name[1] = mem[p].pid
Remembered == SawDirectory /\ SawDead

(* The tokens of a lock whose owner is the pid a reclaimer remembers.      *)
Here(p) == lock # None /\ owner[lock] = mem[p].pid

TokenIsThere == \A p \in Pids : pc[p] \in Claimed /\ Here(p) =>
    mem[p].name \in DOMAIN tokens[lock] /\ tokens[lock][mem[p].name] = p

(* Every shorter name is the token of a dead reclaimer, the next in line.  *)
Supersedes == \A p \in Pids : pc[p] \in Claiming /\ Here(p) =>
    \A k \in 1..(Len(mem[p].name) - 1) :
        /\ SubSeq(mem[p].name, 1, k) \in DOMAIN tokens[lock]
        /\ tokens[lock][SubSeq(mem[p].name, 1, k)] = mem[p].name[k + 1]
        /\ mem[p].name[k + 1] \in Pids /\ ~Alive(mem[p].name[k + 1])

(* Of two reclaimers' names one begins with the other.                     *)
Comparable == \A p, q \in Pids :
    pc[p] \in Claiming /\ pc[q] \in Claiming /\ Here(p) /\ Here(q) =>
        \A k \in 1..Len(mem[p].name) : k <= Len(mem[q].name) => mem[p].name[k] = mem[q].name[k]
TokenInv == DOMAIN tokens = Inos /\ TokenIsThere /\ Supersedes /\ Comparable

(* A directory found again under a token stays until its claimer moves it. *)
FoundAgain == \A p \in Pids :
    /\ pc[p] \in {"readAgain", "judge", "move"} /\ mem[p].again = mem[p].ino => lock = mem[p].ino
    /\ pc[p] = "move" => mem[p].again = mem[p].ino

Holds == \A p \in Pids : pc[p] \in Holding => lock # None /\ owner[lock] = p

IInv == TypeOK /\ Placed /\ Remembered /\ TokenInv /\ FoundAgain /\ Holds

-----------------------------------------------------------------------------
(* Type correctness.                                                       *)

LEMMA BlankTyped == Blank \in Memory
  <1>1. <<>> \in Seq(Pid)
    BY EmptySeq
  <1> QED
    BY <1>1 DEF Blank, Memory, Pid

LEMMA Written ==
  ASSUME NEW m \in Memory
  PROVE  /\ \A q \in Pid : [m EXCEPT !.pid = q] \in Memory
         /\ \A q \in Pid : [m EXCEPT !.pidAgain = q] \in Memory
         /\ \A n \in Seq(Pid) : [m EXCEPT !.name = n] \in Memory
         /\ \A i \in Inos \cup {None} : [m EXCEPT !.again = i] \in Memory
         /\ \A i \in Inos \cup {None} : [m EXCEPT !.mine = i] \in Memory
  BY DEF Memory

LEMMA Saw ==
  ASSUME NEW i \in Inos \cup {None}, NEW b \in BOOLEAN
  PROVE  [Blank EXCEPT !.ino = i, !.old = b] \in Memory
  <1>1. <<>> \in Seq(Pid)
    BY EmptySeq
  <1>2. CASE b = TRUE
    BY <1>1, <1>2 DEF Blank, Memory, Pid
  <1>3. CASE b = FALSE
    BY <1>1, <1>3 DEF Blank, Memory, Pid
  <1> QED
    BY <1>2, <1>3

MindOK == pc \in [Pids -> Labels] /\ mem \in [Pids -> Memory]
DiskOK ==
    /\ lock \in Inos \cup {None}
    /\ place \in [Inos -> {"free", "staging", "lock", "stale"}]
    /\ owner \in [Inos -> Pid] /\ keeper \in [Inos -> Pid]
    /\ old \in [Inos -> BOOLEAN]
TokensOK == \A i \in Inos : DOMAIN tokens[i] \subseteq Seq(Pid)
                            /\ \A n \in DOMAIN tokens[i] : tokens[i][n] \in Pids

LEMMA MindKept ==
  ASSUME TypeOK, Placed, [Next]_vars
  PROVE  MindOK'
  <1> USE DEF Goto, Remember, MindOK, Labels, Holding
  <1>1. /\ pc \in [Pids -> Labels] /\ mem \in [Pids -> Memory]
        /\ lock \in Inos \cup {None} /\ PidThere \in Pid
    BY DEF TypeOK, PidThere, Pid
  <1>2. ASSUME NEW p \in Pids, Create(p) PROVE MindOK'
    <2>1. \A i \in Inos : [Blank EXCEPT !.mine = i] \in Memory
      BY BlankTyped, Written
    <2> QED
      BY <1>1, <1>2, <2>1, BlankTyped DEF Create, Call, Stage, Look, Install
  <1>3. ASSUME NEW p \in Pids, Stat(p) PROVE MindOK'
    <2>1. lock # None => old[lock] \in BOOLEAN
      BY DEF TypeOK
    <2>2. lock # None => [Blank EXCEPT !.ino = lock, !.old = old[lock]] \in Memory
      BY <1>1, <2>1, Saw
    <2> QED
      BY <1>1, <1>3, <2>2 DEF Stat
  <1>4. ASSUME NEW p \in Pids, ReadPid(p) PROVE MindOK'
    BY <1>1, <1>4, Written DEF ReadPid
  <1>5. ASSUME NEW p \in Pids, Probe(p) PROVE MindOK'
    <2>1. <<mem[p].pid>> \in Seq(Pid)
      BY <1>1 DEF Memory
    <2> QED
      BY <1>1, <1>5, <2>1, Written DEF Probe
  <1>6. ASSUME NEW p \in Pids, Claim(p) PROVE MindOK'
    <2> DEFINE n == mem[p].name
    <2>1. lock # None /\ n \in DOMAIN tokens[lock] => Append(n, tokens[lock][n]) \in Seq(Pid)
      <3>1. n \in Seq(Pid)
        BY <1>1 DEF Memory
      <3>2. lock # None /\ n \in DOMAIN tokens[lock] => tokens[lock][n] \in Pid
        BY <1>1 DEF TypeOK, Pid
      <3> QED
        BY <3>1, <3>2, AppendProperties
    <2>2. mem' = mem \/ \E m \in Memory : mem' = [mem EXCEPT ![p] = m]
      BY <1>1, <1>6, <2>1, Written DEF Claim
    <2>3. pc' \in [Pids -> Labels]
      BY <1>1, <1>6 DEF Claim
    <2> QED
      BY <1>1, <2>2, <2>3
  <1>7. ASSUME NEW p \in Pids, StatAgain(p) PROVE MindOK'
    BY <1>1, <1>7, Written DEF StatAgain
  <1>8. ASSUME NEW p \in Pids, ReadAgain(p) PROVE MindOK'
    BY <1>1, <1>8, Written DEF ReadAgain
  <1>9. ASSUME NEW p \in Pids, Judge(p) \/ Drop(p) PROVE MindOK'
    BY <1>1, <1>9 DEF Judge, Drop
  <1>10. ASSUME NEW p \in Pids, Move(p) \/ Release(p) PROVE MindOK'
    <2>1. [Blank EXCEPT !.mine = lock] \in Memory
      BY <1>1, BlankTyped, Written
    <2> QED
      BY <1>1, <1>10, <2>1 DEF Move, Release
  <1>11. ASSUME NEW p \in Pids, Clear(p) \/ Wait(p) \/ Busy(p) \/ Reconcile(p) \/ Die(p) PROVE MindOK'
    BY <1>1, <1>11, BlankTyped DEF Clear, Wait, Busy, Reconcile, Die
  <1>12. CASE UNCHANGED <<pc, mem>>
    BY <1>1, <1>12
  <1> QED
    BY <1>2, <1>3, <1>4, <1>5, <1>6, <1>7, <1>8, <1>9, <1>10, <1>11, <1>12
    DEF Next, Step, Reclaim, Grow, vars

(* A directory changes when it is staged, installed, moved or freed; its   *)
(* tokens and its age besides when it is reclaimed.                        *)
LEMMA FreedTyped ==
  ASSUME TypeOK, NEW set, Freed(set)
  PROVE  /\ place' \in [Inos -> {"free", "staging", "lock", "stale"}]
         /\ owner' \in [Inos -> Pid] /\ keeper' \in [Inos -> Pid]
         /\ old' \in [Inos -> BOOLEAN] /\ DOMAIN tokens' = Inos /\ TokensOK'
  <1>1. place' \in [Inos -> {"free", "staging", "lock", "stale"}]
    BY DEF TypeOK, Freed
  <1>2. owner' \in [Inos -> Pid] /\ keeper' \in [Inos -> Pid]
    BY DEF TypeOK, Freed, Pid
  <1>3. old' \in [Inos -> BOOLEAN]
    <2>1. \A i \in Inos : (IF i \in set THEN FALSE ELSE old[i]) \in BOOLEAN
      BY DEF TypeOK
    <2> QED
      BY <2>1 DEF Freed
  <1>4. DOMAIN tokens' = Inos /\ TokensOK'
    BY DEF TypeOK, Freed, TokensOK, NoTokens
  <1> QED
    BY <1>1, <1>2, <1>3, <1>4

LEMMA DiskKept ==
  ASSUME TypeOK, Placed, DOMAIN tokens = Inos, [Next]_vars
  PROVE  DiskOK' /\ TokensOK' /\ DOMAIN tokens' = Inos
  <1> USE DEF DiskOK
  <1>1. DiskOK /\ TokensOK /\ mem \in [Pids -> Memory] /\ Pids \subseteq Pid
    BY DEF TypeOK, TokensOK, Pid
  <1>2. ASSUME NEW p \in Pids, Look(p) \/ Clear(p) \/ Reconcile(p)
        PROVE  DiskOK' /\ TokensOK' /\ DOMAIN tokens' = Inos
    <2>1. CASE UNCHANGED disk
      BY <1>1, <2>1 DEF disk, TokensOK
    <2>2. ASSUME NEW set, Freed(set), UNCHANGED lock
          PROVE  DiskOK' /\ TokensOK' /\ DOMAIN tokens' = Inos
      BY <1>1, <2>2, FreedTyped
    <2> QED
      BY <1>2, <2>1, <2>2 DEF Look, Clear, Reconcile
  <1>3. ASSUME NEW p \in Pids, Install(p)
        PROVE  DiskOK' /\ TokensOK' /\ DOMAIN tokens' = Inos
    <2>1. CASE lock # None
      BY <1>1, <1>3, <2>1, FreedTyped DEF Install
    <2>2. CASE lock = None
      BY <1>1, <1>3, <2>2 DEF Install, TokensOK, Placed, OwnStaging
    <2> QED
      BY <2>1, <2>2
  <1>4. ASSUME NEW p \in Pids, Stage(p)
        PROVE  DiskOK' /\ TokensOK' /\ DOMAIN tokens' = Inos
    BY <1>1, <1>4 DEF Stage, TokensOK
  <1>5. ASSUME NEW p \in Pids, Move(p) \/ Release(p)
        PROVE  DiskOK' /\ TokensOK' /\ DOMAIN tokens' = Inos
    BY <1>1, <1>5 DEF Move, Release, MovedAway, TokensOK, disk
  <1>6. ASSUME NEW p \in Pids, Claim(p)
        PROVE  DiskOK' /\ TokensOK' /\ DOMAIN tokens' = Inos
    <2>1. CASE UNCHANGED disk
      BY <1>1, <2>1 DEF disk, TokensOK
    <2>2. CASE ~UNCHANGED disk
      <3> DEFINE n == mem[p].name
      <3>1. /\ lock \in Inos /\ n \in Seq(Pid) /\ n \notin DOMAIN tokens[lock]
            /\ tokens' = [tokens EXCEPT ![lock] = [t \in DOMAIN tokens[lock] \cup {n} |-> IF t = n THEN p ELSE tokens[lock][t]]]
            /\ old' = [old EXCEPT ![lock] = FALSE] /\ UNCHANGED <<lock, place, owner, keeper>>
        BY <1>1, <1>6, <2>2 DEF Claim, Memory
      <3>2. DiskOK'
        BY <1>1, <3>1
      <3>3. TokensOK' /\ DOMAIN tokens' = Inos
        BY <1>1, <3>1 DEF TokensOK
      <3> QED
        BY <3>2, <3>3
    <2> QED
      BY <2>1, <2>2
  <1>7. ASSUME NEW p \in Pids, Drop(p)
        PROVE  DiskOK' /\ TokensOK' /\ DOMAIN tokens' = Inos
    <2>1. UNCHANGED <<lock, place, owner, keeper>>
      BY <1>7 DEF Drop
    <2>2. old' \in [Inos -> BOOLEAN]
      BY <1>1, <1>7 DEF Drop
    <2>3. TokensOK' /\ DOMAIN tokens' = Inos
      BY <1>1, <1>7 DEF Drop, TokensOK
    <2> QED
      BY <1>1, <2>1, <2>2, <2>3
  <1>8. CASE Grow
    BY <1>1, <1>8 DEF Grow, TokensOK
  <1>9. CASE UNCHANGED disk
    BY <1>1, <1>9 DEF disk, TokensOK
  <1>10. ASSUME NEW p \in Pids, Call(p) \/ Stat(p) \/ ReadPid(p) \/ Probe(p) \/ StatAgain(p)
               \/ ReadAgain(p) \/ Judge(p) \/ Wait(p) \/ Busy(p) \/ Die(p)
         PROVE  UNCHANGED disk
    BY <1>10 DEF Call, Stat, ReadPid, Probe, StatAgain, ReadAgain, Judge, Wait, Busy, Die, disk
  <1> QED
    BY <1>2, <1>3, <1>4, <1>5, <1>6, <1>7, <1>8, <1>9, <1>10
    DEF Next, Step, Create, Reclaim, vars, disk

LEMMA TypeKept == TypeOK /\ Placed /\ DOMAIN tokens = Inos /\ [Next]_vars => TypeOK'
  <1> SUFFICES ASSUME TypeOK, Placed, DOMAIN tokens = Inos, [Next]_vars PROVE TypeOK'
    OBVIOUS
  <1>1. DiskOK' /\ TokensOK' /\ MindOK'
    BY DiskKept, MindKept
  <1>2. deaths' \in 0..MaxDeaths /\ ages' \in 0..MaxAges
    <2>1. ASSUME NEW p \in Pids, Step(p) \/ Busy(p) PROVE UNCHANGED Bounds
      <3>1. CASE Create(p) \/ Wait(p) \/ Reconcile(p) \/ Release(p) \/ Busy(p)
        BY <3>1 DEF Create, Call, Stage, Look, Install, Wait, Reconcile, Release, Busy
      <3>2. CASE Reclaim(p)
        BY <3>2 DEF Reclaim, Stat, ReadPid, Probe, Claim, StatAgain, ReadAgain, Judge, Drop, Move, Clear
      <3> QED
        BY <2>1, <3>1, <3>2 DEF Step
    <2>2. ASSUME NEW p \in Pids, Die(p) PROVE deaths' \in 0..MaxDeaths /\ UNCHANGED ages
      BY <2>2, BoundsAssumption DEF Die, TypeOK
    <2>3. CASE Grow
      BY <2>3, BoundsAssumption DEF Grow, TypeOK
    <2> QED
      BY <2>1, <2>2, <2>3 DEF Next, Bounds, vars, TypeOK
  <1> QED
    BY <1>1, <1>2 DEF TypeOK, DiskOK, TokensOK, MindOK

-----------------------------------------------------------------------------
(* Where directories are.                                                  *)

LEMMA OthersWait ==
  ASSUME TypeOK, NEW p \in Pids, Step(p) \/ Busy(p) \/ Die(p)
  PROVE  \A q \in Pids : q # p => pc'[q] = pc[q] /\ mem'[q] = mem[q]
  <1>1. pc \in [Pids -> Labels] /\ mem \in [Pids -> Memory]
    BY DEF TypeOK
  <1> USE <1>1 DEF Goto, Remember
  <1>2. CASE Create(p)
    BY <1>2 DEF Create, Call, Stage, Look, Install
  <1>3. CASE Stat(p) \/ ReadPid(p) \/ Probe(p) \/ Claim(p) \/ StatAgain(p)
    BY <1>3 DEF Stat, ReadPid, Probe, Claim, StatAgain
  <1>4. CASE ReadAgain(p) \/ Judge(p) \/ Drop(p) \/ Move(p) \/ Clear(p)
    BY <1>4 DEF ReadAgain, Judge, Drop, Move, Clear
  <1>5. CASE Wait(p) \/ Reconcile(p) \/ Release(p) \/ Busy(p) \/ Die(p)
    BY <1>5 DEF Wait, Reconcile, Release, Busy, Die
  <1> QED
    BY <1>2, <1>3, <1>4, <1>5 DEF Step, Reclaim

(* What is freed is neither the lock nor a directory in use.               *)
LEMMA FreedPlaced ==
  ASSUME TypeOK, Placed, NEW set, Freed(set), UNCHANGED lock,
         \A i \in Inos : i \in set => place[i] \in {"staging", "stale"},
         \A q \in Pids : pc'[q] \in {"look", "install", "clear", "clearRelease"} =>
             pc[q] \in {"look", "install", "clear", "clearRelease"} /\ pc'[q] = pc[q]
             /\ mem'[q] = mem[q] /\ mem[q].mine \notin set
  PROVE  Placed'
  <1>1. /\ lock \in Inos \cup {None} /\ None \notin Inos
        /\ place \in [Inos -> {"free", "staging", "lock", "stale"}]
    BY NoneAssumption DEF TypeOK
  <1>2. LockInPlace'
    BY <1>1 DEF Placed, LockInPlace, Freed
  <1>3. LockIsOwned'
    BY <1>1 DEF Placed, LockInPlace, LockIsOwned, Freed
  <1>4. OwnStaging' /\ OwnStale'
    BY <1>1 DEF Placed, OwnStaging, OwnStale, Freed
  <1> QED
    BY <1>2, <1>3, <1>4 DEF Placed

LEMMA PlacedKept ==
  ASSUME TypeOK, Placed, Holds, [Next]_vars
  PROVE  Placed'
  <1>1. /\ lock \in Inos \cup {None} /\ None \notin Inos
        /\ place \in [Inos -> {"free", "staging", "lock", "stale"}]
        /\ owner \in [Inos -> Pid] /\ keeper \in [Inos -> Pid]
        /\ pc \in [Pids -> Labels] /\ mem \in [Pids -> Memory]
    BY NoneAssumption DEF TypeOK
  <1> USE DEF Goto, Remember
  <1>2. ASSUME NEW p \in Pids, Stage(p) PROVE Placed'
    <2>1. PICK i \in Inos : /\ place[i] = "free" /\ place' = [place EXCEPT ![i] = "staging"]
                           /\ owner' = [owner EXCEPT ![i] = p] /\ keeper' = [keeper EXCEPT ![i] = p]
                           /\ mem' = [mem EXCEPT ![p] = [Blank EXCEPT !.mine = i]]
      BY <1>2 DEF Stage
    <2>2. mem'[p].mine = i /\ pc'[p] = "look" /\ lock' = lock
      BY <1>1, <1>2, <2>1 DEF Stage, Blank
    <2>3. \A q \in Pids : q # p => pc'[q] = pc[q] /\ mem'[q] = mem[q]
      BY <1>1, <1>2, <2>1 DEF Stage
    <2>4. LockInPlace' /\ LockIsOwned'
      BY <1>1, <2>1, <2>2 DEF Placed, LockInPlace, LockIsOwned
    <2>5. OwnStaging' /\ OwnStale'
      BY <1>1, <2>1, <2>2, <2>3 DEF Placed, OwnStaging, OwnStale
    <2> QED
      BY <2>4, <2>5 DEF Placed
  <1>3. ASSUME NEW p \in Pids, Look(p) \/ Install(p), lock # None PROVE Placed'
    <2>1. \A q \in Pids : q # p => pc'[q] = pc[q] /\ mem'[q] = mem[q]
      BY <1>1, <1>3 DEF Look, Install
    <2>2. Freed({mem[p].mine}) /\ UNCHANGED lock /\ pc'[p] = "stat"
      BY <1>1, <1>3 DEF Look, Install
    <2>3. \A q \in Pids : q # p /\ pc[q] \in {"look", "install", "clear", "clearRelease"} => mem[q].mine # mem[p].mine
      BY <1>3 DEF Look, Install, Placed, OwnStaging, OwnStale
    <2>4. place[mem[p].mine] = "staging"
      BY <1>3 DEF Look, Install, Placed, OwnStaging
    <2> QED
      BY <2>1, <2>2, <2>3, <2>4, FreedPlaced
  <1>4. ASSUME NEW p \in Pids, Look(p), lock = None PROVE Placed'
    <2>1. UNCHANGED <<disk, mem>> /\ \A q \in Pids : pc'[q] = IF q = p THEN "install" ELSE pc[q]
      BY <1>1, <1>4 DEF Look
    <2> QED
      BY <1>4, <2>1 DEF Look, disk, Placed, LockInPlace, LockIsOwned, OwnStaging, OwnStale
  <1>5. ASSUME NEW p \in Pids, Install(p), lock = None PROVE Placed'
    <2>1. /\ lock' = mem[p].mine /\ place' = [place EXCEPT ![mem[p].mine] = "lock"]
          /\ UNCHANGED <<owner, keeper, mem>> /\ pc'[p] = "hold"
          /\ \A q \in Pids : q # p => pc'[q] = pc[q]
      BY <1>1, <1>5 DEF Install
    <2>2. /\ mem[p].mine \in Inos /\ keeper[mem[p].mine] = p
          /\ owner[mem[p].mine] = p /\ place[mem[p].mine] = "staging"
      BY <1>5 DEF Install, Placed, OwnStaging
    <2>3. LockInPlace' /\ LockIsOwned'
      BY <1>1, <1>5, <2>1, <2>2 DEF Placed, LockInPlace, LockIsOwned
    <2>4. OwnStaging' /\ OwnStale'
      BY <1>1, <2>1, <2>2 DEF Placed, OwnStaging, OwnStale
    <2> QED
      BY <2>3, <2>4 DEF Placed
  <1>6. ASSUME NEW p \in Pids, Move(p) \/ Release(p) PROVE Placed'
    <2>1. CASE lock = None
      <3>1. UNCHANGED <<disk, mem>> /\ \A q \in Pids : q # p => pc'[q] = pc[q]
        BY <1>1, <1>6, <2>1 DEF Move, Release, MovedAway
      <3>2. pc'[p] \in {"wait", "ended"}
        BY <1>1, <1>6, <2>1 DEF Move, Release, MovedAway
      <3> QED
        BY <3>1, <3>2 DEF disk, Placed, LockInPlace, LockIsOwned, OwnStaging, OwnStale
    <2>2. CASE lock # None
      <3>1. /\ MovedAway(p) /\ pc'[p] \in {"clear", "clearRelease"}
            /\ mem' = [mem EXCEPT ![p] = [Blank EXCEPT !.mine = lock]]
            /\ \A q \in Pids : q # p => pc'[q] = pc[q]
        BY <1>1, <1>6, <2>2 DEF Move, Release, MovedAway
      <3>2. mem'[p].mine = lock /\ \A q \in Pids : q # p => mem'[q] = mem[q]
        BY <1>1, <3>1 DEF Blank
      <3>3. LockInPlace' /\ LockIsOwned'
        BY <1>1, <2>2, <3>1 DEF MovedAway, Placed, LockInPlace, LockIsOwned
      <3>4. OwnStaging' /\ OwnStale'
        BY <1>1, <2>2, <3>1, <3>2 DEF MovedAway, Placed, LockInPlace, OwnStaging, OwnStale
      <3> QED
        BY <3>3, <3>4 DEF Placed
    <2> QED
      BY <2>1, <2>2
  <1>7. ASSUME NEW p \in Pids, Clear(p) PROVE Placed'
    <2>1. \A q \in Pids : q # p => pc'[q] = pc[q] /\ mem'[q] = mem[q]
      BY <1>1, <1>7 DEF Clear
    <2>2. Freed({mem[p].mine}) /\ UNCHANGED lock /\ pc'[p] \in {"stage", "ended"}
      BY <1>1, <1>7 DEF Clear
    <2>3. \A q \in Pids : q # p /\ pc[q] \in {"look", "install", "clear", "clearRelease"} => mem[q].mine # mem[p].mine
      BY <1>7 DEF Clear, Placed, OwnStaging, OwnStale
    <2>4. place[mem[p].mine] = "stale"
      BY <1>7 DEF Clear, Placed, OwnStale
    <2> QED
      BY <2>1, <2>2, <2>3, <2>4, FreedPlaced
  <1>8. ASSUME NEW p \in Pids, Reconcile(p) PROVE Placed'
    <2> DEFINE set == {i \in Inos : place[i] \in {"staging", "stale"} /\ ~Alive(keeper[i])}
    <2>1. Freed(set) /\ UNCHANGED <<lock, mem>> /\ pc'[p] = "release"
          /\ \A q \in Pids : q # p => pc'[q] = pc[q]
      BY <1>1, <1>8 DEF Reconcile
    <2>2. \A q \in Pids : pc[q] \in {"look", "install", "clear", "clearRelease"} => mem[q].mine \notin set
      BY DEF Placed, OwnStaging, OwnStale, Alive
    <2> HIDE DEF set
    <2>3. \A i \in Inos : i \in set => place[i] \in {"staging", "stale"}
      BY DEF set
    <2> QED
      BY <2>1, <2>2, <2>3, FreedPlaced
  <1>9. ASSUME UNCHANGED <<lock, place, owner, keeper>>,
               \A q \in Pids : pc'[q] \in {"look", "install", "clear", "clearRelease"} =>
                   pc'[q] = pc[q] /\ mem'[q] = mem[q]
        PROVE  Placed'
    BY <1>9 DEF Placed, LockInPlace, LockIsOwned, OwnStaging, OwnStale
  <1>10. ASSUME NEW p \in Pids, \/ Call(p) \/ Stat(p) \/ ReadPid(p) \/ Probe(p) \/ Claim(p) \/ StatAgain(p)
               \/ ReadAgain(p) \/ Judge(p) \/ Drop(p) \/ Wait(p) \/ Busy(p) \/ Die(p)
         PROVE  Placed'
    <2>1. UNCHANGED <<lock, place, owner, keeper>>
      BY <1>10 DEF Call, Stat, ReadPid, Probe, Claim, StatAgain, ReadAgain, Judge, Drop, Wait, Busy, Die, disk
    <2>2. pc'[p] \notin {"look", "install", "clear", "clearRelease"}
      <3>1. CASE Call(p) \/ Stat(p) \/ ReadPid(p) \/ Probe(p) \/ Claim(p)
        BY <1>1, <3>1 DEF Call, Stat, ReadPid, Probe, Claim
      <3>2. CASE StatAgain(p) \/ ReadAgain(p) \/ Judge(p) \/ Drop(p) \/ Wait(p) \/ Busy(p) \/ Die(p)
        BY <1>1, <3>2 DEF StatAgain, ReadAgain, Judge, Drop, Wait, Busy, Die
      <3> QED
        BY <1>10, <3>1, <3>2
    <2>3. \A q \in Pids : q # p => pc'[q] = pc[q] /\ mem'[q] = mem[q]
      BY <1>10, OthersWait DEF Step, Create, Reclaim
    <2> QED
      BY <1>9, <2>1, <2>2, <2>3
  <1>11. CASE Grow \/ UNCHANGED vars
    BY <1>9, <1>11 DEF Grow, vars
  <1> QED
    BY <1>2, <1>3, <1>4, <1>5, <1>6, <1>7, <1>8, <1>10, <1>11
    DEF Next, Step, Create, Reclaim

-----------------------------------------------------------------------------
(* What a step is to the lock, and to a reclaimer that goes on reclaiming. *)

Same == lock' = lock /\ (lock # None => owner'[lock] = owner[lock] /\ tokens'[lock] = tokens[lock])
Leaves(p) == lock # None /\ lock' = None /\ pc[p] \in {"move", "release"}
             /\ pc'[p] \in {"clear", "clearRelease"}
Installs(p) ==
    /\ lock = None /\ pc[p] = "install" /\ pc'[p] = "hold"
    /\ lock' = mem[p].mine /\ owner' = owner
Takes(p) ==
    /\ lock # None /\ lock' = lock /\ owner' = owner
    /\ pc[p] = "claim" /\ mem[p].name \notin DOMAIN tokens[lock]
    /\ tokens'[lock] = [t \in DOMAIN tokens[lock] \cup {mem[p].name} |->
                            IF t = mem[p].name THEN p ELSE tokens[lock][t]]
Drops(p) ==
    /\ lock # None /\ lock' = lock /\ owner' = owner
    /\ pc[p] = "drop" /\ pc'[p] = "wait"
    /\ tokens'[lock] = [t \in DOMAIN tokens[lock] \ {mem[p].name} |-> tokens[lock][t]]

LEMMA LockSteps ==
  ASSUME TypeOK, Placed, DOMAIN tokens = Inos, [Next]_vars
  PROVE  Same \/ \E p \in Pids : Leaves(p) \/ Installs(p) \/ Takes(p) \/ Drops(p)
  <1>1. /\ lock \in Inos \cup {None} /\ None \notin Inos
        /\ place \in [Inos -> {"free", "staging", "lock", "stale"}]
        /\ owner \in [Inos -> Pid]
        /\ pc \in [Pids -> Labels] /\ mem \in [Pids -> Memory]
    BY NoneAssumption DEF TypeOK
  <1> USE DEF Goto
  <1>2. ASSUME NEW set, Freed(set), UNCHANGED lock, \A i \in Inos : i \in set => place[i] # "lock"
        PROVE  Same
    BY <1>1, <1>2 DEF Freed, Same, Placed, LockInPlace
  <1>3. ASSUME NEW p \in Pids, Look(p) \/ Clear(p) \/ Reconcile(p) \/ (Install(p) /\ lock # None) PROVE Same
    <2>1. CASE UNCHANGED disk
      BY <2>1 DEF disk, Same
    <2>2. CASE pc[p] \in {"look", "install", "clear", "clearRelease"}
      <3>1. place[mem[p].mine] # "lock"
        BY <2>2 DEF Placed, OwnStaging, OwnStale
      <3> QED
        BY <1>2, <1>3, <2>1, <2>2, <3>1 DEF Look, Clear, Reconcile, Install
    <2>3. CASE Reconcile(p)
      BY <1>2, <2>3 DEF Reconcile
    <2> QED
      BY <1>3, <2>2, <2>3 DEF Look, Clear, Install
  <1>4. ASSUME NEW p \in Pids, Install(p), lock = None PROVE Installs(p)
    BY <1>1, <1>4 DEF Install, Installs
  <1>5. ASSUME NEW p \in Pids, Move(p) \/ Release(p) PROVE Same \/ Leaves(p)
    BY <1>1, <1>5 DEF Move, Release, MovedAway, Leaves, Same, disk
  <1>6. ASSUME NEW p \in Pids, Claim(p) PROVE Same \/ Takes(p)
    BY <1>1, <1>6 DEF Claim, Same, Takes, disk
  <1>7. ASSUME NEW p \in Pids, Drop(p) PROVE Same \/ Drops(p)
    BY <1>1, <1>7 DEF Drop, Same, Drops
  <1>8. ASSUME NEW p \in Pids, Stage(p) PROVE Same
    BY <1>1, <1>8 DEF Stage, Same, Placed, LockInPlace
  <1>9. ASSUME NEW p \in Pids, Call(p) \/ Stat(p) \/ ReadPid(p) \/ Probe(p) \/ StatAgain(p)
               \/ ReadAgain(p) \/ Judge(p) \/ Wait(p) \/ Busy(p) \/ Die(p)
         PROVE  Same
    BY <1>9 DEF Call, Stat, ReadPid, Probe, StatAgain, ReadAgain, Judge, Wait, Busy, Die, disk, Same
  <1>10. CASE Grow \/ UNCHANGED vars
    BY <1>10 DEF Grow, vars, Same
  <1> QED
    BY <1>3, <1>4, <1>5, <1>6, <1>7, <1>8, <1>9, <1>10 DEF Next, Step, Create, Reclaim

LEMMA GoneForGood ==
  ASSUME TypeOK, [Next]_vars
  PROVE  \A q \in Pids : pc[q] = "gone" => pc'[q] = "gone"
  <1>1. ASSUME NEW p \in Pids, Step(p) \/ Busy(p) \/ Die(p) PROVE pc[p] # "gone"
    <2>1. CASE Create(p) \/ Wait(p) \/ Reconcile(p) \/ Release(p) \/ Busy(p) \/ Die(p)
      BY <2>1 DEF Create, Call, Stage, Look, Install, Wait, Reconcile, Release, Busy, Die
    <2>2. CASE Reclaim(p)
      BY <2>2 DEF Reclaim, Stat, ReadPid, Probe, Claim, StatAgain, ReadAgain, Judge, Drop, Move, Clear
    <2> QED
      BY <1>1, <2>1, <2>2 DEF Step
  <1> QED
    BY <1>1, OthersWait DEF Next, Grow, vars

Keeps(q) ==
    /\ pc[q] \in Claiming /\ mem'[q].pid = mem[q].pid /\ mem'[q].name = mem[q].name
    /\ pc'[q] \in Claimed => pc[q] \in Claimed \/ Takes(q)
Begins(q) ==
    /\ pc[q] = "probe" /\ pc'[q] = "claim" /\ UNCHANGED disk /\ Abandoned(mem[q])
    /\ mem'[q].pid = mem[q].pid /\ mem'[q].name = <<mem[q].pid>>
    /\ \A r \in Pids : r # q => pc'[r] = pc[r] /\ mem'[r] = mem[r]
Lengthens(q) ==
    /\ pc[q] = "claim" /\ pc'[q] = "claim" /\ UNCHANGED disk
    /\ lock # None /\ mem[q].name \in DOMAIN tokens[lock] /\ ~Alive(tokens[lock][mem[q].name])
    /\ mem'[q].pid = mem[q].pid
    /\ mem'[q].name = Append(mem[q].name, tokens[lock][mem[q].name])
    /\ \A r \in Pids : r # q => pc'[r] = pc[r] /\ mem'[r] = mem[r]

LEMMA MindSteps ==
  ASSUME TypeOK, DOMAIN tokens = Inos, [Next]_vars, NEW q \in Pids, pc'[q] \in Claiming
  PROVE  Keeps(q) \/ Begins(q) \/ Lengthens(q)
  <1>1. pc \in [Pids -> Labels] /\ mem \in [Pids -> Memory] /\ mem[q] \in Memory
        /\ lock \in Inos \cup {None} /\ DOMAIN tokens = Inos
    BY DEF TypeOK
  <1> USE DEF Claiming, Claimed, Goto, Remember
  <1>2. CASE pc'[q] = pc[q] /\ mem'[q] = mem[q]
    BY <1>2 DEF Keeps
  <1>3. CASE Create(q) \/ Wait(q) \/ Reconcile(q) \/ Release(q) \/ Busy(q) \/ Die(q)
    BY <1>1, <1>3 DEF Create, Call, Stage, Look, Install, Wait, Reconcile, Release, Busy, Die
  <1>4. CASE Stat(q) \/ ReadPid(q) \/ Drop(q) \/ Clear(q)
    BY <1>1, <1>4 DEF Stat, ReadPid, Drop, Clear
  <1>5. CASE Move(q)
    BY <1>1, <1>5 DEF Move
  <1>6. CASE Probe(q)
    <2>1. pc[q] = "probe" /\ pc'[q] = "claim" /\ UNCHANGED disk /\ Abandoned(mem[q])
      BY <1>1, <1>6 DEF Probe
    <2>2. mem'[q].pid = mem[q].pid /\ mem'[q].name = <<mem[q].pid>>
      BY <1>1, <1>6 DEF Probe, Memory
    <2> QED
      BY <1>1, <1>6, <2>1, <2>2, OthersWait DEF Begins, Step, Reclaim
  <1>7. CASE Claim(q)
    <2>1. CASE UNCHANGED mem /\ pc[q] = pc'[q]
      BY <2>1, <1>2
    <2>2. CASE UNCHANGED mem /\ pc'[q] = "statAgain"
      <3>1. Takes(q)
        BY <1>1, <1>7, <2>2 DEF Claim, Takes
      <3> QED
        BY <2>2, <3>1 DEF Keeps, Takes
    <2>3. CASE mem' # mem
      <3>1. /\ pc[q] = "claim" /\ pc' = pc /\ UNCHANGED disk
            /\ lock # None /\ mem[q].name \in DOMAIN tokens[lock] /\ ~Alive(tokens[lock][mem[q].name])
            /\ mem' = [mem EXCEPT ![q] = [mem[q] EXCEPT !.name = Append(mem[q].name, tokens[lock][mem[q].name])]]
        BY <1>1, <1>7, <2>3 DEF Claim
      <3>2. mem'[q].pid = mem[q].pid /\ mem'[q].name = Append(mem[q].name, tokens[lock][mem[q].name])
        BY <1>1, <3>1 DEF Memory
      <3> QED
        BY <1>1, <3>1, <3>2 DEF Lengthens
    <2> QED
      BY <1>1, <1>7, <2>1, <2>2, <2>3 DEF Claim
  <1>8. CASE StatAgain(q)
    BY <1>1, <1>8 DEF StatAgain, Keeps, Memory
  <1>9. CASE ReadAgain(q)
    BY <1>1, <1>9 DEF ReadAgain, Keeps, Memory
  <1>10. CASE Judge(q)
    BY <1>1, <1>10 DEF Judge, Keeps
  <1> QED
    BY <1>2, <1>3, <1>4, <1>5, <1>6, <1>7, <1>8, <1>9, <1>10, OthersWait
    DEF Next, Step, Reclaim, Grow, vars

-----------------------------------------------------------------------------
(* What a reclaimer remembers.                                             *)

(* A lock that was not there before is that of a live process.             *)
LEMMA StillHere ==
  ASSUME TypeOK, Placed, Remembered, DOMAIN tokens = Inos, [Next]_vars,
         NEW q \in Pids, pc[q] \in Claiming, mem'[q].pid = mem[q].pid, Here(q)'
  PROVE  Here(q) /\ lock' = lock /\ owner'[lock] = owner[lock]
  <1>1. mem[q].pid \in Pid /\ None \notin Pids
    BY NoneAssumption DEF TypeOK, Memory
  <1>2. ASSUME NEW p \in Pids, Installs(p) PROVE FALSE
    BY <1>1, <1>2 DEF Installs, Here, Placed, OwnStaging, Remembered, SawDead, Alive
  <1> QED
    BY <1>2, LockSteps DEF Same, Leaves, Takes, Drops, Here

LEMMA FirstOfLonger ==
  ASSUME NEW S, NEW n \in Seq(S), n # <<>>, NEW x \in S
  PROVE  Append(n, x) # <<>> /\ Append(n, x)[1] = n[1]
  <1>1. Len(n) \in Nat /\ Len(n) # 0
    BY EmptySeq, LenProperties
  <1>2. Append(n, x)[1] = n[1] /\ Len(Append(n, x)) = Len(n) + 1
    BY <1>1, AppendProperties
  <1>3. Len(Append(n, x)) # 0
    BY <1>1, <1>2
  <1> QED
    BY <1>2, <1>3

LEMMA SawDeadKept ==
  ASSUME TypeOK, Remembered, DOMAIN tokens = Inos, [Next]_vars
  PROVE  SawDead'
  <1> SUFFICES ASSUME NEW q \in Pids, pc'[q] \in Claiming
               PROVE  /\ mem'[q].pid = None \/ pc'[mem'[q].pid] = "gone"
                      /\ mem'[q].name # <<>> /\ mem'[q].name[1] = mem'[q].pid
    BY DEF SawDead, Alive
  <1>1. mem[q] \in Memory
    BY DEF TypeOK
  <1>2. mem[q].pid \in Pid /\ mem[q].name \in Seq(Pid)
    BY <1>1 DEF Memory
  <1>3. mem[q].pid = None \/ ~Alive(mem[q].pid) => mem[q].pid = None \/ pc'[mem[q].pid] = "gone"
    BY <1>2, GoneForGood DEF Alive, Pid
  <1>4. CASE Keeps(q)
    <2>1. /\ mem[q].pid = None \/ ~Alive(mem[q].pid)
          /\ mem[q].name # <<>> /\ mem[q].name[1] = mem[q].pid
      BY <1>4 DEF Keeps, Remembered, SawDead
    <2> QED
      BY <1>3, <1>4, <2>1 DEF Keeps
  <1>5. CASE Begins(q)
    <2>1. mem[q].pid = None \/ ~Alive(mem[q].pid)
      BY <1>5 DEF Begins, Abandoned
    <2>2. mem'[q].name = <<mem[q].pid>> /\ mem'[q].pid = mem[q].pid
      BY <1>5 DEF Begins
    <2>3. <<mem[q].pid>> # <<>> /\ <<mem[q].pid>>[1] = mem[q].pid
      OBVIOUS
    <2> QED
      BY <1>3, <2>1, <2>2, <2>3
  <1>6. CASE Lengthens(q)
    <2> DEFINE t == tokens[lock][mem[q].name]
    <2>1. mem'[q].pid = mem[q].pid /\ mem'[q].name = Append(mem[q].name, t)
          /\ lock # None /\ mem[q].name \in DOMAIN tokens[lock] /\ pc[q] \in Claiming
      BY <1>6 DEF Lengthens, Claiming
    <2>2. t \in Pid
      BY <2>1 DEF TypeOK, Pid
    <2>3. /\ mem[q].pid = None \/ ~Alive(mem[q].pid)
          /\ mem[q].name # <<>> /\ mem[q].name[1] = mem[q].pid
      BY <2>1 DEF Remembered, SawDead
    <2> HIDE DEF t
    <2>4. Append(mem[q].name, t) # <<>> /\ Append(mem[q].name, t)[1] = mem[q].name[1]
      BY <1>2, <2>2, <2>3, FirstOfLonger
    <2> QED
      BY <1>3, <2>1, <2>3, <2>4
  <1> QED
    BY <1>4, <1>5, <1>6, MindSteps

(* Only a free inode is staged.                                            *)
LEMMA StagedAnew ==
  ASSUME TypeOK, Placed, DOMAIN tokens = Inos, [Next]_vars
  PROVE  \A i \in Inos : place'[i] = "staging" => place[i] \in {"staging", "free"}
  <1>1. lock \in Inos \cup {None} /\ place \in [Inos -> {"free", "staging", "lock", "stale"}]
    BY DEF TypeOK
  <1>2. ASSUME NEW set, Freed(set)
        PROVE  \A i \in Inos : place'[i] = "staging" => place[i] \in {"staging", "free"}
    BY <1>1, <1>2 DEF Freed
  <1>3. ASSUME UNCHANGED place
        PROVE  \A i \in Inos : place'[i] = "staging" => place[i] \in {"staging", "free"}
    BY <1>1, <1>3
  <1>4. ASSUME NEW p \in Pids, Look(p) \/ Clear(p) \/ Reconcile(p)
        PROVE  (\E set : Freed(set)) \/ UNCHANGED place
    BY <1>4 DEF Look, Clear, Reconcile, disk
  <1>5. ASSUME NEW p \in Pids, Install(p)
        PROVE  \A i \in Inos : place'[i] = "staging" => place[i] \in {"staging", "free"}
    BY <1>1, <1>2, <1>5 DEF Install, Placed, OwnStaging
  <1>6. ASSUME NEW p \in Pids, Stage(p) \/ Move(p) \/ Release(p)
        PROVE  \A i \in Inos : place'[i] = "staging" => place[i] \in {"staging", "free"}
    BY <1>1, <1>6 DEF Stage, Move, Release, MovedAway, disk
  <1>7. ASSUME NEW p \in Pids, \/ Call(p) \/ Stat(p) \/ ReadPid(p) \/ Probe(p) \/ Claim(p) \/ StatAgain(p)
               \/ ReadAgain(p) \/ Judge(p) \/ Drop(p) \/ Wait(p) \/ Busy(p) \/ Die(p)
         PROVE  UNCHANGED place
    BY <1>7 DEF Call, Stat, ReadPid, Probe, Claim, StatAgain, ReadAgain, Judge, Drop, Wait, Busy, Die, disk
  <1>8. CASE Grow \/ UNCHANGED vars
    BY <1>3, <1>8 DEF Grow, vars
  <1> QED
    BY <1>2, <1>3, <1>4, <1>5, <1>6, <1>7, <1>8 DEF Next, Step, Create, Reclaim

Forgets(q) == mem'[q].ino = None /\ pc'[q] \notin Seen \cup {"readPid"}
Looks(q) ==
    /\ lock # None /\ UNCHANGED disk
    /\ mem'[q].ino = lock /\ pc'[q] = "readPid"
Reads(q) ==
    /\ pc[q] = "readPid" /\ pc'[q] = "probe" /\ UNCHANGED disk
    /\ mem'[q].ino = mem[q].ino /\ mem'[q].pid = PidThere
Recalls(q) ==
    /\ mem'[q].ino = mem[q].ino /\ mem'[q].pid = mem[q].pid
    /\ pc'[q] \in Seen => pc[q] \in Seen
    /\ pc'[q] = "readPid" => pc[q] = "readPid"

LEMMA SawSteps ==
  ASSUME TypeOK, DOMAIN tokens = Inos, [Next]_vars, NEW q \in Pids
  PROVE  Forgets(q) \/ Looks(q) \/ Reads(q) \/ Recalls(q)
  <1>1. /\ pc \in [Pids -> Labels] /\ mem \in [Pids -> Memory] /\ mem[q] \in Memory
        /\ lock \in Inos \cup {None} /\ None \notin Inos
    BY NoneAssumption DEF TypeOK
  <1>2. Blank.ino = None /\ \A i \in Inos \cup {None} : [Blank EXCEPT !.mine = i].ino = None
    BY DEF Blank
  <1> USE DEF Seen, Claiming, Claimed, Goto, Remember
  <1>3. CASE pc'[q] = pc[q] /\ mem'[q] = mem[q]
    BY <1>3 DEF Recalls
  <1>4. CASE Call(q) \/ Stage(q) \/ Look(q) \/ Install(q)
    <2>1. CASE Call(q)
      BY <1>1, <2>1 DEF Call, Recalls
    <2>2. CASE Stage(q)
      BY <1>1, <1>2, <2>2 DEF Stage, Forgets
    <2>3. CASE Look(q)
      BY <1>1, <1>2, <2>3 DEF Look, Forgets, Recalls
    <2>4. CASE Install(q)
      BY <1>1, <1>2, <2>4 DEF Install, Forgets, Recalls
    <2> QED
      BY <1>4, <2>1, <2>2, <2>3, <2>4
  <1>5. CASE Wait(q) \/ Reconcile(q) \/ Release(q) \/ Busy(q) \/ Die(q)
    BY <1>1, <1>2, <1>5 DEF Wait, Reconcile, Release, MovedAway, Busy, Die, Forgets, Recalls
  <1>6. CASE Clear(q) \/ Move(q)
    BY <1>1, <1>2, <1>6 DEF Clear, Move, MovedAway, Forgets, Recalls
  <1>7. CASE Stat(q)
    <2>1. CASE lock = None
      BY <1>1, <1>7, <2>1 DEF Stat, Recalls
    <2>2. CASE lock # None
      <3>1. mem' = [mem EXCEPT ![q] = [Blank EXCEPT !.ino = lock, !.old = old[lock]]] /\ UNCHANGED disk
        BY <1>7, <2>2 DEF Stat
      <3>2. mem'[q].ino = lock
        BY <1>1, <3>1 DEF Blank
      <3>3. pc'[q] = "readPid"
        BY <1>1, <1>7, <2>2 DEF Stat
      <3> QED
        BY <2>2, <3>1, <3>2, <3>3 DEF Looks
    <2> QED
      BY <2>1, <2>2
  <1>8. CASE ReadPid(q)
    BY <1>1, <1>8 DEF ReadPid, Reads, Memory
  <1>9. CASE Probe(q)
    BY <1>1, <1>9 DEF Probe, Recalls, Memory
  <1>10. CASE Claim(q)
    <2>1. pc[q] = "claim" /\ pc'[q] # "readPid"
      BY <1>1, <1>10 DEF Claim
    <2>2. mem' = mem \/ \E n : mem' = [mem EXCEPT ![q] = [mem[q] EXCEPT !.name = n]]
      BY <1>10 DEF Claim
    <2>3. mem'[q].ino = mem[q].ino /\ mem'[q].pid = mem[q].pid
      BY <1>1, <2>2 DEF Memory
    <2> QED
      BY <2>1, <2>3 DEF Recalls
  <1>11. CASE StatAgain(q) \/ ReadAgain(q)
    BY <1>1, <1>11 DEF StatAgain, ReadAgain, Recalls, Memory
  <1>12. CASE Judge(q) \/ Drop(q)
    BY <1>1, <1>12 DEF Judge, Drop, Recalls
  <1> QED
    BY <1>3, <1>4, <1>5, <1>6, <1>7, <1>8, <1>9, <1>10, <1>11, <1>12, OthersWait
    DEF Next, Step, Create, Reclaim, Grow, vars

LEMMA SawDirectoryKept ==
  ASSUME TypeOK, Placed, Remembered, DOMAIN tokens = Inos, [FreshNext]_vars
  PROVE  SawDirectory'
  <1>1. [Next]_vars /\ (FreshInodes \/ UNCHANGED vars)
    BY DEF FreshNext
  <1> SUFFICES ASSUME NEW q \in Pids
               PROVE  /\ mem'[q].ino # None => place'[mem'[q].ino] # "staging"
                      /\ pc'[q] \in Seen \cup {"readPid"} => mem'[q].ino # None
                      /\ pc'[q] \in Seen /\ lock' = mem'[q].ino => mem'[q].pid = owner'[lock']
    BY DEF SawDirectory
  <1>2. /\ mem[q].ino \in Inos \cup {None} /\ None \notin Inos /\ lock \in Inos \cup {None}
        /\ place \in [Inos -> {"free", "staging", "lock", "stale"}]
    BY NoneAssumption DEF TypeOK, Memory
  <1>3. /\ mem[q].ino # None => place[mem[q].ino] # "staging"
        /\ pc[q] \in Seen \cup {"readPid"} => mem[q].ino # None
        /\ pc[q] \in Seen /\ lock = mem[q].ino => mem[q].pid = owner[lock]
    BY DEF Remembered, SawDirectory
  <1>4. mem[q].ino # None => place'[mem[q].ino] # "staging"
    <2>1. CASE FreshInodes
      <3>1. ASSUME mem[q].ino # None, place'[mem[q].ino] = "staging" PROVE FALSE
        <4>1. place[mem[q].ino] = "free"
          BY <1>1, <1>2, <1>3, <3>1, StagedAnew
        <4> QED
          BY <1>2, <2>1, <3>1, <4>1 DEF FreshInodes
      <3> QED
        BY <3>1
    <2>2. CASE UNCHANGED vars
      BY <1>3, <2>2 DEF vars
    <2> QED
      BY <1>1, <2>1, <2>2
  <1>5. ASSUME lock' = mem[q].ino, mem[q].ino # None
        PROVE  lock = mem[q].ino /\ owner'[lock] = owner[lock]
    <2>1. ASSUME NEW p \in Pids, Installs(p) PROVE FALSE
      <3>1. place[mem[p].mine] = "staging"
        BY <2>1 DEF Installs, Placed, OwnStaging
      <3> QED
        BY <1>3, <1>5, <2>1, <3>1 DEF Installs
    <2> QED
      BY <1>1, <1>5, <2>1, LockSteps DEF Same, Leaves, Takes, Drops
  <1>6. CASE Forgets(q)
    BY <1>6 DEF Forgets
  <1>7. CASE Looks(q)
    <2>1. place'[lock] = "lock"
      BY <1>2, <1>7 DEF Looks, disk, Placed, LockInPlace
    <2> QED
      BY <1>7, <2>1 DEF Looks, Seen, Claiming, Claimed
  <1>8. CASE Reads(q)
    BY <1>3, <1>4, <1>8 DEF Reads, PidThere, disk
  <1>9. CASE Recalls(q)
    BY <1>3, <1>4, <1>5, <1>9 DEF Recalls
  <1> QED
    BY <1>1, <1>6, <1>7, <1>8, <1>9, SawSteps

-----------------------------------------------------------------------------
(* Tokens.                                                                 *)

LEMMA PrefixIs ==
  ASSUME NEW S, NEW m \in Seq(S), NEW n \in Seq(S), Len(m) <= Len(n), Len(m) \in Nat, Len(n) \in Nat,
         \A k \in 1..Len(m) : m[k] = n[k]
  PROVE  SubSeq(n, 1, Len(m)) = m
  <1>1. \A i \in 1..Len(m) : n[i] \in S
    BY ElementOfSeq
  <1>2. /\ SubSeq(n, 1, Len(m)) \in Seq(S) /\ Len(SubSeq(n, 1, Len(m))) = Len(m)
        /\ \A i \in 1..Len(m) : SubSeq(n, 1, Len(m))[i] = n[i]
    BY <1>1, SubSeqProperties
  <1> QED
    BY <1>2, SeqEqual

(* Two reclaimers with a token of the lock, of which they remember the     *)
(* owner, are one.                                                         *)
LEMMA OneReclaimer ==
  ASSUME TypeOK, SawDead, TokenInv, NEW p \in Pids, NEW q \in Pids,
         pc[p] \in Claimed, pc[q] \in Claimed, Here(p), Here(q)
  PROVE  p = q
  <1> DEFINE m == mem[p].name
             n == mem[q].name
  <1>1. m \in Seq(Pid) /\ n \in Seq(Pid) /\ Len(m) \in Nat /\ Len(n) \in Nat
    BY LenProperties DEF TypeOK, Memory
  <1>2. tokens[lock][m] = p /\ tokens[lock][n] = q
    BY DEF TokenInv, TokenIsThere
  <1>3. \A k \in 1..Len(m) : k <= Len(n) => m[k] = n[k]
    BY DEF TokenInv, Comparable, Claiming
  <1>4. CASE Len(m) = Len(n)
    <2>1. m = n
      BY <1>1, <1>3, <1>4, SeqEqual
    <2> QED
      BY <1>2, <2>1
  <1>5. CASE Len(m) < Len(n) /\ Len(m) # 0
    <2>1. SubSeq(n, 1, Len(m)) = m
      BY <1>1, <1>3, <1>5, PrefixIs
    <2>2. Len(m) \in 1..(Len(n) - 1)
      BY <1>1, <1>5
    <2>3. tokens[lock][SubSeq(n, 1, Len(m))] = n[Len(m) + 1] /\ ~Alive(n[Len(m) + 1])
      BY <2>2 DEF TokenInv, Supersedes, Claiming
    <2>4. ~Alive(tokens[lock][m])
      BY <2>1, <2>3
    <2> QED
      BY <1>2, <2>4 DEF Alive, Claimed
  <1>6. CASE Len(n) < Len(m) /\ Len(n) # 0
    <2>1. SubSeq(m, 1, Len(n)) = n
      BY <1>1, <1>3, <1>6, PrefixIs
    <2>2. Len(n) \in 1..(Len(m) - 1)
      BY <1>1, <1>6
    <2>3. tokens[lock][SubSeq(m, 1, Len(n))] = m[Len(n) + 1] /\ ~Alive(m[Len(n) + 1])
      BY <2>2 DEF TokenInv, Supersedes, Claiming
    <2>4. ~Alive(tokens[lock][n])
      BY <2>1, <2>3
    <2> QED
      BY <1>2, <2>4 DEF Alive, Claimed
  <1>7. Len(m) # 0 /\ Len(n) # 0
    BY <1>1, EmptySeq DEF SawDead, Claiming
  <1> QED
    BY <1>1, <1>4, <1>5, <1>6, <1>7

LEMMA TokenIsThereKept ==
  ASSUME TypeOK, Placed, Remembered, TokenInv, [Next]_vars
  PROVE  TokenIsThere'
  <1> SUFFICES ASSUME NEW q \in Pids, pc'[q] \in Claimed, Here(q)'
               PROVE  /\ mem'[q].name \in DOMAIN tokens'[lock']
                      /\ tokens'[lock'][mem'[q].name] = q
    BY DEF TokenIsThere
  <1>1. Keeps(q)
    BY MindSteps DEF TokenInv, Claiming, Claimed, Begins, Lengthens
  <1>2. Here(q) /\ lock' = lock /\ lock # None
    BY <1>1, StillHere DEF Keeps, TokenInv, Here
  <1>3. CASE Takes(q)
    BY <1>1, <1>2, <1>3 DEF Takes, Keeps
  <1>4. CASE pc[q] \in Claimed
    <2>1. mem[q].name \in DOMAIN tokens[lock] /\ tokens[lock][mem[q].name] = q
      BY <1>2, <1>4 DEF TokenInv, TokenIsThere
    <2>2. ASSUME NEW r \in Pids, Drops(r), mem[r].name = mem[q].name PROVE FALSE
      <3>1. pc[r] \in Claimed /\ pc'[r] \notin Claimed
        BY <2>2 DEF Drops, Claimed
      <3>2. mem[r].pid = mem[q].pid
        BY <1>4, <2>2, <3>1 DEF Remembered, SawDead, Claiming
      <3>3. Here(r)
        BY <1>2, <3>2 DEF Here
      <3>4. tokens[lock][mem[r].name] = r
        BY <3>1, <3>3 DEF TokenInv, TokenIsThere
      <3> QED
        BY <2>1, <2>2, <3>1, <3>4
    <2>3. tokens'[lock] = tokens[lock] \/ \E r \in Pids : Takes(r) \/ Drops(r)
      BY <1>2, LockSteps DEF TokenInv, Same, Leaves, Installs
    <2>4. mem[q].name \in DOMAIN tokens'[lock] /\ tokens'[lock][mem[q].name] = q
      BY <2>1, <2>2, <2>3 DEF Takes, Drops
    <2> QED
      BY <1>1, <1>2, <2>4 DEF Keeps
  <1> QED
    BY <1>1, <1>3, <1>4 DEF Keeps

(* A token of a dead reclaimer that another one's name goes on from stays. *)
LEMMA PrefixStays ==
  ASSUME TypeOK, Placed, Remembered, TokenInv, [Next]_vars, NEW q \in Pids, pc[q] \in Claiming,
         Here(q), lock' = lock, NEW k \in 1..(Len(mem[q].name) - 1)
  PROVE  /\ SubSeq(mem[q].name, 1, k) \in DOMAIN tokens'[lock]
         /\ tokens'[lock][SubSeq(mem[q].name, 1, k)] = mem[q].name[k + 1]
         /\ mem[q].name[k + 1] \in Pids /\ pc'[mem[q].name[k + 1]] = "gone"
  <1> DEFINE n == mem[q].name
             x == SubSeq(n, 1, k)
  <1>1. n \in Seq(Pid) /\ Len(n) \in Nat /\ lock # None
    BY LenProperties DEF TypeOK, Memory, Here
  <1>2. x \in DOMAIN tokens[lock] /\ tokens[lock][x] = n[k + 1] /\ n[k + 1] \in Pids /\ ~Alive(n[k + 1])
    BY DEF TokenInv, Supersedes
  <1>3. pc'[n[k + 1]] = "gone"
    BY <1>2, GoneForGood DEF Alive
  <1>4. ASSUME NEW r \in Pids, Drops(r), mem[r].name = x PROVE FALSE
    <2>1. x[1] = n[1]
      <3>1. \A i \in 1..k : n[i] \in Pid
        BY <1>1, ElementOfSeq
      <3> QED
        BY <1>1, <3>1, SubSeqProperties
    <2>2. pc[r] \in Claimed /\ pc[r] \in Claiming /\ pc[r] = "drop"
      BY <1>4 DEF Drops, Claimed, Claiming
    <2>3. Here(r)
      BY <1>4, <2>1, <2>2 DEF Remembered, SawDead, Here
    <2>4. tokens[lock][mem[r].name] = r
      BY <2>2, <2>3 DEF TokenInv, TokenIsThere
    <2> QED
      BY <1>2, <1>4, <2>2, <2>4 DEF Alive
  <1> HIDE DEF x
  <1>5. tokens'[lock] = tokens[lock] \/ \E r \in Pids : Takes(r) \/ Drops(r)
    BY <1>1, LockSteps DEF TokenInv, Same, Leaves, Installs
  <1>6. x \in DOMAIN tokens'[lock] /\ tokens'[lock][x] = tokens[lock][x]
    BY <1>2, <1>4, <1>5 DEF Takes, Drops
  <1> QED
    BY <1>2, <1>3, <1>6 DEF x

LEMMA PrefixOfLonger ==
  ASSUME NEW S, NEW n \in Seq(S), NEW x \in S, NEW k \in 1..Len(n)
  PROVE  /\ SubSeq(Append(n, x), 1, k) = SubSeq(n, 1, k)
         /\ SubSeq(n, 1, Len(n)) = n /\ Append(n, x)[k] = n[k]
         /\ Append(n, x)[Len(n) + 1] = x /\ Len(Append(n, x)) = Len(n) + 1
  <1>1. Len(n) \in Nat
    BY LenProperties
  <1>2. /\ Append(n, x) \in Seq(S) /\ Len(Append(n, x)) = Len(n) + 1
        /\ \A i \in 1..Len(n) : Append(n, x)[i] = n[i]
        /\ Append(n, x)[Len(n) + 1] = x
    BY AppendProperties
  <1>3. \A i \in 1..k : n[i] \in S
    BY <1>1, ElementOfSeq
  <1>4. /\ SubSeq(n, 1, k) \in Seq(S) /\ Len(SubSeq(n, 1, k)) = k
        /\ \A i \in 1..k : SubSeq(n, 1, k)[i] = n[i]
    BY <1>1, <1>3, SubSeqProperties
  <1>5. SubSeq(Append(n, x), 1, Len(SubSeq(n, 1, k))) = SubSeq(n, 1, k)
    <2>1. \A i \in 1..Len(SubSeq(n, 1, k)) : SubSeq(n, 1, k)[i] = Append(n, x)[i]
      BY <1>1, <1>2, <1>4
    <2>2. /\ Len(SubSeq(n, 1, k)) <= Len(Append(n, x))
          /\ Len(SubSeq(n, 1, k)) \in Nat /\ Len(Append(n, x)) \in Nat
      BY <1>1, <1>2, <1>4
    <2> QED
      BY <1>2, <1>4, <2>1, <2>2, PrefixIs
  <1>6. SubSeq(n, 1, Len(n)) = n
    BY <1>1, PrefixIs
  <1> QED
    BY <1>2, <1>4, <1>5, <1>6

LEMMA SupersedesKept ==
  ASSUME TypeOK, Placed, Remembered, TokenInv, [Next]_vars
  PROVE  Supersedes'
  <1> SUFFICES ASSUME NEW q \in Pids, pc'[q] \in Claiming, Here(q)',
                      NEW k \in 1..(Len(mem'[q].name) - 1)
               PROVE  /\ SubSeq(mem'[q].name, 1, k) \in DOMAIN tokens'[lock']
                      /\ tokens'[lock'][SubSeq(mem'[q].name, 1, k)] = mem'[q].name[k + 1]
                      /\ mem'[q].name[k + 1] \in Pids /\ pc'[mem'[q].name[k + 1]] = "gone"
    BY DEF Supersedes, Alive
  <1>1. CASE Begins(q)
    BY <1>1 DEF Begins
  <1>2. CASE Keeps(q)
    <2>1. Here(q) /\ lock' = lock /\ pc[q] \in Claiming /\ mem'[q].name = mem[q].name
      BY <1>2, StillHere DEF Keeps, TokenInv
    <2> QED
      BY <2>1, PrefixStays
  <1>3. CASE Lengthens(q)
    <2> DEFINE n == mem[q].name
               x == tokens[lock][n]
    <2>1. /\ Here(q) /\ lock' = lock /\ pc[q] \in Claiming /\ mem'[q].name = Append(n, x)
          /\ lock # None /\ n \in DOMAIN tokens[lock] /\ ~Alive(x) /\ tokens' = tokens
      BY <1>3, StillHere DEF Lengthens, TokenInv, Claiming, disk
    <2>2. n \in Seq(Pid) /\ x \in Pids /\ x \in Pid /\ Len(n) \in Nat
      BY <2>1, LenProperties DEF TypeOK, Memory, Pid
    <2>3. pc'[x] = "gone"
      BY <2>1, <2>2, GoneForGood DEF Alive
    <2>4. Len(Append(n, x)) = Len(n) + 1
      BY <2>2, AppendProperties
    <2> HIDE DEF x, n
    <2>5. k \in 1..Len(n)
      BY <2>1, <2>2, <2>4
    <2>6. /\ SubSeq(Append(n, x), 1, k) = SubSeq(n, 1, k) /\ SubSeq(n, 1, Len(n)) = n
          /\ Append(n, x)[Len(n) + 1] = x
      BY <2>2, <2>5, PrefixOfLonger
    <2>7. CASE k = Len(n)
      BY <2>1, <2>2, <2>3, <2>6, <2>7 DEF x
    <2>8. CASE k # Len(n)
      <3>1. k \in 1..(Len(n) - 1) /\ k + 1 \in 1..Len(n)
        BY <2>2, <2>5, <2>8
      <3>2. Append(n, x)[k + 1] = n[k + 1]
        BY <2>2, <3>1, PrefixOfLonger
      <3>3. /\ SubSeq(n, 1, k) \in DOMAIN tokens'[lock] /\ tokens'[lock][SubSeq(n, 1, k)] = n[k + 1]
            /\ n[k + 1] \in Pids /\ pc'[n[k + 1]] = "gone"
        BY <2>1, <3>1, PrefixStays DEF n
      <3> QED
        BY <2>1, <2>6, <3>2, <3>3
    <2> QED
      BY <2>7, <2>8
  <1> QED
    BY <1>1, <1>2, <1>3, MindSteps DEF TokenInv

(* The longer name is the next in line of the other reclaimer's, too.      *)
LEMMA LongerComparable ==
  ASSUME TypeOK, TokenInv, NEW q \in Pids, NEW r \in Pids, Lengthens(q), pc[r] \in Claiming,
         Here(q), Here(r), mem[q].name # <<>>,
         NEW k \in 1..(Len(mem[q].name) + 1), k <= Len(mem[r].name)
  PROVE  mem'[q].name[k] = mem[r].name[k]
  <1> DEFINE n == mem[q].name
             m == mem[r].name
             x == tokens[lock][n]
  <1>1. /\ mem'[q].name = Append(n, x) /\ lock # None /\ n \in DOMAIN tokens[lock]
        /\ pc[q] \in Claiming
    BY DEF Lengthens, Claiming
  <1>2. /\ n \in Seq(Pid) /\ m \in Seq(Pid) /\ x \in Pid
        /\ Len(n) \in Nat /\ Len(m) \in Nat /\ Len(n) # 0
    BY <1>1, LenProperties, EmptySeq DEF TypeOK, Memory, Pid
  <1>3. \A i \in 1..Len(n) : i <= Len(m) => n[i] = m[i]
    BY <1>1 DEF TokenInv, Comparable
  <1>4. CASE k \in 1..Len(n)
    <2>1. Append(n, x)[k] = n[k]
      BY <1>2, <1>4, AppendProperties
    <2> QED
      BY <1>1, <1>3, <1>4, <2>1
  <1>5. CASE k = Len(n) + 1
    <2>1. SubSeq(m, 1, Len(n)) = n
      BY <1>2, <1>3, <1>5, PrefixIs
    <2>2. Len(n) \in 1..(Len(m) - 1)
      BY <1>2, <1>5
    <2>3. tokens[lock][SubSeq(m, 1, Len(n))] = m[Len(n) + 1]
      BY <2>2 DEF TokenInv, Supersedes
    <2>4. Append(n, x)[Len(n) + 1] = x
      BY <1>2, AppendProperties
    <2> QED
      BY <1>1, <1>5, <2>1, <2>3, <2>4
  <1> HIDE DEF n
  <1>6. k \in 1..Len(n) \/ k = Len(n) + 1
    BY <1>2 DEF n
  <1> QED
    BY <1>4, <1>5, <1>6

LEMMA ComparableKept ==
  ASSUME TypeOK, Placed, Remembered, TokenInv, [Next]_vars
  PROVE  Comparable'
  <1> SUFFICES ASSUME NEW q \in Pids, NEW r \in Pids, pc'[q] \in Claiming, pc'[r] \in Claiming,
                      Here(q)', Here(r)', NEW k \in 1..Len(mem'[q].name), k <= Len(mem'[r].name)
               PROVE  mem'[q].name[k] = mem'[r].name[k]
    BY DEF Comparable
  <1>1. CASE k = 1
    <2>1. DOMAIN tokens = Inos
      BY DEF TokenInv
    <2>2. mem'[q].name[1] = mem'[q].pid /\ mem'[r].name[1] = mem'[r].pid
      BY <2>1, SawDeadKept DEF SawDead
    <2> QED
      BY <1>1, <2>2 DEF Here
  <1>2. CASE q = r
    BY <1>2
  <1>3. CASE Begins(q) \/ Begins(r)
    <2>1. mem'[q].name = <<mem[q].pid>> \/ mem'[r].name = <<mem[r].pid>>
      BY <1>3 DEF Begins
    <2>2. Len(<<mem[q].pid>>) = 1 /\ Len(<<mem[r].pid>>) = 1
      OBVIOUS
    <2>3. Len(mem'[q].name) = 1 \/ Len(mem'[r].name) = 1
      BY <2>1, <2>2
    <2> QED
      BY <1>1, <2>3
  <1>4. CASE ~Begins(q) /\ ~Begins(r) /\ q # r
    <2>1. (Keeps(q) \/ Lengthens(q)) /\ (Keeps(r) \/ Lengthens(r))
      BY <1>4, MindSteps DEF TokenInv
    <2>2. Here(q) /\ Here(r) /\ pc[q] \in Claiming /\ pc[r] \in Claiming
      BY <2>1, StillHere DEF Keeps, Lengthens, TokenInv, Claiming
    <2>3. /\ mem[q].name \in Seq(Pid) /\ Len(mem[q].name) \in Nat /\ mem[q].name # <<>>
          /\ mem[r].name \in Seq(Pid) /\ Len(mem[r].name) \in Nat /\ mem[r].name # <<>>
      BY <2>2, LenProperties DEF TypeOK, Memory, Remembered, SawDead
    <2>4. ASSUME NEW u \in Pids, NEW v \in Pids, u # v, Lengthens(u)
          PROVE  mem'[v].name = mem[v].name /\ (Here(u) => Len(mem'[u].name) = Len(mem[u].name) + 1)
      <3>1. /\ mem'[v] = mem[v] /\ mem'[u].name = Append(mem[u].name, tokens[lock][mem[u].name])
            /\ lock # None /\ mem[u].name \in DOMAIN tokens[lock]
        BY <2>4 DEF Lengthens
      <3>2. mem[u].name \in Seq(Pid) /\ tokens[lock][mem[u].name] \in Pid
        BY <3>1 DEF TypeOK, Memory, Pid
      <3> QED
        BY <3>1, <3>2, AppendProperties
    <2>5. CASE Lengthens(q)
      <3>1. mem'[r].name = mem[r].name /\ Len(mem'[q].name) = Len(mem[q].name) + 1
        BY <1>4, <2>2, <2>4, <2>5
      <3> QED
        BY <2>2, <2>3, <2>5, <3>1, LongerComparable
    <2>6. CASE Lengthens(r)
      <3>1. mem'[q].name = mem[q].name /\ Len(mem'[r].name) = Len(mem[r].name) + 1
        BY <1>4, <2>2, <2>4, <2>6
      <3>2. k \in 1..(Len(mem[r].name) + 1) /\ k <= Len(mem[q].name)
        BY <2>3, <3>1
      <3>3. mem'[r].name[k] = mem[q].name[k]
        BY <2>2, <2>3, <2>6, <3>2, LongerComparable
      <3> QED
        BY <3>1, <3>3
    <2>7. CASE Keeps(q) /\ Keeps(r)
      BY <2>2, <2>7 DEF Keeps, TokenInv, Comparable
    <2> QED
      BY <2>1, <2>5, <2>6, <2>7
  <1> QED
    BY <1>2, <1>3, <1>4

-----------------------------------------------------------------------------
(* The directory found again, and the holder's lock.                       *)

Under == {"readAgain", "judge", "move"}

LEMMA AgainSteps ==
  ASSUME TypeOK, [Next]_vars, NEW q \in Pids, pc'[q] \in Under
  PROVE  /\ mem'[q].ino = mem[q].ino
         /\ \/ /\ pc[q] \in Under /\ mem'[q].again = mem[q].again
               /\ pc'[q] = "move" /\ pc[q] # "move" => mem[q].again = mem[q].ino
            \/ pc[q] = "statAgain" /\ pc'[q] = "readAgain" /\ mem'[q].again = lock /\ lock' = lock
  <1>1. pc \in [Pids -> Labels] /\ mem \in [Pids -> Memory] /\ mem[q] \in Memory
    BY DEF TypeOK
  <1> USE DEF Under, Goto, Remember
  <1>2. CASE pc'[q] = pc[q] /\ mem'[q] = mem[q]
    BY <1>2
  <1>3. CASE Create(q) \/ Wait(q) \/ Reconcile(q) \/ Release(q) \/ Busy(q) \/ Die(q)
    BY <1>1, <1>3 DEF Create, Call, Stage, Look, Install, Wait, Reconcile, Release, Busy, Die
  <1>4. CASE Stat(q) \/ ReadPid(q) \/ Probe(q) \/ Claim(q) \/ Drop(q) \/ Clear(q) \/ Move(q)
    <2>1. CASE Stat(q) \/ ReadPid(q) \/ Probe(q)
      BY <1>1, <2>1 DEF Stat, ReadPid, Probe
    <2>2. CASE Claim(q)
      BY <1>1, <2>2 DEF Claim
    <2>3. CASE Drop(q) \/ Clear(q) \/ Move(q)
      BY <1>1, <2>3 DEF Drop, Clear, Move
    <2> QED
      BY <1>4, <2>1, <2>2, <2>3
  <1>5. CASE StatAgain(q)
    BY <1>1, <1>5 DEF StatAgain, Memory, disk
  <1>6. CASE ReadAgain(q)
    BY <1>1, <1>6 DEF ReadAgain, Memory
  <1>7. CASE Judge(q)
    BY <1>1, <1>7 DEF Judge
  <1> QED
    BY <1>2, <1>3, <1>4, <1>5, <1>6, <1>7, OthersWait DEF Next, Step, Reclaim, Grow, vars

(* The lock a reclaimer is about to move is that of the dead process.      *)
LEMMA MoverJudged ==
  ASSUME TypeOK, Placed, Remembered, FoundAgain, NEW r \in Pids, pc[r] = "move", lock # None
  PROVE  lock = mem[r].ino /\ Here(r) /\ owner[lock] \in Pids /\ ~Alive(owner[lock])
  <1>1. lock = mem[r].ino
    BY DEF FoundAgain
  <1>2. owner[lock] = mem[r].pid /\ (mem[r].pid = None \/ ~Alive(mem[r].pid))
    BY <1>1 DEF Remembered, SawDirectory, SawDead, Seen, Claiming, Claimed
  <1>3. owner[lock] \in Pids /\ None \notin Pids
    BY NoneAssumption DEF Placed, LockIsOwned
  <1> QED
    BY <1>1, <1>2, <1>3 DEF Here

LEMMA FoundAgainKept ==
  ASSUME IInv, [Next]_vars
  PROVE  FoundAgain'
  <1> USE DEF IInv
  <1> SUFFICES ASSUME NEW q \in Pids
               PROVE  /\ pc'[q] \in Under /\ mem'[q].again = mem'[q].ino => lock' = mem'[q].ino
                      /\ pc'[q] = "move" => mem'[q].again = mem'[q].ino
    BY DEF FoundAgain, Under
  <1>1. pc'[q] = "move" => mem'[q].again = mem'[q].ino
    BY AgainSteps DEF FoundAgain, Under
  <1>2. ASSUME pc'[q] \in Under, mem'[q].again = mem'[q].ino PROVE lock' = mem'[q].ino
    <2>1. CASE pc[q] = "statAgain"
      BY <1>2, <2>1, AgainSteps DEF Under
    <2>2. CASE pc[q] \in Under
      <3>1. mem'[q].ino = mem[q].ino /\ lock = mem[q].ino
        BY <1>2, <2>2, AgainSteps DEF FoundAgain, Under
      <3>2. pc[q] \in Claimed /\ pc[q] \in Claiming /\ pc[q] \in Seen
        BY <2>2 DEF Under, Claimed, Claiming, Seen
      <3>3. lock # None /\ owner[lock] = mem[q].pid /\ Here(q)
        BY <3>1, <3>2 DEF Remembered, SawDirectory, Here
      <3>4. mem[q].pid = None \/ ~Alive(mem[q].pid)
        BY <3>2 DEF Remembered, SawDead
      <3>5. ASSUME NEW r \in Pids, Leaves(r) PROVE FALSE
        <4>1. r # q
          BY <1>2, <3>5 DEF Leaves, Under
        <4>2. CASE pc[r] = "release"
          <5>1. owner[lock] = r
            BY <4>2 DEF Holds, Holding
          <5> QED
            BY <3>3, <3>4, <4>2, <5>1, NoneAssumption DEF Alive
        <4>3. CASE pc[r] = "move"
          <5>1. Here(r) /\ pc[r] \in Claimed
            BY <3>3, <4>3, MoverJudged DEF Claimed
          <5> QED
            BY <3>2, <3>3, <4>1, <5>1, OneReclaimer DEF Remembered
        <4> QED
          BY <3>5, <4>2, <4>3 DEF Leaves
      <3>6. lock' = lock
        BY <3>3, <3>5, LockSteps DEF TokenInv, Same, Installs, Takes, Drops
      <3> QED
        BY <3>1, <3>6
    <2> QED
      BY <1>2, <2>1, <2>2, AgainSteps
  <1> QED
    BY <1>1, <1>2

LEMMA HoldsKept ==
  ASSUME IInv, [Next]_vars
  PROVE  Holds'
  <1> USE DEF IInv
  <1> SUFFICES ASSUME NEW q \in Pids, pc'[q] \in Holding
               PROVE  lock' # None /\ owner'[lock'] = q
    BY DEF Holds
  <1>1. pc \in [Pids -> Labels] /\ None \notin Inos
    BY NoneAssumption DEF TypeOK
  <1>2. pc[q] \in Holding \/ (lock = None /\ Install(q))
    <2> USE DEF Holding, Goto
    <2>1. CASE pc'[q] = pc[q]
      BY <2>1
    <2>2. CASE Call(q) \/ Stage(q) \/ Look(q) \/ Install(q)
      BY <1>1, <2>2 DEF Call, Stage, Look, Install
    <2>3. CASE Wait(q) \/ Reconcile(q) \/ Release(q) \/ Busy(q) \/ Die(q)
      BY <1>1, <2>3 DEF Wait, Reconcile, Release, Busy, Die
    <2>4. CASE Reclaim(q)
      BY <1>1, <2>4 DEF Reclaim, Stat, ReadPid, Probe, Claim, StatAgain, ReadAgain, Judge, Drop, Move, Clear
    <2> QED
      BY <2>1, <2>2, <2>3, <2>4, OthersWait DEF Next, Step, Create, Grow, vars
  <1>3. CASE lock = None /\ Install(q)
    <2>1. lock' = mem[q].mine /\ owner' = owner
      BY <1>3 DEF Install
    <2>2. mem[q].mine \in Inos /\ owner[mem[q].mine] = q
      BY <1>3 DEF Install, Placed, OwnStaging
    <2> QED
      BY <1>1, <2>1, <2>2
  <1>4. CASE pc[q] \in Holding
    <2>1. lock # None /\ owner[lock] = q /\ Alive(q)
      BY <1>4 DEF Holds, Holding, Alive
    <2>2. ASSUME NEW r \in Pids, Leaves(r) PROVE FALSE
      <3>1. CASE pc[r] = "release"
        <4>1. r = q
          BY <2>1, <3>1 DEF Holds, Holding
        <4> QED
          BY <2>2, <4>1 DEF Leaves, Holding
      <3>2. CASE pc[r] = "move"
        BY <2>1, <3>2, MoverJudged
      <3> QED
        BY <2>2, <3>1, <3>2 DEF Leaves
    <2> QED
      BY <2>1, <2>2, LockSteps DEF TokenInv, Same, Installs, Takes, Drops
  <1> QED
    BY <1>2, <1>3, <1>4

-----------------------------------------------------------------------------
(* The invariant, and what follows from it.                                *)

LEMMA InvInit == Init => IInv
  <1> SUFFICES ASSUME Init PROVE IInv
    OBVIOUS
  <1>1. /\ lock = None /\ None \notin Inos
        /\ place = [i \in Inos |-> "free"] /\ tokens = [i \in Inos |-> NoTokens]
        /\ pc = [p \in Pids |-> "new"] /\ mem = [p \in Pids |-> Blank]
    BY NoneAssumption DEF Init
  <1>2. TypeOK
    BY BlankTyped, BoundsAssumption DEF Init, TypeOK, Pid, Labels, NoTokens
  <1>3. Placed
    BY <1>1 DEF Placed, LockInPlace, LockIsOwned, OwnStaging, OwnStale
  <1>4. Remembered
    <2>1. \A p \in Pids : pc[p] = "new" /\ mem[p].ino = None
      BY <1>1 DEF Blank
    <2> QED
      BY <2>1 DEF Remembered, SawDirectory, SawDead, Seen, Claiming, Claimed
  <1>5. TokenInv
    BY <1>1 DEF TokenInv, TokenIsThere, Supersedes, Comparable, Claiming, Claimed
  <1>6. FoundAgain /\ Holds
    BY <1>1 DEF FoundAgain, Holds, Holding
  <1> QED
    BY <1>2, <1>3, <1>4, <1>5, <1>6 DEF IInv

LEMMA InvKept == IInv /\ [FreshNext]_vars => IInv'
  <1> SUFFICES ASSUME IInv, [FreshNext]_vars PROVE IInv'
    OBVIOUS
  <1>1. TypeOK /\ Placed /\ Remembered /\ TokenInv /\ FoundAgain /\ Holds
    BY DEF IInv
  <1>2. [Next]_vars /\ DOMAIN tokens = Inos
    BY <1>1 DEF FreshNext, TokenInv
  <1>3. TypeOK' /\ Placed'
    BY <1>1, <1>2, TypeKept, PlacedKept
  <1>4. Remembered'
    BY <1>1, <1>2, SawDirectoryKept, SawDeadKept DEF Remembered
  <1>5. TokenInv'
    BY <1>1, <1>2, DiskKept, TokenIsThereKept, SupersedesKept, ComparableKept DEF TokenInv
  <1>6. FoundAgain' /\ Holds'
    BY <1>2, FoundAgainKept, HoldsKept
  <1> QED
    BY <1>3, <1>4, <1>5, <1>6 DEF IInv

(* The invariant holds for any number of processes, kills and ages, if a   *)
(* new directory never gets an inode number a waiting process remembers.   *)
THEOREM StorageLockInvariant == FreshSpec => []IInv
  <1> QED
    BY InvInit, InvKept, PTL DEF FreshSpec

(* Who reads or writes under the lock has it: `.lock` is there and holds   *)
(* its pid, so no two are under it and a release moves its own lock.       *)
THEOREM HolderInPlaceHolds == FreshSpec => []HolderInPlace
  <1>1. IInv => HolderInPlace
    BY DEF IInv, HolderInPlace, Holds
  <1> QED
    BY <1>1, StorageLockInvariant, PTL

(* What a reclaimer renames away is the directory it judged, and its owner *)
(* is dead.                                                                *)
THEOREM ReclaimsOnlyDeadHolds == FreshSpec => ReclaimsOnlyDead
  <1> DEFINE Only == \A p \in Pids : pc[p] = "move" /\ pc'[p] = "clear"
                         => lock = mem[p].ino /\ ~Alive(owner[lock])
  <1>1. IInv /\ [FreshNext]_vars => [Only]_vars
    <2> SUFFICES ASSUME IInv, [FreshNext]_vars, pc' # pc, NEW p \in Pids, pc[p] = "move", pc'[p] = "clear"
                 PROVE  lock = mem[p].ino /\ ~Alive(owner[lock])
      BY DEF vars
    <2>1. TypeOK /\ Placed /\ Remembered /\ FoundAgain /\ [Next]_vars
      BY DEF IInv, FreshNext
    <2>2. lock # None
      <3> USE DEF Goto
      <3>1. pc \in [Pids -> Labels]
        BY <2>1 DEF TypeOK
      <3>2. CASE Move(p)
        BY <3>1, <3>2 DEF Move, MovedAway
      <3>3. CASE ~Move(p)
        <4>1. CASE Create(p) \/ Wait(p) \/ Reconcile(p) \/ Release(p) \/ Busy(p) \/ Die(p)
          BY <3>1, <4>1 DEF Create, Call, Stage, Look, Install, Wait, Reconcile, Release, Busy, Die
        <4>2. CASE Reclaim(p)
          BY <3>3, <4>2 DEF Reclaim, Stat, ReadPid, Probe, Claim, StatAgain, ReadAgain, Judge, Drop, Clear
        <4> QED
          BY <2>1, <4>1, <4>2, OthersWait DEF Next, Step, Grow, vars
      <3> QED
        BY <3>2, <3>3
    <2> QED
      BY <2>1, <2>2, MoverJudged
  <1> QED
    BY <1>1, StorageLockInvariant, PTL DEF FreshSpec, ReclaimsOnlyDead

-----------------------------------------------------------------------------
(* The files written under the lock: module JournalStore.  A live append   *)
(* makes no reader and no other append fail, for any processes and         *)
(* temporaries (J!Spec).                                                   *)

CONSTANTS Procs, Recorders, Temps, MaxKilled
VARIABLES young, aged, linked, held, at, reads, dead

J == INSTANCE JournalStore WITH
        MaxDeaths <- MaxKilled, old <- aged, lock <- held, pc <- at, mem <- reads

(* What JournalStore assumes of its constants.                             *)
JournalBounds ==
    Recorders \subseteq Procs /\ None \notin Procs \cup Temps /\ MaxKilled \in Nat

(* Whoever is past the lock holds it.                                      *)
LockIsHeld == \A p \in Procs : at[p] \in J!Locked => held = p /\ p \notin dead

(* As long as nobody was killed every temporary belongs to an append that  *)
(* is under way, so none gets old.                                         *)
Owned(t) == \E p \in Procs : at[p] \in {"link", "unlink"} /\ reads[p].temp = t

EntriesAreOwned == dead = {} => aged = {} /\ \A t \in J!Entries : Owned(t)

(* The temporary of an append that is under way is in the directory.       *)
TempIsYoung == \A p \in Procs : at[p] \in {"link", "unlink"} => reads[p].temp \in young

(* A reader that did not find the second name of its record in the         *)
(* directory does not find it linked later either.                         *)
NameIsGone ==
    dead = {} => \A p \in Procs :
        /\ at[p] = "lookUp" => reads[p].temp \in reads[p].listed \/ reads[p].temp \notin J!Entries
        /\ at[p] = "stat" => reads[p].temp \notin J!Entries

NobodyFails == dead = {} => \A p \in Procs : at[p] \notin {"refused", "stuck"}

(* LiveAppendsHarmless is not inductive: nothing in it says that a second  *)
(* name that was not found, or the directory under the lock, stays empty.  *)
JournalInv ==
    /\ J!TypeOK /\ IsFiniteSet(dead)
    /\ LockIsHeld /\ TempIsYoung /\ EntriesAreOwned /\ NameIsGone /\ NobodyFails

LEMMA SameCardinality == \A S : J!Cardinality(S) = Cardinality(S)
  BY DEF J!Cardinality, Cardinality

LEMMA JournalInit ==
  ASSUME JournalBounds, J!Init
  PROVE  JournalInv
  <1>1. IsFiniteSet(dead) /\ Cardinality(dead) = 0
    BY FS_EmptySet DEF J!Init
  <1>2. J!Cardinality(dead) = 0
    BY <1>1, SameCardinality
  <1> QED
    BY <1>1, <1>2
    DEF JournalBounds, J!Init, JournalInv, J!TypeOK, J!Blank, J!Reading, J!Locked, J!Entries,
        LockIsHeld, TempIsYoung, EntriesAreOwned, Owned, NameIsGone, NobodyFails

LEMMA JournalNext ==
  ASSUME JournalBounds, JournalInv, [J!Next]_(J!vars)
  PROVE  JournalInv'
  <1> USE DEF JournalBounds, JournalInv, J!TypeOK, J!Blank, J!Reading, J!Locked, J!Entries,
              LockIsHeld, TempIsYoung, EntriesAreOwned, Owned, NameIsGone, NobodyFails, J!At, J!Goto, J!dir
  <1>1. CASE UNCHANGED J!vars
    BY <1>1 DEF J!vars
  <1>2. CASE J!Grow
    BY <1>2 DEF J!Grow
  <1>3. ASSUME NEW p \in Procs, J!Begin(p) PROVE JournalInv'
    BY <1>3 DEF J!Begin
  <1>4. ASSUME NEW p \in Procs, J!Read(p) PROVE JournalInv'
    BY <1>4 DEF J!Read, J!Temp
  <1>5. ASSUME NEW p \in Procs, J!List(p) PROVE JournalInv'
    BY <1>5 DEF J!List
  <1>6. ASSUME NEW p \in Procs, J!LookUp(p) PROVE JournalInv'
    BY <1>6 DEF J!LookUp
  <1>7. ASSUME NEW p \in Procs, J!Stat(p) PROVE JournalInv'
    BY <1>7 DEF J!Stat
  <1>8. ASSUME NEW p \in Procs, J!ReadOnly(p) PROVE JournalInv'
    BY <1>8 DEF J!ReadOnly
  <1>9. ASSUME NEW p \in Procs, J!Lock(p) PROVE JournalInv'
    BY <1>9 DEF J!Lock
  <1>10. ASSUME NEW p \in Procs, J!ReconcileTemporaries(p) PROVE JournalInv'
    BY <1>10 DEF J!ReconcileTemporaries, J!Removed
  <1>11. ASSUME NEW p \in Procs, J!ReadLocked(p) PROVE JournalInv'
    BY <1>11 DEF J!ReadLocked
  <1>12. ASSUME NEW p \in Procs, J!Write(p) PROVE JournalInv'
    BY <1>12 DEF J!Write, J!Fresh, J!Temp
  <1>13. ASSUME NEW p \in Procs, J!Link(p) PROVE JournalInv'
    BY <1>13 DEF J!Link
  <1>14. ASSUME NEW p \in Procs, J!Unlink(p) PROVE JournalInv'
    BY <1>14 DEF J!Unlink, J!Removed, J!Temp
  <1>15. ASSUME NEW p \in Procs, J!Release(p) PROVE JournalInv'
    BY <1>15 DEF J!Release
  <1>16. ASSUME NEW p \in Procs, J!Busy(p) PROVE JournalInv'
    BY <1>16 DEF J!Busy
  <1>17. ASSUME NEW p \in Procs, J!Refuse(p) PROVE JournalInv'
    BY <1>17 DEF J!Refuse
  <1>18. ASSUME NEW p \in Procs, J!WriteFails(p) PROVE JournalInv'
    BY <1>18 DEF J!WriteFails
  <1>19. ASSUME NEW p \in Procs, J!Die(p) PROVE JournalInv'
    <2>1. IsFiniteSet(dead') /\ Cardinality(dead') = Cardinality(dead) + 1 /\ Cardinality(dead) \in Nat
      BY <1>19, FS_AddElement, FS_CardinalityType DEF J!Die
    <2>2. J!Cardinality(dead) = Cardinality(dead) /\ J!Cardinality(dead') = Cardinality(dead')
      BY SameCardinality
    <2> QED
      BY <1>19, <2>1, <2>2 DEF J!Die
  <1> QED
    BY <1>1, <1>2, <1>3, <1>4, <1>5, <1>6, <1>7, <1>8, <1>9, <1>10, <1>11,
       <1>12, <1>13, <1>14, <1>15, <1>16, <1>17, <1>18, <1>19
    DEF J!Next, J!Command, J!Reader, J!Append

(* While no writer was killed no reader meets a temporary or a second name *)
(* it refuses, and no append one under the lock.                           *)
THEOREM LiveAppendsHarmlessHolds == JournalBounds => (J!Spec => []J!LiveAppendsHarmless)
  <1> SUFFICES ASSUME JournalBounds PROVE J!Spec => []J!LiveAppendsHarmless
    OBVIOUS
  <1>1. J!Init => JournalInv
    BY JournalInit
  <1>2. JournalInv /\ [J!Next]_(J!vars) => JournalInv'
    BY JournalNext
  <1>3. JournalInv => J!LiveAppendsHarmless
    BY DEF JournalInv, NobodyFails, J!LiveAppendsHarmless
  <1> QED
    BY <1>1, <1>2, <1>3, PTL DEF J!Spec
=============================================================================
