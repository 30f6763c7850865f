---------------------------- MODULE JournalStore ----------------------------
(***************************************************************************)
(* The files of the execution journal (scripts/execution-journal.mjs).  An *)
(* append writes a temporary file, links it to the record's name and       *)
(* unlinks it, all under the storage lock; readers take no lock and skip   *)
(* the temporary of an append that is under way.  Temporaries of killed    *)
(* writers are removed by the next append, once they are old.              *)
(*                                                                         *)
(* The lock is one step here; its files are the module StorageLock.  A     *)
(* record that lost its temporary needs no attention again and is left out.*)
(***************************************************************************)
EXTENDS Naturals, FiniteSets

CONSTANTS
    Procs,     \* processes that run one command after another
    Recorders, \* those whose command appends without reading first
    Temps,     \* temporary files, by inode
    None,      \* no process, no temporary
    MaxDeaths  \* bound: processes killed

ASSUME RecordersAssumption == Recorders \subseteq Procs /\ None \notin Procs \cup Temps
ASSUME DeathsAssumption == MaxDeaths \in Nat

VARIABLES
    young,   \* temporaries in the directory that are at most STALE_TEMPORARY_MS old
    old,     \* those that are older
    linked,  \* temporaries that a record's name is linked to as well
    lock,    \* the holder of the storage lock, or None
    pc, mem, dead

dir == <<young, old, linked>>
vars == <<young, old, linked, lock, pc, mem, dead>>

Entries == young \cup old
Reading == {"read", "list", "lookUp", "stat"}
Locked == {"reconcile", "readLocked", "write", "link", "unlink", "release"}
Blank == [temp |-> None, listed |-> {}]

TypeOK ==
    /\ young \subseteq Temps /\ old \subseteq Temps /\ young \cap old = {}
    /\ linked \subseteq Entries
    /\ lock \in Procs \cup {None}
    /\ pc \in [Procs -> {"idle", "lock", "refused", "stuck"} \cup Reading \cup Locked]
    /\ mem \in [Procs -> [temp : Temps \cup {None}, listed : SUBSET Temps]]
    /\ dead \subseteq Procs /\ Cardinality(dead) <= MaxDeaths

Init ==
    /\ young = {} /\ old = {} /\ linked = {} /\ lock = None
    /\ pc = [p \in Procs |-> "idle"] /\ mem = [p \in Procs |-> Blank]
    /\ dead = {}

Goto(p, label) == pc' = [pc EXCEPT ![p] = label]
Temp(p, t) == mem' = [mem EXCEPT ![p].temp = t]
At(p, label) == p \notin dead /\ pc[p] = label
Removed(set) ==
    /\ young' = young \ set /\ old' = old \ set /\ linked' = linked \ set

-----------------------------------------------------------------------------
(* workflow-resume, -resolve, -status, -accept and -prune read the journal *)
(* before anything else; execution-record appends at once.                 *)
Begin(p) ==
    /\ p \notin dead /\ pc[p] \in {"idle", "refused", "stuck"}
    /\ Goto(p, IF p \in Recorders THEN "lock" ELSE "read")
    /\ mem' = [mem EXCEPT ![p] = Blank]
    /\ UNCHANGED <<dir, lock, dead>>

(* readEvents without the lock: an old temporary is refused; a record may  *)
(* be opened while its temporary is still there.                           *)
Read(p) ==
    /\ At(p, "read")
    /\ IF old # {} THEN Goto(p, "refused") /\ UNCHANGED mem
       ELSE \/ Goto(p, "lock") /\ UNCHANGED mem
            \/ \E t \in linked : Goto(p, "list") /\ Temp(p, t)
    /\ UNCHANGED <<dir, lock, dead>>

(* inFlightLink looks for the record's second name...                      *)
List(p) ==
    /\ At(p, "list") /\ Goto(p, "lookUp")
    /\ mem' = [mem EXCEPT ![p].listed = Entries]
    /\ UNCHANGED <<dir, lock, dead>>

LookUp(p) ==
    /\ At(p, "lookUp")
    /\ Goto(p, IF mem[p].temp \in mem[p].listed \cap young THEN "lock" ELSE "stat")
    /\ mem' = [mem EXCEPT ![p].listed = {}]
    /\ UNCHANGED <<dir, lock, dead>>

(* Seeded fault: a second name that is gone is not looked at again.        *)
StatStrict(p) ==
    /\ At(p, "stat") /\ Goto(p, "refused")
    /\ UNCHANGED <<dir, lock, mem, dead>>

(* ... and accepts the record when that name is gone by now.               *)
Stat(p) ==
    /\ At(p, "stat")
    /\ Goto(p, IF mem[p].temp \in linked THEN "refused" ELSE "lock")
    /\ mem' = [mem EXCEPT ![p] = Blank]
    /\ UNCHANGED <<dir, lock, dead>>

(* A command that only reads ends here.                                    *)
ReadOnly(p) ==
    /\ At(p, "lock") /\ p \notin Recorders /\ Goto(p, "idle")
    /\ mem' = [mem EXCEPT ![p] = Blank]
    /\ UNCHANGED <<dir, lock, dead>>

(* A lock whose holder is dead is reclaimed.                               *)
Lock(p) ==
    /\ At(p, "lock") /\ lock \in dead \cup {None} /\ lock' = p
    /\ Goto(p, "reconcile") /\ mem' = [mem EXCEPT ![p] = Blank]
    /\ UNCHANGED <<dir, dead>>

Busy(p) ==
    /\ At(p, "lock") /\ lock \notin dead \cup {None} /\ Goto(p, "idle")
    /\ UNCHANGED <<dir, lock, mem, dead>>

(* Seeded fault: a record's second name is left alone.                     *)
ReconcileUnlinked(p) ==
    /\ At(p, "reconcile") /\ Goto(p, "readLocked")
    /\ Removed(old \ linked)
    /\ UNCHANGED <<lock, mem, dead>>

ReconcileTemporaries(p) ==
    /\ At(p, "reconcile") /\ Goto(p, "readLocked")
    /\ Removed(old)
    /\ UNCHANGED <<lock, mem, dead>>
(* Under the lock no live writer owns a temporary: a young one is refused. *)
ReadLocked(p) ==
    /\ At(p, "readLocked")
    /\ Goto(p, IF Entries = {} THEN "write" ELSE "stuck")
    /\ lock' = IF Entries = {} THEN lock ELSE None
    /\ UNCHANGED <<dir, mem, dead>>

(* The event was refused by the journal's rules, or is there already.      *)
Refuse(p) ==
    /\ At(p, "write") /\ Goto(p, "release")
    /\ UNCHANGED <<dir, lock, mem, dead>>

(* A record keeps its inode, and names are random: a new temporary is none *)
(* that a reader remembers.                                                *)
Fresh(t) == t \notin Entries /\ \A q \in Procs : t # mem[q].temp /\ t \notin mem[q].listed

Write(p) ==
    /\ At(p, "write") /\ Goto(p, "link")
    /\ \E t \in Temps : Fresh(t) /\ young' = young \cup {t} /\ Temp(p, t)
    /\ UNCHANGED <<old, linked, lock, dead>>

Link(p) ==
    /\ At(p, "link") /\ Goto(p, "unlink")
    /\ linked' = linked \cup {mem[p].temp}
    /\ UNCHANGED <<young, old, lock, mem, dead>>

(* Writing or linking fails: the temporary is unlinked all the same.       *)
WriteFails(p) ==
    /\ At(p, "link") /\ Goto(p, "unlink")
    /\ UNCHANGED <<dir, lock, mem, dead>>

Unlink(p) ==
    /\ At(p, "unlink") /\ Goto(p, "release")
    /\ Removed({mem[p].temp}) /\ Temp(p, None)
    /\ UNCHANGED <<lock, dead>>

Release(p) ==
    /\ At(p, "release") /\ Goto(p, "idle") /\ lock' = None
    /\ UNCHANGED <<dir, mem, dead>>

(* The process is killed: its temporary and its lock stay.                 *)
Die(p) ==
    /\ p \notin dead /\ pc[p] # "idle" /\ Cardinality(dead) < MaxDeaths
    /\ dead' = dead \cup {p} /\ Goto(p, "idle") /\ mem' = [mem EXCEPT ![p] = Blank]
    /\ UNCHANGED <<dir, lock>>

(* An append takes less than STALE_TEMPORARY_MS, so only the temporary of  *)
(* a killed writer gets older than that.                                   *)
Grow ==
    /\ \E t \in young \ {mem[p].temp : p \in {q \in Procs : pc[q] \in Locked}} :
          young' = young \ {t} /\ old' = old \cup {t}
    /\ UNCHANGED <<linked, lock, pc, mem, dead>>

Reader(p) == Read(p) \/ List(p) \/ LookUp(p) \/ Stat(p) \/ ReadOnly(p)
Append(p) == \/ Lock(p) \/ ReconcileTemporaries(p) \/ ReadLocked(p) \/ Write(p)
             \/ Link(p) \/ Unlink(p) \/ Release(p)
Command(p) == Begin(p) \/ Reader(p) \/ Append(p)

Next == Grow \/ \E p \in Procs :
            Command(p) \/ Busy(p) \/ Refuse(p) \/ WriteFails(p) \/ Die(p)

Spec == Init /\ [][Next]_vars

(* Time passes and somebody goes on running the commands.                  *)
FairSpec == Spec /\ WF_vars(Grow) /\ \A p \in Procs : WF_vars(Command(p))

-----------------------------------------------------------------------------
(* A live append makes nobody fail: as long as no writer was killed, no    *)
(* reader meets a temporary or a second name it refuses, and no append     *)
(* meets one under the lock.                                               *)
LiveAppendsHarmless ==
    /\ TypeOK
    /\ dead = {} => \A p \in Procs : pc[p] \notin {"refused", "stuck"}

(* The leftover of a killed writer is removed in the end.                  *)
LeftoverGoes == (old # {}) ~> (old = {})

=============================================================================
