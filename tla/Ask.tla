-------------------------------- MODULE Ask --------------------------------
(***************************************************************************)
(* Questions to the vault: server/ask/service.mjs over server/ask/         *)
(* engine.mjs.  Each ask is a row of ask_messages, an entry of the         *)
(* service, a run of the engine (queued behind two others, or one claude   *)
(* process) and, in running.json, the pid a later server has to kill.      *)
(*                                                                         *)
(* The server may be killed anywhere; its claude processes are detached    *)
(* and survive it.  What a process writes is left out, and so is its       *)
(* thread's text.  A spawn that throws ends its run at once in the code;   *)
(* here it waits for the error event, as a command not found does.         *)
(***************************************************************************)
EXTENDS Integers, Sequences, FiniteSets

CONSTANTS
  Asks,       (* the assistant messages                                     *)
  ThreadOf    (* the thread of each                                         *)

VARIABLES
  server,     (* "up", "closed" (it answers no ask any more) or "down"      *)
  row,        (* ask_messages: status, "open" while duration_ms is NULL     *)
  entry,      (* running of the service                                     *)
  st,         (* the engine's runs: "none", "queued", "running" or "done"   *)
  queue, active,
  cancelled,  (* runs with cancelled set                                    *)
  broken,     (* runs with timedOut or failure set                          *)
  result,     (* what the run's promise resolved to                         *)
  child,      (* the claude process of a run: "none", "live" or "gone"      *)
  listed,     (* running.json                                               *)
  stray       (* processes the last try to list failed to name              *)

service == <<row, entry>>
runs == <<st, queue, active, cancelled, broken, result>>
disk == <<listed, stray>>
vars == <<server, service, runs, child, disk>>

MaxConcurrent == 2

Running == {m \in Asks: st[m] = "running"}
Live == {m \in Asks: child[m] = "live"}
Busy(t) == \E m \in entry: ThreadOf[m] = t

Init ==
  /\ server = "up" /\ row = [m \in Asks |-> "none"] /\ entry = {}
  /\ st = [m \in Asks |-> "none"] /\ queue = <<>> /\ active = 0
  /\ cancelled = {} /\ broken = {} /\ result = [m \in Asks |-> "none"]
  /\ child = [m \in Asks |-> "none"] /\ listed = {} /\ stray = {}

-----------------------------------------------------------------------------
(* writeRunning, whose failure is ignored.                                 *)
WriteRunning ==
  LET now == Running' \cap Live' IN
  \/ listed' = now /\ stray' = stray \ now
  \/ listed' = listed /\ stray' = stray \cup (now \ listed)

(* pump over the queue q beside a running ones, where the runs are s and   *)
(* the processes c: the first of q are started while there is room.  A     *)
(* start that finds no command has no process.                             *)
Pump(q, a, s, c, dirty) ==
  \E n \in 0..Len(q): \E spawned \in SUBSET {q[i]: i \in 1..n}:
    /\ a + n <= MaxConcurrent
    /\ n = Len(q) \/ a + n = MaxConcurrent
    /\ queue' = SubSeq(q, n + 1, Len(q))
    /\ active' = a + n
    /\ st' = [m \in Asks |-> IF \E i \in 1..n: q[i] = m THEN "running" ELSE s[m]]
    /\ child' = [m \in Asks |-> IF m \in spawned THEN "live" ELSE c[m]]
    /\ IF dirty \/ n > 0 THEN WriteRunning ELSE UNCHANGED disk

(* ask of the service, and run of the engine.  The engine's own refusal of *)
(* a second run in a thread is not reached: RunsAreEntered.                *)
AskVault(m) ==
  /\ server = "up" /\ row[m] = "none" /\ ~Busy(ThreadOf[m])
  /\ row' = [row EXCEPT ![m] = "open"]
  /\ entry' = entry \cup {m}
  /\ Pump(Append(queue, m), active, [st EXCEPT ![m] = "queued"], child, FALSE)
  /\ UNCHANGED <<server, cancelled, broken, result>>

(* expire, or a first line without the vault: the process is killed, which *)
(* is to say that it ends.                                                 *)
Break(m) ==
  /\ server # "down" /\ st[m] = "running" /\ m \notin cancelled
  /\ broken' = broken \cup {m}
  /\ UNCHANGED <<server, service, st, queue, active, cancelled, result, child, disk>>

(* settle of a run whose process has closed, or never was.                 *)
Settle(m, how) ==
  /\ server # "down" /\ st[m] = "running"
  /\ how = "cancelled" <=> m \in cancelled
  /\ how = "complete" => m \notin broken /\ child[m] # "none"
  /\ result' = [result EXCEPT ![m] = how]
  /\ Pump(queue, active - 1, [st EXCEPT ![m] = "done"],
          [child EXCEPT ![m] = IF @ = "live" THEN "gone" ELSE @], TRUE)
  /\ UNCHANGED <<server, service, cancelled, broken>>

(* cancel of an ask that still waits, and is taken out of the queue ...    *)
CancelQueued(m) ==
  /\ server = "up" /\ m \in entry /\ st[m] = "queued"
  /\ cancelled' = cancelled \cup {m}
  /\ result' = [result EXCEPT ![m] = "cancelled"]
  /\ \E i \in 1..Len(queue):
       /\ queue[i] = m
       /\ Pump(SubSeq(queue, 1, i - 1) \o SubSeq(queue, i + 1, Len(queue)), active,
               [st EXCEPT ![m] = "done"], child, FALSE)
  /\ UNCHANGED <<server, service, broken>>

(* ... and of one that runs: its process group is told to end, and killed  *)
(* if it does not.                                                         *)
CancelRunning(m) ==
  /\ server = "up" /\ m \in entry /\ st[m] = "running"
  /\ cancelled' = cancelled \cup {m}
  /\ UNCHANGED <<server, service, st, queue, active, broken, result, child, disk>>

(* finish of the service, after the citations have been read: one          *)
(* transaction, or a failure that leaves the row to the next start.        *)
Finish(m) ==
  /\ server # "down" /\ m \in entry /\ result[m] # "none"
  /\ entry' = entry \ {m}
  /\ row' \in {[row EXCEPT ![m] = result[m]], row}
  /\ UNCHANGED <<server, runs, child, disk>>

(* close: every entry is cancelled, in the order they were asked.  Those   *)
(* that run come first and have not ended yet when those that wait are     *)
(* settled, so pump finds no room.                                         *)
Close ==
  /\ server = "up"
  /\ server' = "closed"
  /\ st' = [m \in Asks |-> IF st[m] = "queued" THEN "done" ELSE st[m]]
  /\ result' = [m \in Asks |-> IF st[m] = "queued" THEN "cancelled" ELSE result[m]]
  /\ cancelled' = cancelled \cup {m \in entry: st[m] \in {"queued", "running"}}
  /\ queue' = <<>>
  /\ UNCHANGED <<service, active, broken, child, disk>>

-----------------------------------------------------------------------------
(* What a server that is gone remembers.                                   *)
Forgotten ==
  /\ server' = "down" /\ entry' = {}
  /\ st' = [m \in Asks |-> "none"] /\ queue' = <<>> /\ active' = 0
  /\ cancelled' = {} /\ broken' = {} /\ result' = [m \in Asks |-> "none"]

(* close has waited for every entry.                                       *)
Stop == server = "closed" /\ entry = {} /\ Forgotten /\ UNCHANGED <<row, child, disk>>

Killed == server # "down" /\ Forgotten /\ UNCHANGED <<row, child, disk>>

(* Killed in start, between spawn and writeRunning.                        *)
KilledInStart(m) ==
  /\ server = "up" /\ row[m] = "none" /\ ~Busy(ThreadOf[m]) /\ active < MaxConcurrent
  /\ Forgotten
  /\ row' = [row EXCEPT ![m] = "open"]
  /\ child' = [child EXCEPT ![m] = "live"]
  /\ stray' = stray \cup {m}
  /\ UNCHANGED listed

(* ... the same in the pump of a run that ended, for the head of the queue.*)
KilledInPump(m) ==
  /\ server # "down" /\ st[m] = "running" /\ queue # <<>>
  /\ Forgotten
  /\ child' = [child EXCEPT ![m] = "gone", ![Head(queue)] = "live"]
  /\ listed' = listed \ {m}
  /\ stray' = stray \cup {Head(queue)}
  /\ UNCHANGED row

(* A process whose server is gone ends by itself.                          *)
Ends(m) ==
  /\ child[m] = "live" /\ st[m] # "running"
  /\ child' = [child EXCEPT ![m] = "gone"]
  /\ UNCHANGED <<server, service, runs, disk>>

(* reapOrphans of the engine and of the service, before the first ask.     *)
ReapOrphans ==
  /\ server = "down"
  /\ server' = "up"
  /\ child' = [m \in Asks |-> IF m \in listed /\ child[m] = "live" THEN "gone" ELSE child[m]]
  /\ listed' = {}
  /\ row' = [m \in Asks |-> IF row[m] = "open" THEN "error" ELSE row[m]]
  /\ UNCHANGED <<entry, runs, stray>>

-----------------------------------------------------------------------------
Next ==
  \/ \E m \in Asks:
       \/ AskVault(m) \/ Break(m) \/ CancelQueued(m) \/ CancelRunning(m)
       \/ \E how \in {"complete", "cancelled", "error"}: Settle(m, how)
       \/ Finish(m) \/ KilledInStart(m) \/ KilledInPump(m) \/ Ends(m)
  \/ Close \/ Stop \/ Killed \/ ReapOrphans

Spec == Init /\ [][Next]_vars

-----------------------------------------------------------------------------
(* The states and sets of the service and the engine.                      *)
TypeOK ==
  /\ server \in {"up", "closed", "down"}
  /\ row \in [Asks -> {"none", "open", "complete", "cancelled", "error"}]
  /\ entry \subseteq Asks
  /\ st \in [Asks -> {"none", "queued", "running", "done"}]
  /\ queue \in Seq(Asks) /\ active \in 0..MaxConcurrent
  /\ cancelled \subseteq Asks /\ broken \subseteq Asks
  /\ result \in [Asks -> {"none", "complete", "cancelled", "error"}]
  /\ child \in [Asks -> {"none", "live", "gone"}]
  /\ listed \subseteq Asks /\ stray \subseteq Asks

(* The counter of the engine says how many runs are under way.             *)
ActiveCounts == IsFiniteSet(Running) /\ Cardinality(Running) = active

(* The queue holds the waiting runs, each once, and nothing waits while    *)
(* there is room (pump is called wherever room appears).                   *)
QueueIsWaiting ==
  /\ \A m \in Asks: st[m] = "queued" <=> \E i \in 1..Len(queue): queue[i] = m
  /\ \A i, j \in 1..Len(queue): queue[i] = queue[j] => i = j
  /\ queue # <<>> => active = MaxConcurrent

(* A run under way is entered in the service, so the engine never refuses  *)
(* an ask the service took.                                                *)
RunsAreEntered == \A m \in Asks: st[m] \in {"queued", "running"} => m \in entry

(* One ask of a thread is under way at a time.                             *)
OneAskPerThread == \A m, k \in entry: ThreadOf[m] = ThreadOf[k] => m = k

(* A claude process runs for a run of this server, or is named for the     *)
(* next one, unless it could not be listed (engine.mjs: writeRunning comes *)
(* after the spawn, and its failure is ignored).                           *)
ProcessesKnown ==
  \A m \in Live \ stray: IF server = "down" THEN m \in listed ELSE st[m] = "running" /\ m \in listed

(* Through crashes and restarts a thread has one claude process, and there *)
(* are two at most, but for those that could not be listed.                *)
OneProcessPerThread ==
  \A m, k \in Live \ stray: ThreadOf[m] = ThreadOf[k] => m = k
ProcessLimit ==
  IsFiniteSet(Live \ stray) /\ Cardinality(Live \ stray) <= MaxConcurrent

(* An answer that was stored never changes (reapOrphans and finish meet    *)
(* open rows only).                                                        *)
AnswerStays ==
  [][\A m \in Asks: row[m] \in {"complete", "cancelled", "error"} => row'[m] = row[m]]_vars
=============================================================================
