-------------------------------- MODULE Feed --------------------------------
(***************************************************************************)
(* Ingest and EventHub joined as hub/server/main.mjs joins them: a step    *)
(* that applies hook events commits them and publishes them at once, and a *)
(* server that stops takes its sockets along.  The whole refines           *)
(* FeedPromise.                                                            *)
(***************************************************************************)
EXTENDS Integers, Sequences, FiniteSets

CONSTANTS Hooks, Before, SeenCap, MaxFaults, WireCap, PendingCap, MaxRows, MaxDrops

ASSUME HooksAssumption == Hooks \subseteq Nat \ {0} /\ IsFiniteSet(Hooks) /\ Before \subseteq Hooks
ASSUME CapsAssumption ==
  /\ {SeenCap, PendingCap, MaxFaults, MaxDrops} \subseteq Nat
  /\ {WireCap, MaxRows} \subseteq Nat \ {0}

VARIABLES
  hook, wire, files, server, seen, pending, drain, log, faults,
  old, conn, hello, down, tab, drops

hubSide == <<old, conn, hello, down, tab, drops>>
ingestSide == <<hook, wire, files, server, seen, pending, drain, log, faults>>
vars == <<ingestSide, hubSide>>

I == INSTANCE Ingest
H == INSTANCE EventHub WITH head <- Len(log)

(* publish in main.mjs: what a step of ingestion appended, in its order.   *)
Published == IF log' = log THEN UNCHANGED hubSide ELSE H!Publish(Len(log'))

Init == I!Init /\ H!HubInit

Hooking == I!Hooking /\ Published

Working == (I!Reading \/ I!Flushing \/ I!Draining \/ I!Start) /\ Published

Refused == I!Refusing /\ Published

Stops == I!Stop /\ H!HubGone

(* A tab connects to a server that listens: the HTTP listener is opened    *)
(* after the first drain.                                                  *)
Connects == UNCHANGED ingestSide /\ server = "up" /\ H!Open

Following ==
  /\ UNCHANGED ingestSide
  /\ H!Replay \/ H!Snapshot \/ H!SnapshotSent \/ H!TabReceives \/ H!TabClosed

(* Events age in the order of their hook times.                            *)
Ages ==
  /\ UNCHANGED ingestSide /\ H!Age
  /\ \A n \in old', m \in 1..Len(log): log[m] < log[n] => m \in old'

(* A bound: the network breaks the connection only before anything else    *)
(* fails (a server that stops breaks it too).                              *)
Drops == UNCHANGED ingestSide /\ faults = 0 /\ H!Drop

Next == Hooking \/ Working \/ Refused \/ Stops \/ Connects \/ Following \/ Ages \/ Drops

(* A timer or an event of Node is behind every step of the server and of   *)
(* the tab; hooks need not come, and nothing has to fail.                  *)
Spec == Init /\ [][Next]_vars /\ WF_vars(Working) /\ WF_vars(Connects \/ Following)

-----------------------------------------------------------------------------
TypeOK == I!TypeOK /\ H!HubTypeOK

(* An event left in the spool is in the spool until it is in the database  *)
(* (the order of flush and rm in drainSpool, and the keys that a failed    *)
(* flush takes back).                                                      *)
SpooledIsKept == TypeOK /\ I!SpooledIsKept

(* An event left in the spool is applied in the end: time and again there  *)
(* is none that is not.                                                    *)
SpooledIsApplied ==
  []<>(\A h \in Hooks: hook[h] = "spooled" => \E i \in 1..Len(log): log[i] = h)

(* The composed system keeps FeedPromise: every event is applied at most   *)
(* once however often it is delivered, and through snapshots, replays,     *)
(* slow sockets, broken connections and restarts a tab shows a prefix of   *)
(* the log, never goes back, and catches up.                               *)
Promise == INSTANCE FeedPromise WITH shown <- tab.have
KeepsPromise == Promise!Spec
=============================================================================
