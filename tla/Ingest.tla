------------------------------- MODULE Ingest -------------------------------
(***************************************************************************)
(* The way of a hook event into the deck database: hook/deck-hook.mjs      *)
(* stamps it and sends it over the socket or leaves it in the spool;       *)
(* ingest/socket.mjs drops what it has seen and holds the rest in the      *)
(* buffer of ingest/reorder.mjs; ingest/spool.mjs feeds the spool through  *)
(* the same path; the projector applies each event once per dedupe key.    *)
(*                                                                         *)
(* The hooks of one session, named by their hook time.  Every await of     *)
(* drainSpool is a step; receive and flush are synchronous.                *)
(***************************************************************************)
EXTENDS Integers, Sequences, FiniteSets, SequencesExt

CONSTANTS
  Hooks,        (* hook times of the events, all different                  *)
  Before,       (* those of them that an earlier server has applied         *)
  SeenCap,      (* how many dedupe keys createIngestor remembers            *)
  MaxFaults     (* bound: how often the server stops, or the database       *)
                (* refuses an event                                         *)

VARIABLES
  hook,     (* how each deck-hook process got rid of its event              *)
  wire,     (* lines in the socket that the server has not read             *)
  files,    (* events in the spool, a file each                             *)
  server,   (* "down", "starting" (the drain before it listens) or "up"     *)
  seen,     (* the dedupe keys of createIngestor, oldest first              *)
  pending,  (* the rows of the reorder buffer                               *)
  drain,    (* the running drainSpool: where it is, and the files it took   *)
  log,      (* the events applied, in order: hook_events and events         *)
  faults

vars == <<hook, wire, files, server, seen, pending, drain, log, faults>>

Idle == [at |-> "idle", taken |-> {}]

(* The rows of one flush, in the order of compare (reorder.mjs).           *)
Place(set, h) == Cardinality({g \in set: g <= h})
Rows(set) == [i \in 1..Cardinality(set) |-> CHOOSE h \in set: Place(set, h) = i]

(* applyHooks on one row after another, in their order: a row whose dedupe *)
(* key is in hook_events is skipped.                                       *)
Apply(old, rows) == old \o Rows(Range(rows) \ Range(old))

(* receive: what the memory of keys becomes when h is new to it.           *)
Remember(keys, h) ==
  LET more == Append(keys, h) IN IF Len(more) > SeenCap THEN Tail(more) ELSE more

Received(m, h) ==
  IF h \in Range(m.seen) THEN m
  ELSE [seen |-> Remember(m.seen, h), new |-> m.new \cup {h}]

ReceiveAll(keys, rows) ==
  LET after[k \in 0..Len(rows)] ==
        IF k = 0 THEN [seen |-> keys, new |-> {}] ELSE Received(after[k - 1], rows[k])
  IN  after[Len(rows)]

(* forget: the keys but for those of a set.                                *)
Without(keys, set) ==
  LET stay == Rows({i \in DOMAIN keys: keys[i] \notin set})
  IN  [k \in DOMAIN stay |-> keys[stay[k]]]

-----------------------------------------------------------------------------
Init ==
  /\ hook = [h \in Hooks |-> IF h \in Before THEN "gone" ELSE "new"]
  /\ wire = {} /\ files = {}
  /\ server = "starting" /\ drain = [at |-> "read", taken |-> {}]
  /\ seen = <<>> /\ pending = {} /\ log = Rows(Before)
  /\ faults = 0

(* sendSocket: the line is flushed to a server that listens.               *)
SendSocket(h) ==
  /\ hook[h] = "new" /\ server = "up"
  /\ hook' = [hook EXCEPT ![h] = "sent"]
  /\ wire' = wire \cup {h}
  /\ UNCHANGED <<files, server, seen, pending, drain, log, faults>>

(* spool: the socket failed or timed out, perhaps after the line had gone. *)
Spool(h) ==
  /\ hook[h] \in {"new", "sent"}
  /\ hook' = [hook EXCEPT ![h] = "spooled"]
  /\ files' = files \cup {h}
  /\ UNCHANGED <<wire, server, seen, pending, drain, log, faults>>

(* The 200 ms budget ends, or the spool is full: the event is gone.        *)
GiveUp(h) ==
  /\ hook[h] = "new"
  /\ hook' = [hook EXCEPT ![h] = "gone"]
  /\ UNCHANGED <<wire, files, server, seen, pending, drain, log, faults>>

(* receive, from the socket.                                               *)
Receive(h) ==
  /\ server = "up" /\ h \in wire
  /\ wire' = wire \ {h}
  /\ LET got == ReceiveAll(seen, <<h>>)
     IN  seen' = got.seen /\ pending' = pending \cup got.new
  /\ UNCHANGED <<hook, files, server, drain, log, faults>>

(* flush from the timer, the immediate or a retry: the first n rows are    *)
(* applied; a row that is refused stays in the buffer with those after it. *)
Flush(n) ==
  LET rows == Rows(pending) IN
  /\ server # "down" /\ pending # {} /\ n \in 0..Len(rows)
  /\ n < Len(rows) => faults < MaxFaults
  /\ faults' = IF n < Len(rows) THEN faults + 1 ELSE faults
  /\ log' = Apply(log, SubSeq(rows, 1, n))
  /\ pending' = Range(SubSeq(rows, n + 1, Len(rows)))
  /\ UNCHANGED <<hook, wire, files, server, seen, drain>>

-----------------------------------------------------------------------------
(* drainSpool: the files there are now are renamed and read.               *)
DrainRead ==
  /\ server = "up" /\ drain.at = "idle" /\ files # {}
  /\ drain' = [at |-> "read", taken |-> files]
  /\ UNCHANGED <<hook, wire, files, server, seen, pending, log, faults>>

(* ... every line is received and the whole buffer is flushed ...          *)
DrainApply ==
  LET got  == ReceiveAll(seen, Rows(drain.taken))
      rows == Rows(pending \cup got.new)
  IN /\ drain.at = "read"
     /\ drain' = [drain EXCEPT !.at = "remove"]
     /\ seen' = got.seen /\ pending' = {}
     /\ log' = Apply(log, rows)
     /\ UNCHANGED <<hook, wire, files, server, faults>>

(* A broken drainSpool that leaves the keys it did not apply in the memory. *)
DrainFailsRemembering(n) ==
  LET got  == ReceiveAll(seen, Rows(drain.taken))
      rows == Rows(pending \cup got.new)
  IN /\ drain.at = "read" /\ server = "up" /\ n \in 0..Len(rows) - 1
     /\ faults < MaxFaults /\ faults' = faults + 1
     /\ drain' = Idle
     /\ log' = Apply(log, SubSeq(rows, 1, n))
     /\ pending' = {} /\ seen' = got.seen
     /\ UNCHANGED <<hook, wire, files, server>>

(* ... or a row is refused: it and the rows after it leave the buffer and  *)
(* the keys seen, and the files stay.  The drain before listening fails    *)
(* with the start of the server.                                           *)
DrainFails(n) ==
  LET got  == ReceiveAll(seen, Rows(drain.taken))
      rows == Rows(pending \cup got.new)
      left == Range(SubSeq(rows, n + 1, Len(rows)))
  IN /\ drain.at = "read" /\ n \in 0..Len(rows) - 1
     /\ faults < MaxFaults /\ faults' = faults + 1
     /\ drain' = Idle
     /\ log' = Apply(log, SubSeq(rows, 1, n))
     /\ pending' = {}
     /\ \/ /\ server = "up"
           /\ seen' = Without(got.seen, left)
           /\ UNCHANGED server
        \/ /\ server = "starting"
           /\ server' = "down" /\ seen' = <<>>
     /\ UNCHANGED <<hook, wire, files>>

(* ... and the files are removed one by one.                               *)
DrainRemove(h) ==
  /\ drain.at = "remove" /\ h \in drain.taken
  /\ drain' = [drain EXCEPT !.taken = @ \ {h}]
  /\ files' = files \ {h}
  /\ UNCHANGED <<hook, wire, server, seen, pending, log, faults>>

(* A broken drain that never says it is done.                              *)
DrainEndStillRunning ==
  /\ drain.at = "remove" /\ drain.taken = {} /\ server = "starting"
  /\ server' = "up"
  /\ UNCHANGED <<hook, wire, files, seen, pending, drain, log, faults>>

DrainEnd ==
  /\ drain.at = "remove" /\ drain.taken = {}
  /\ drain' = Idle
  /\ server' = "up"
  /\ UNCHANGED <<hook, wire, files, seen, pending, log, faults>>

-----------------------------------------------------------------------------
(* The server is killed, or closes: ingest.close clears the buffer too.    *)
Stop ==
  /\ server # "down" /\ faults < MaxFaults
  /\ faults' = faults + 1
  /\ server' = "down"
  /\ wire' = {} /\ seen' = <<>> /\ pending' = {} /\ drain' = Idle
  /\ UNCHANGED <<hook, files, log>>

(* startSpoolDrain: the spool is read before the socket listens.           *)
Start ==
  /\ server = "down"
  /\ server' = "starting" /\ drain' = [at |-> "read", taken |-> files]
  /\ UNCHANGED <<hook, wire, files, seen, pending, log, faults>>

Hooking == \E h \in Hooks: SendSocket(h) \/ Spool(h) \/ GiveUp(h)
Reading == \E h \in Hooks: Receive(h)
Flushing == \E n \in 0..Len(Rows(pending)): Flush(n)
Draining ==
  \/ DrainRead \/ DrainApply \/ DrainEnd
  \/ \E h \in Hooks: DrainRemove(h)
Refusing == \E n \in 0..Len(Rows(Hooks)): DrainFails(n)

-----------------------------------------------------------------------------
TypeOK ==
  /\ hook \in [Hooks -> {"new", "sent", "spooled", "gone"}]
  /\ wire \subseteq Hooks /\ files \subseteq Hooks /\ pending \subseteq Hooks
  /\ server \in {"down", "starting", "up"}
  /\ seen \in Seq(Hooks) /\ Len(seen) <= SeenCap
  /\ drain.at \in {"idle", "read", "remove"} /\ drain.taken \subseteq Hooks
  /\ server = "down" => wire = {} /\ pending = {} /\ drain = Idle

(* An event that reached the spool is in the spool until it is in the      *)
(* database, whatever is refused, seen before, drained twice or killed in  *)
(* between.                                                                *)
SpooledIsKept == \A h \in Hooks: hook[h] = "spooled" => h \in files \cup Range(log)
=============================================================================
