------------------------------ MODULE EventHub ------------------------------
(***************************************************************************)
(* One browser tab that follows the event log: the server half of          *)
(* server/ws/hub.mjs (hello, snapshot or replay, publish) and the client   *)
(* half of web/src/state/api.js (connection) and deck-store.js (receive).  *)
(*                                                                         *)
(* Events are named by their seq, 1..head.  The data a tab shows is the    *)
(* set of events it reflects.  The wire keeps order; a connection that is  *)
(* dropped takes along what is on it.                                      *)
(***************************************************************************)
EXTENDS Integers, Sequences, FiniteSets, SequencesExt

CONSTANTS
  WireCap,     (* frames a socket buffers before its consumer is slow       *)
  PendingCap,  (* events a socket may collect while its snapshot is built   *)
  MaxRows,     (* the LIMIT of a replay                                     *)
  MaxDrops     (* bound: how often the network drops the connection         *)

VARIABLES
  head,    (* the seq of the newest event                                   *)
  old,     (* events whose time is over 10 minutes ago; the time is the     *)
           (* hook's, so a late hook's event is old when it is appended     *)
  conn,    (* server side of the connection: its state, the events pending  *)
           (* for it, the seq it was sent last, the snapshot being built    *)
  hello,   (* the lastSeq the tab said, or -1                               *)
  down,    (* frames on their way to the tab                                *)
  tab,     (* the tab: its link, and the state of deck-store                *)
  drops

hubVars == <<head, old, conn, hello, down, tab, drops>>

None == -1
Gone == [st |-> "gone", pending |-> <<>>, seq |-> 0, snap |-> 0]
Event(n) == [t |-> "event", seq |-> n]
Events(ns) == [i \in 1..Len(ns) |-> Event(ns[i])]

(* send: frames go out until the buffer is full; the first one that does   *)
(* not fit closes the socket (1013), and a closed socket sends nothing.    *)
Sent(frames) == SubSeq(frames, 1, Min({Len(frames), WireCap - Len(down)}))
Fits(frames) == Len(down) + Len(frames) <= WireCap

Send(frames, ready) ==
  /\ down' = down \o Sent(frames)
  /\ conn' = IF Fits(frames) THEN ready ELSE [ready EXCEPT !.st = "closed"]

(* Of events in the order of their seq those that are newer than one.      *)
Newer(ns, seq) == SubSeq(ns, 1 + Cardinality({i \in DOMAIN ns: ns[i] <= seq}), Len(ns))

-----------------------------------------------------------------------------
HubInit ==
  /\ head \in Nat /\ old = {}
  /\ conn = Gone /\ hello = None /\ down = <<>> /\ drops = 0
  /\ tab = [link |-> "off", loaded |-> FALSE, syncing |-> FALSE, replaying |-> FALSE,
            seq |-> 0, have |-> {}, buffer |-> <<>>]

(* ws.onopen: resync, and hello with the seq of the store.                 *)
Open ==
  /\ tab.link = "off"
  /\ tab' = [tab EXCEPT !.link = "resyncing", !.syncing = TRUE, !.replaying = FALSE, !.buffer = <<>>]
  /\ hello' = tab.seq
  /\ conn' = [Gone EXCEPT !.st = "open"]
  /\ down' = <<>>
  /\ UNCHANGED <<head, old, drops>>

(* The rows of the last 10 minutes, the newest MaxRows of them, by seq.    *)
Recent ==
  LET rows == SelectSeq([n \in 1..head |-> n], LAMBDA n: n \notin old)
  IN  IF Len(rows) > MaxRows THEN SubSeq(rows, Len(rows) - MaxRows + 1, Len(rows)) ELSE rows

Missed(lastSeq) == Newer(Recent, lastSeq)

(* A broken offer that does not look for missing events.                   *)
ReplayableByEnds(lastSeq) ==
  /\ lastSeq > 0 /\ lastSeq <= head
  /\ Recent # <<>>
  /\ lastSeq >= Recent[1] - 1 /\ Last(Recent) = head

(* A replay is offered when the newest event is among the rows and they    *)
(* reach back to lastSeq, and made when no event is missing in between.    *)
Replayable(lastSeq) ==
  /\ lastSeq > 0 /\ lastSeq <= head
  /\ Recent # <<>>
  /\ lastSeq >= Recent[1] - 1 /\ Last(Recent) = head
  /\ Missed(lastSeq) = [i \in 1..(head - lastSeq) |-> lastSeq + i]

(* hello: the missed events at once ...                                    *)
Replay ==
  /\ conn.st = "open" /\ hello # None /\ Replayable(hello)
  /\ Send(<<[t |-> "begin"]>> \o Events(Missed(hello)) \o <<[t |-> "end", seq |-> head]>>,
          [conn EXCEPT !.st = "ready", !.seq = head])
  /\ hello' = None
  /\ UNCHANGED <<head, old, tab, drops>>

(* ... or a snapshot, whose rows are read now and which is sent after      *)
(* other awaits.                                                           *)
Snapshot ==
  /\ conn.st = "open" /\ hello # None /\ ~Replayable(hello)
  /\ conn' = [conn EXCEPT !.st = "syncing", !.snap = head]
  /\ hello' = None
  /\ UNCHANGED <<head, old, down, tab, drops>>

SnapshotSent ==
  /\ conn.st = "syncing"
  /\ LET after == Newer(conn.pending, conn.snap) IN
     Send(<<[t |-> "snapshot", seq |-> conn.snap]>> \o Events(after),
          [conn EXCEPT !.st = "ready", !.pending = <<>>, !.snap = 0,
                       !.seq = IF after = <<>> THEN conn.snap ELSE Last(after)])
  /\ UNCHANGED <<head, old, hello, tab, drops>>

(* The commit of events up to n, each published in turn: collected while   *)
(* the snapshot is built, sent to a ready socket when newer than its seq.  *)
Publish(n) ==
  LET new == [i \in 1..(n - head) |-> head + i] IN
  /\ n > head
  /\ head' = n
  /\ \/ /\ conn.st = "syncing"
        /\ LET all == conn.pending \o new
           IN  conn' = [conn EXCEPT !.pending = all,
                                    !.st = IF Len(all) > PendingCap THEN "closed" ELSE @]
        /\ UNCHANGED down
     \/ /\ conn.st = "ready"
        /\ LET newer == Newer(new, conn.seq)
           IN  Send(Events(newer), [conn EXCEPT !.seq = n])
     \/ /\ conn.st \notin {"syncing", "ready"}
        /\ UNCHANGED <<conn, down>>
  /\ UNCHANGED <<old, hello, tab, drops>>

(* An event leaves the last 10 minutes.                                    *)
Age ==
  /\ \E n \in 1..head \ old: old' = old \cup {n}
  /\ UNCHANGED <<head, conn, hello, down, tab, drops>>

-----------------------------------------------------------------------------
(* applyEvent.                                                             *)
Shown(t, n) == [t EXCEPT !.have = @ \cup {n}, !.seq = n]

(* flush (deck-store.js): the buffered events that are newer.              *)
FlushBuffer(t) ==
  LET newer == {n \in Range(t.buffer): n > t.seq}
  IN  [t EXCEPT !.buffer = <<>>, !.have = @ \cup newer, !.seq = Max(newer \cup {@})]

OnSnapshot(t, f) ==
  FlushBuffer([t EXCEPT !.loaded = TRUE, !.syncing = FALSE, !.replaying = FALSE,
                        !.seq = f.seq, !.have = 1..f.seq, !.link = "live"])

OnReplayEnd(t, f) ==
  FlushBuffer([t EXCEPT !.replaying = FALSE, !.syncing = FALSE, !.link = "live",
                        !.seq = IF f.seq > @ THEN f.seq ELSE @])

OnEvent(t, n) ==
  IF ~t.loaded \/ (t.syncing /\ ~t.replaying) THEN [t EXCEPT !.buffer = Append(@, n)]
  ELSE IF n <= t.seq THEN t ELSE Shown(t, n)

(* receive (deck-store.js), one frame.                                     *)
TabReceives ==
  /\ tab.link # "off" /\ down # <<>>
  /\ down' = Tail(down)
  /\ LET f == Head(down) IN
     \/ f.t = "snapshot" /\ tab' = OnSnapshot(tab, f)
     \/ f.t = "begin"    /\ tab' = [tab EXCEPT !.replaying = TRUE]
     \/ f.t = "end"      /\ tab' = OnReplayEnd(tab, f)
     \/ f.t = "event"    /\ tab' = OnEvent(tab, f.seq)
  /\ UNCHANGED <<head, old, conn, hello, drops>>

Off == tab' = [tab EXCEPT !.link = "off"] /\ conn' = Gone /\ hello' = None /\ down' = <<>>

(* onclose, after the frames the server had sent.                          *)
TabClosed ==
  /\ tab.link # "off" /\ conn.st = "closed" /\ down = <<>>
  /\ Off
  /\ UNCHANGED <<head, old, drops>>

(* The connection breaks, or nothing came for 30 s, and the frames on the  *)
(* wire are lost.                                                          *)
Drop ==
  /\ tab.link # "off" /\ drops < MaxDrops
  /\ drops' = drops + 1
  /\ Off
  /\ UNCHANGED <<head, old>>

(* The server stops: what it sent may still arrive.                        *)
HubGone ==
  /\ conn' = IF conn.st = "gone" THEN conn ELSE [Gone EXCEPT !.st = "closed"]
  /\ hello' = None
  /\ UNCHANGED <<head, old, down, tab, drops>>

-----------------------------------------------------------------------------
HubTypeOK ==
  /\ head \in Nat /\ old \subseteq 1..head
  /\ conn.st \in {"gone", "open", "syncing", "ready", "closed"}
  /\ conn.pending \in Seq(1..head) /\ conn.seq \in 0..head /\ conn.snap \in 0..head
  /\ conn.st # "syncing" => conn.pending = <<>> \/ conn.st = "closed"
  /\ hello \in {None} \cup 0..head
  /\ Len(down) <= WireCap
  /\ tab.link \in {"off", "resyncing", "live"} /\ tab.seq \in 0..head
  /\ tab.have \subseteq 1..head
=============================================================================
