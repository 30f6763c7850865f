------------------------------ MODULE Recorder -------------------------------
(***************************************************************************)
(* The deck's view of TurbidAssist's recorder (meetings/recorder.mjs) and  *)
(* the watch that follows each meeting to its summary (post-watch.mjs).    *)
(* scribed is the source of truth: it answers one `status` at a time, on a *)
(* connection of its own for each request, other clients start and stop    *)
(* recordings in it, and its own teardown is invisible.  The deck polls,   *)
(* sends a start or a stop of its own, subscribes, and keeps one row per   *)
(* meeting in its database.                                                *)
(*                                                                         *)
(* The server is one JavaScript thread: an action here is what runs        *)
(* between two awaits.  Transcript lines are not part of the model.        *)
(***************************************************************************)
EXTENDS Naturals, FiniteSets

CONSTANTS
    MaxMeetings, \* bound: sessions scribed records
    MaxStarts,   \* bound: starts the owner asks for
    MaxFaults    \* bound: scribed goes down, a poll is lost, the server is killed, the config changes

ASSUME BoundsAssumption == MaxMeetings \in Nat /\ MaxStarts \in Nat /\ MaxFaults \in Nat

Meetings == 1..MaxMeetings
None == 0 \* no session

VARIABLES
    scribed,   \* [up, rec, closing, born]: what it records, and whether it tears a session down
    manifest,  \* session.json of each session: none, recorded or synthesized
    cut,       \* the sessions whose scribed died under them
    state, meeting, lost, \* the recorder view
    down,      \* the health row says down
    poll,      \* the `status` in flight: its answer, and whether a command was answered meanwhile
    starts,    \* the `start` commands
    stop,      \* the `stop` command in flight
    sub,       \* the subscription up to its only `status`
    rows,      \* the meetings table
    watch,     \* the sessions post-watch follows
    sync,      \* a history sync between its listing and its writing
    boot,      \* the server's start: the first probe, the first sync, up
    faults

view == <<state, meeting, lost, down>>
deck == <<state, meeting, lost, rows, watch>>
requests == <<poll, starts, stop, sub>>
disk == <<manifest, cut>>
vars == <<scribed, manifest, cut, state, meeting, lost, down, poll, starts, stop, sub,
          rows, watch, sync, boot, faults>>

Ids == Meetings \cup {None}
NoPoll == [pc |-> "none"]
NoStop == [pc |-> "none"]
NoSync == [pc |-> "none"]
NoStart == [pc |-> "none"]
NoSub == [pc |-> "none"]
Status == [pc : {"answered"}, says : Ids]

TypeOK ==
    /\ scribed \in [up : BOOLEAN, rec : Ids, closing : Ids, born : Ids]
    /\ manifest \in [Meetings -> {"none", "recorded", "synthesized"}]
    /\ cut \subseteq Meetings
    /\ state \in {"unavailable", "idle", "starting", "recording", "stopping"}
    /\ meeting \in Ids /\ lost \in BOOLEAN /\ down \in BOOLEAN
    /\ sub \in {NoSub, [pc |-> "timer"], [pc |-> "asked"], [pc |-> "open"]} \cup Status
    /\ rows \in [Meetings -> {"none", "recording", "stopping", "recorded", "synthesized"}]
    /\ watch \subseteq Meetings
    /\ boot \in {"probe", "sync", "up"}
    /\ faults \in 0..MaxFaults

Init ==
    /\ scribed = [up |-> TRUE, rec |-> None, closing |-> None, born |-> None]
    /\ manifest = [m \in Meetings |-> "none"] /\ cut = {}
    /\ state = "unavailable" /\ meeting = None /\ lost = FALSE /\ down = FALSE
    /\ poll = NoPoll /\ starts = [n \in 1..MaxStarts |-> NoStart]
    /\ stop = NoStop /\ sub = NoSub
    /\ rows = [m \in Meetings |-> "none"] /\ watch = {}
    /\ sync = NoSync /\ boot = "probe" /\ faults = 0

Fault == faults < MaxFaults /\ faults' = faults + 1

-----------------------------------------------------------------------------
(* What the handlers do to the view, the rows and the watch.               *)

Deck == [state |-> state, meeting |-> meeting, lost |-> lost, rows |-> rows, watch |-> watch]

Set(d) ==
    /\ state' = d.state /\ meeting' = d.meeting /\ lost' = d.lost
    /\ rows' = d.rows /\ watch' = d.watch

(* clearMeeting, and the state after it.                                   *)
Cleared(d, next) == [d EXCEPT !.state = next, !.meeting = None, !.lost = FALSE]

(* closeExternal: the meeting stopped without the deck's stop.             *)
Closed(d, m) == [d EXCEPT !.rows[m] = "stopping", !.watch = @ \cup {m}]

Recording(d, m) ==
    [d EXCEPT !.state = "recording", !.meeting = m, !.lost = FALSE, !.rows[m] = "recording"]

WasLive(d) ==
    /\ d.meeting # None
    /\ d.state \in {"recording", "stopping"} \/ (d.state = "unavailable" /\ d.lost)

(* applyStatus: scribed says it records session `id`, or none.             *)
ApplyStatus(d, id) ==
    LET gone == WasLive(d) /\ d.meeting # id
        after == IF gone THEN Closed(d, d.meeting) ELSE d
    IN  IF d.state = "starting" \/ stop # NoStop THEN d
        ELSE IF id = None THEN Cleared(after, "idle")
        ELSE IF WasLive(d) /\ d.meeting = id
             THEN [d EXCEPT !.lost = FALSE, !.state = "recording"]
        ELSE Recording(after, id)

(* wentDown: a meeting under way keeps its view, marked lost.              *)
WentDown(d) ==
    [d EXCEPT !.state = "unavailable", !.lost = @ \/ d.state \in {"recording", "stopping"}]

(* ensureSubscribed, called wherever the view turns to `recording`.        *)
Subscribed(d) ==
    IF d.state = "recording" /\ sub = NoSub /\ ~down' THEN [pc |-> "asked"] ELSE sub

-----------------------------------------------------------------------------
(* The poll.                                                               *)
PollSend ==
    /\ poll = NoPoll /\ poll' = [pc |-> "asked", fresh |-> TRUE]
    /\ UNCHANGED <<scribed, disk, view, starts, stop, sub, rows, watch, sync, boot, faults>>

(* scribed answers a status request; its teardown is not in it.            *)
PollAnswer ==
    /\ poll.pc = "asked"
    /\ \/ scribed.up /\ poll' = [pc |-> "answered", fresh |-> poll.fresh, says |-> scribed.rec]
       \/ ~scribed.up /\ poll' = [pc |-> "refused"]
    /\ UNCHANGED <<scribed, disk, view, starts, stop, sub, rows, watch, sync, boot, faults>>

(* The answer was applied, or a command was answered since the poll was    *)
(* sent, which leaves it to the next one.                                  *)
PollApplied ==
    /\ poll.pc = "answered" /\ poll' = NoPoll /\ down' = FALSE
    /\ LET next == IF poll.fresh THEN ApplyStatus(Deck, poll.says) ELSE Deck IN
          /\ Set(next)
          /\ sub' = IF poll.fresh /\ stop = NoStop /\ state # "starting" THEN Subscribed(next) ELSE sub
    /\ boot' = IF boot = "probe" THEN "sync" ELSE boot
    /\ UNCHANGED <<scribed, disk, starts, stop, sync, faults>>

(* ScribedUnavailable.                                                     *)
PollRefused ==
    /\ poll.pc = "refused" /\ poll' = NoPoll /\ down' = TRUE
    /\ Set(WentDown(Deck)) /\ sub' = NoSub
    /\ boot' = IF boot = "probe" THEN "sync" ELSE boot
    /\ UNCHANGED <<scribed, disk, starts, stop, sync, faults>>

(* A timeout or a protocol error: degraded, and the view is left alone.    *)
PollLost ==
    /\ Fault /\ poll.pc = "answered" /\ poll' = NoPoll /\ down' = FALSE
    /\ boot' = IF boot = "probe" THEN "sync" ELSE boot
    /\ UNCHANGED <<scribed, disk, deck, starts, stop, sub, sync>>

-----------------------------------------------------------------------------
(* The subscription: one status, then transcript lines until its end.      *)
SubAnswer ==
    /\ sub.pc = "asked" /\ scribed.up
    /\ sub' = [pc |-> "answered", says |-> scribed.rec]
    /\ UNCHANGED <<scribed, disk, view, poll, starts, stop, rows, watch, sync, boot, faults>>

SubStatus ==
    /\ sub.pc = "answered" /\ sub' = [pc |-> "open"]
    /\ Set(ApplyStatus(Deck, sub.says))
    /\ UNCHANGED <<scribed, disk, down, poll, starts, stop, sync, boot, faults>>

(* onClose, and the timer of its reconnect.                                *)
SubClosed ==
    /\ sub.pc \in {"asked", "open"} /\ ~scribed.up
    /\ sub' = IF down THEN NoSub ELSE [pc |-> "timer"]
    /\ UNCHANGED <<scribed, disk, view, poll, starts, stop, rows, watch, sync, boot, faults>>

SubTimer ==
    /\ sub.pc = "timer" /\ sub' = IF down THEN NoSub ELSE [pc |-> "asked"]
    /\ UNCHANGED <<scribed, disk, view, poll, starts, stop, rows, watch, sync, boot, faults>>

-----------------------------------------------------------------------------
(* `start`: the view is cleared, and a meeting that was lost when scribed  *)
(* went down is kept until the answer says what became of it.              *)
(* Seeded fault: a command's answer bumps no epoch.                        *)
StaleNot == poll' = poll

(* A command's answer: a poll sent before it is not applied.               *)
Stale == poll' = IF "fresh" \in DOMAIN poll THEN [poll EXCEPT !.fresh = FALSE] ELSE poll

StartSend(n) ==
    /\ boot = "up" /\ starts[n] = NoStart /\ \A k \in 1..(n - 1) : starts[k] # NoStart
    /\ state \in {"idle", "unavailable"} /\ stop = NoStop
    /\ starts' = [starts EXCEPT ![n] =
           [pc |-> "asked", previous |-> IF state = "unavailable" /\ lost THEN meeting ELSE None]]
    /\ Set(Cleared(Deck, "starting"))
    /\ UNCHANGED <<scribed, disk, down, poll, stop, sub, sync, boot, faults>>

Says(n, answer) == starts' = [starts EXCEPT ![n] = [pc |-> answer, previous |-> starts[n].previous]]

(* scribed starts a session, with or without naming it, or refuses, or the *)
(* deck's timer runs out before or after it started.                       *)
StartAnswer(n) ==
    /\ starts[n].pc = "asked" /\ scribed.up
    /\ \/ /\ scribed.rec = None /\ scribed.closing = None /\ scribed.born < MaxMeetings
          /\ scribed' = [scribed EXCEPT !.rec = scribed.born + 1, !.born = scribed.born + 1]
          /\ \/ starts' = [starts EXCEPT ![n] = [pc |-> "ok", previous |-> starts[n].previous,
                                                 session |-> scribed.born + 1]]
             \/ Says(n, "unnamed") \/ Says(n, "timeout")
       \/ /\ scribed.rec # None \/ scribed.closing # None \/ scribed.born = MaxMeetings
          /\ Says(n, "refused") /\ UNCHANGED scribed
       \/ Says(n, "timeout") /\ UNCHANGED scribed
    /\ UNCHANGED <<disk, view, poll, stop, sub, rows, watch, sync, boot, faults>>

StartUnreached(n) ==
    /\ starts[n].pc = "asked" /\ ~scribed.up /\ Says(n, "unavailable")
    /\ UNCHANGED <<scribed, disk, view, poll, stop, sub, rows, watch, sync, boot, faults>>

(* Seeded fault: the lost meeting is not kept.                             *)
SettledForgetting(previous) == [Deck EXCEPT !.state = "idle"]

(* settle: the lost meeting is put back for the next poll to decide.       *)
Settled(previous) ==
    IF previous # None
    THEN [Deck EXCEPT !.state = "unavailable", !.meeting = previous, !.lost = TRUE]
    ELSE [Deck EXCEPT !.state = "idle"]

Answered(n) == starts' = [starts EXCEPT ![n] = [pc |-> "over"]]

StartDone(n) ==
    /\ starts[n].pc = "ok" /\ Answered(n) /\ Stale
    /\ LET id == starts[n].session  previous == starts[n].previous
           next == Recording(IF previous \notin {None, id} THEN Closed(Deck, previous) ELSE Deck, id)
       IN  Set([next EXCEPT !.lost = lost]) /\ UNCHANGED down /\ sub' = Subscribed(next)
    /\ UNCHANGED <<scribed, disk, stop, sync, boot, faults>>

StartUndecided(n) ==
    /\ starts[n].pc \in {"unnamed", "timeout", "refused"} /\ Answered(n) /\ Stale
    /\ Set(Settled(starts[n].previous))
    /\ UNCHANGED <<scribed, disk, down, stop, sub, sync, boot, faults>>

StartFailed(n) ==
    /\ starts[n].pc = "unavailable" /\ Answered(n) /\ Stale
    /\ Set(WentDown(Settled(starts[n].previous))) /\ down' = TRUE /\ sub' = NoSub
    /\ UNCHANGED <<scribed, disk, stop, sync, boot, faults>>

-----------------------------------------------------------------------------
(* `stop` answers once scribed has torn the session down, tens of seconds  *)
(* later; polls are ignored until then.                                    *)
StopSend ==
    /\ boot = "up" /\ state = "recording" /\ meeting # None /\ stop = NoStop
    /\ stop' = [pc |-> "asked", of |-> meeting]
    /\ Set([Deck EXCEPT !.state = "stopping", !.rows[meeting] = "stopping"])
    /\ UNCHANGED <<scribed, disk, down, poll, starts, sub, sync, boot, faults>>

StopTaken ==
    /\ stop.pc = "asked" /\ scribed.up
    /\ \/ /\ scribed.rec # None
          /\ scribed' = [scribed EXCEPT !.rec = None, !.closing = scribed.rec]
          /\ stop' = [stop EXCEPT !.pc = "taken"]
       \/ scribed.rec = None /\ stop' = [stop EXCEPT !.pc = "failed"] /\ UNCHANGED scribed
    /\ UNCHANGED <<disk, view, poll, starts, sub, rows, watch, sync, boot, faults>>

StopAnswer ==
    /\ stop.pc \in {"asked", "taken"}
    /\ \/ scribed.up /\ stop.pc = "taken" /\ scribed.closing = None /\ stop' = [stop EXCEPT !.pc = "ok"]
       \/ ~scribed.up /\ stop' = [stop EXCEPT !.pc = "failed"]
    /\ UNCHANGED <<scribed, disk, view, poll, starts, sub, rows, watch, sync, boot, faults>>

StopDone ==
    /\ stop.pc = "ok" /\ stop' = NoStop /\ Stale
    /\ LET m == stop.of
           done == [Deck EXCEPT !.rows[m] = "recorded", !.watch = @ \cup {m}]
       IN  Set(IF meeting = m /\ state = "stopping" THEN Cleared(done, "idle")
               ELSE IF meeting = m /\ state = "unavailable" THEN Cleared(done, "unavailable")
               ELSE done)
    /\ UNCHANGED <<scribed, disk, down, starts, sub, sync, boot, faults>>

(* The next poll decides.                                                  *)
StopFailed ==
    /\ stop.pc = "failed" /\ stop' = NoStop /\ Stale
    /\ UNCHANGED <<scribed, disk, view, starts, sub, rows, watch, sync, boot, faults>>

-----------------------------------------------------------------------------
(* post-watch: a look at session.json of a session that is followed.       *)
PostState(m) == IF manifest[m] = "none" THEN "stopping" ELSE manifest[m]

(* Seeded fault: the watch ends with the manifest.                         *)
CheckEndsEarly(m) ==
    /\ m \in watch /\ rows[m] # "none" /\ rows[m] # PostState(m)
    /\ rows' = [rows EXCEPT ![m] = PostState(m)]
    /\ watch' = IF manifest[m] # "none" THEN watch \ {m} ELSE watch
    /\ UNCHANGED <<scribed, disk, view, requests, sync, boot, faults>>

Check(m) ==
    /\ m \in watch /\ rows[m] # "none"
    /\ rows[m] # PostState(m) \/ manifest[m] = "synthesized"
    /\ rows' = [rows EXCEPT ![m] = PostState(m)]
    /\ watch' = IF manifest[m] = "synthesized" THEN watch \ {m} ELSE watch
    /\ UNCHANGED <<scribed, disk, view, requests, sync, boot, faults>>

(* syncMeetings: at the server's start, and when the config changes.  The  *)
(* session being recorded is read from the view, the directory after that. *)
Listed(recording, m) ==
    IF manifest[m] # "none" THEN manifest[m]
    ELSE IF m = recording THEN "recording" ELSE "stopping"

SyncRead ==
    /\ sync = NoSync
    /\ \/ boot = "sync" /\ UNCHANGED faults
       \/ boot = "up" /\ Fault
    /\ LET recording == IF state \in {"recording", "stopping"} THEN meeting ELSE None IN
          sync' = [pc |-> "listed", at |-> scribed.born,
                   list |-> [m \in Meetings |-> Listed(recording, m)],
                   known |-> {m \in Meetings : manifest[m] # "none"}]
    /\ UNCHANGED <<scribed, disk, view, requests, rows, watch, boot>>

(* Rows of the sessions listed, unless neither a manifest nor a row names  *)
(* the tag; whoever is to be followed is, nobody else, and a session cut   *)
(* off an hour ago is not.                                                 *)
SyncWrite ==
    /\ sync.pc = "listed" /\ sync' = NoSync
    /\ LET there == 1..sync.at
           told == {m \in there : rows[m] # "none" \/ m \in sync.known}
       IN \E old \in SUBSET (cut \cap told) :
            /\ rows' = [m \in Meetings |-> IF m \in told THEN sync.list[m]
                                           ELSE IF m \in there THEN rows[m] ELSE "none"]
            /\ watch' = {m \in told \ old : sync.list[m] \notin {"synthesized", "recording"}}
    /\ boot' = "up"
    /\ UNCHANGED <<scribed, disk, view, requests, faults>>

-----------------------------------------------------------------------------
(* scribed, its other clients and the batch after a meeting.               *)
OtherStarts ==
    /\ scribed.up /\ scribed.rec = None /\ scribed.closing = None /\ scribed.born < MaxMeetings
    /\ scribed' = [scribed EXCEPT !.rec = scribed.born + 1, !.born = scribed.born + 1]
    /\ UNCHANGED <<disk, view, requests, rows, watch, sync, boot, faults>>

OtherStops ==
    /\ scribed.up /\ scribed.rec # None
    /\ scribed' = [scribed EXCEPT !.rec = None, !.closing = scribed.rec]
    /\ UNCHANGED <<disk, view, requests, rows, watch, sync, boot, faults>>

TornDown ==
    /\ scribed.up /\ scribed.closing # None
    /\ manifest' = [manifest EXCEPT ![scribed.closing] = "recorded"]
    /\ scribed' = [scribed EXCEPT !.closing = None]
    /\ UNCHANGED <<cut, view, requests, rows, watch, sync, boot, faults>>

Summarised(m) ==
    /\ manifest[m] = "recorded" /\ manifest' = [manifest EXCEPT ![m] = "synthesized"]
    /\ UNCHANGED <<scribed, cut, view, requests, rows, watch, sync, boot, faults>>

(* scribed dies, with the session it had, or only its socket goes.         *)
Goes ==
    /\ Fault /\ scribed.up
    /\ \/ /\ scribed' = [scribed EXCEPT !.up = FALSE, !.rec = None, !.closing = None]
          /\ cut' = cut \cup ({scribed.rec, scribed.closing} \ {None})
       \/ scribed' = [scribed EXCEPT !.up = FALSE] /\ UNCHANGED cut
    /\ UNCHANGED <<manifest, view, requests, rows, watch, sync, boot>>

(* Connections break with it: it is back only after the requests it owed   *)
(* an answer have failed.                                                  *)
Returns ==
    /\ ~scribed.up /\ scribed' = [scribed EXCEPT !.up = TRUE]
    /\ \A n \in 1..MaxStarts : starts[n].pc \in {"none", "over"}
    /\ stop = NoStop /\ sub.pc \notin {"asked", "open"} /\ poll.pc # "refused"
    /\ UNCHANGED <<disk, view, requests, rows, watch, sync, boot, faults>>

(* The server is killed and started again: rows stay, nothing else.        *)
Restart ==
    /\ Fault
    /\ state' = "unavailable" /\ meeting' = None /\ lost' = FALSE /\ down' = FALSE
    /\ poll' = NoPoll /\ stop' = NoStop /\ sub' = NoSub
    /\ starts' = [n \in 1..MaxStarts |-> IF starts[n] = NoStart THEN NoStart ELSE [pc |-> "over"]]
    /\ watch' = {} /\ sync' = NoSync /\ boot' = "probe"
    /\ UNCHANGED <<scribed, disk, rows>>

-----------------------------------------------------------------------------
Polling == PollSend \/ PollAnswer \/ PollApplied \/ PollRefused
Subscription == SubAnswer \/ SubStatus \/ SubClosed \/ SubTimer
Starting(n) == StartAnswer(n) \/ StartUnreached(n) \/ StartDone(n) \/ StartUndecided(n) \/ StartFailed(n)
Stopping == StopTaken \/ StopAnswer \/ StopDone \/ StopFailed
Syncing == (boot # "up" /\ SyncRead) \/ SyncWrite
Scribed == TornDown \/ Returns \/ \E m \in Meetings : Summarised(m)

Next ==
    \/ Polling \/ PollLost \/ Subscription \/ Stopping \/ StopSend \/ SyncRead \/ SyncWrite
    \/ \E n \in 1..MaxStarts : StartSend(n) \/ Starting(n)
    \/ \E m \in Meetings : Check(m)
    \/ Scribed \/ OtherStarts \/ OtherStops \/ Goes \/ Restart

Spec == Init /\ [][Next]_vars

Fairness ==
    /\ WF_vars(Polling) /\ WF_vars(Subscription) /\ WF_vars(Stopping) /\ WF_vars(Syncing)
    /\ \A n \in 1..MaxStarts : WF_vars(Starting(n))
    /\ \A m \in Meetings : WF_vars(Check(m)) /\ WF_vars(Summarised(m))
    /\ WF_vars(TornDown) /\ SF_vars(Returns)

(* A prompt step: the status of a subscription, which no epoch guards, is  *)
(* applied before scribed answers anything else; and the recording at hand *)
(* stays what it is while a sync lists the directory.                      *)
CommandAnswered ==
    \/ stop # NoStop /\ stop' = NoStop
    \/ \E n \in 1..MaxStarts : starts[n].pc # "over" /\ starts'[n].pc = "over"

Prompt ==
    /\ sub'.pc = "answered" => poll'.pc # "answered" /\ ~CommandAnswered
    /\ sync.pc = "listed" /\ sync'.pc = "listed" => UNCHANGED <<meeting, state>>

FairSpec == Init /\ [][Next /\ Prompt]_vars /\ Fairness

-----------------------------------------------------------------------------
Underway == {starts[n].previous : n \in {k \in 1..MaxStarts : starts[k].pc \notin {"none", "over"}}}

Stop == IF stop = NoStop THEN None ELSE stop.of

(* Nobody is left behind: a meeting whose row says `recording` is the one  *)
(* the deck shows, or the lost one a start under way may still close, and  *)
(* one that stopped is followed until its summary is there, unless its     *)
(* scribed died under it ("Rows 12 and 14: the meeting stopped without the *)
(* deck's stop. Its row is `stopping` until the post-recording watch sees  *)
(* session.json").                                                         *)
RowsFollow ==
    /\ TypeOK
    /\ boot = "up" => \A m \in Meetings :
          /\ rows[m] = "recording" => m = meeting \/ m \in Underway
          /\ rows[m] \in {"stopping", "recorded"} =>
                m \in watch \cup cut \cup Underway \cup {meeting, Stop}

(* What the recorder hands over to the watch is over: no status that was   *)
(* on its way while a command was answered ends a meeting scribed records  *)
(* ("Bumped by every command outcome, so a poll sent before it cannot undo *)
(* it").  Not so a sync: while the view is `unavailable` it lists a        *)
(* meeting scribed records as stopping and has it followed.                *)
StoppedIsTrue ==
    [][\A m \in Meetings : m \in watch' \ watch /\ sync' = sync => scribed.rec # m]_vars

(* Once scribed records a meeting no more its row says so, and once its    *)
(* summary is written the row says that.                                   *)
MeetingsSettle ==
    \A m \in Meetings :
        /\ rows[m] = "recording" /\ scribed.rec # m ~> rows[m] # "recording"
        /\ rows[m] # "none" /\ manifest[m] = "synthesized" ~> rows[m] = "synthesized"
=============================================================================
