--------------------------- MODULE RecorderProofs ---------------------------
(***************************************************************************)
(* Theorems about module Recorder, for any meetings, starts and faults:    *)
(* every meeting is followed to its summary, and no status that was on its *)
(* way while a command was answered ends a meeting scribed records.        *)
(***************************************************************************)
EXTENDS Recorder, FiniteSetTheorems, SequenceTheorems, TLAPS

(* The owner starts again only when the start before was answered.  Of two *)
(* that overlap, the second sent when scribed went down under the first,   *)
(* the later one to fail forgets the meeting the first has put in the view *)
(* (setState in settle, without `lost`), whose row stays `recording`: TLC  *)
(* finds it with two starts, and the theorems say what holds otherwise.    *)
InTurn ==
    \A n \in 1..MaxStarts : starts[n] = NoStart /\ starts'[n] # NoStart =>
        \A k \in 1..(n - 1) : starts[k].pc = "over"

Step == Next /\ Prompt /\ InTurn

(* What the requests can be.                                               *)
Undecided == {"asked", "unnamed", "timeout", "refused", "unavailable"}
PollOK ==
  poll \in {NoPoll, [pc |-> "refused"]} \cup [pc : {"asked"}, fresh : BOOLEAN]
           \cup [pc : {"answered"}, fresh : BOOLEAN, says : Ids]
StartsOK ==
  starts \in [1..MaxStarts -> {NoStart, [pc |-> "over"]}
                              \cup [pc : Undecided, previous : Ids]
                              \cup [pc : {"ok"}, previous : Ids, session : Meetings]]
StopOK == stop \in {NoStop} \cup [pc : {"asked", "taken", "ok", "failed"}, of : Meetings]
SyncOK ==
  sync \in {NoSync} \cup [pc : {"listed"}, at : Ids, known : SUBSET Meetings,
             list : [Meetings -> {"stopping", "recording", "recorded", "synthesized"}]]

Under(n) == starts[n].pc \notin {"none", "over"}
Kept(m) == \E n \in 1..MaxStarts : Under(n) /\ starts[n].previous = m

(* Sessions are born one after another and named by their turn.            *)
Ages ==
  /\ meeting <= scribed.born /\ scribed.rec <= scribed.born
  /\ stop # NoStop => stop.of <= scribed.born
  /\ \A n \in 1..MaxStarts : Under(n) => starts[n].previous <= scribed.born
HeardIsBorn ==
  /\ poll.pc = "answered" => poll.says <= scribed.born
  /\ sub.pc = "answered" => sub.says <= scribed.born
  /\ \A n \in 1..MaxStarts : starts[n].pc = "ok" => starts[n].session <= scribed.born

(* While a start is under way the view has no meeting; when it is not      *)
(* `starting` scribed went down, and no status arrives until it is over.   *)
OneStart ==
  \A n, k \in 1..MaxStarts :
     /\ Under(n) /\ Under(k) => n = k
     /\ starts[n] = NoStart /\ n < k => starts[k] = NoStart
StartWaits ==
  \A n \in 1..MaxStarts : Under(n) =>
     /\ meeting = None /\ ~lost /\ stop = NoStop
     /\ \/ state = "starting"
        \/ state = "unavailable" /\ ~scribed.up /\ sub = NoSub /\ poll.pc # "answered"

(* A meeting in the view is being recorded, being stopped or lost, and a   *)
(* stop under way is its own.                                              *)
MeetingIsLive ==
  meeting # None => state \in {"recording", "stopping"} \/ (state = "unavailable" /\ lost)
StopWaits == stop # NoStop => meeting = stop.of /\ state \in {"stopping", "unavailable"}
ListIsNow ==
  sync.pc = "listed" => \A m \in Meetings : sync.list[m] = "recording" => m = meeting

(* What is on its way about the meeting in the view is still true of it.   *)
RefusedIsDown == poll.pc = "refused" => ~scribed.up
OneStatus == ~(poll.pc = "answered" /\ sub.pc = "answered")
StatusTells ==
  scribed.rec = meeting /\ meeting # None =>
    /\ poll.pc = "answered" /\ poll.fresh => poll.says = meeting
    /\ sub.pc = "answered" => sub.says = meeting
StopTells == stop.pc \in {"taken", "ok"} => scribed.rec # stop.of
StartTells ==
  \A n \in 1..MaxStarts :
     starts[n].pc = "ok" /\ starts[n].previous \notin {None, starts[n].session} =>
        scribed.rec # starts[n].previous

RowsOK ==
  boot = "up" => \A m \in Meetings :
     /\ rows[m] = "recording" => m = meeting \/ Kept(m)
     /\ rows[m] \in {"stopping", "recorded"} => m \in watch \cup cut \/ Kept(m) \/ m \in {meeting, Stop}

IInv ==
  /\ TypeOK /\ PollOK /\ StartsOK /\ StopOK /\ SyncOK /\ Ages /\ HeardIsBorn
  /\ OneStart /\ StartWaits /\ MeetingIsLive /\ StopWaits /\ ListIsNow
  /\ RefusedIsDown /\ OneStatus /\ StatusTells /\ StopTells /\ StartTells /\ RowsOK

-----------------------------------------------------------------------------
(* Whatever scribed does, it goes on with its session, ends it or starts   *)
(* one nobody has heard of.                                                *)
Grows ==
  /\ scribed' \in [up : BOOLEAN, rec : Ids, closing : Ids, born : Ids]
  /\ scribed.born <= scribed'.born /\ scribed'.rec <= scribed'.born
  /\ scribed'.rec \in {None, scribed.rec} \/ scribed'.rec > scribed.born

LEMMA ScribedIs ==
  ASSUME IInv
  PROVE  /\ scribed \in [up : BOOLEAN, rec : Ids, closing : Ids, born : Ids]
         /\ scribed.up \in BOOLEAN /\ scribed.rec \in Ids /\ scribed.closing \in Ids
         /\ scribed.born \in Ids /\ scribed.rec <= scribed.born /\ meeting <= scribed.born
         /\ Ids = 0..MaxMeetings /\ meeting \in Ids
  BY BoundsAssumption DEF IInv, TypeOK, Ages, Ids, Meetings, None

LEMMA SessionStarts ==
  ASSUME IInv, scribed.born < MaxMeetings,
         scribed' = [scribed EXCEPT !.rec = scribed.born + 1, !.born = scribed.born + 1]
  PROVE  Grows /\ scribed.born + 1 \in Meetings /\ scribed'.rec = scribed.born + 1
  <1>1. scribed.born + 1 \in Ids /\ scribed.born + 1 \in Meetings
    BY ScribedIs, BoundsAssumption DEF Ids, Meetings, None
  <1>2. scribed'.rec = scribed.born + 1 /\ scribed'.born = scribed.born + 1
    BY ScribedIs
  <1>3. scribed' \in [up : BOOLEAN, rec : Ids, closing : Ids, born : Ids]
    BY <1>1, ScribedIs
  <1> QED
    BY <1>1, <1>2, <1>3, ScribedIs, BoundsAssumption DEF Grows

LEMMA SessionEnds ==
  ASSUME IInv, NEW up \in BOOLEAN, NEW closing \in Ids,
         scribed' = [scribed EXCEPT !.up = up, !.rec = None, !.closing = closing]
  PROVE  Grows
  <1>1. None \in Ids
    BY DEF Ids
  <1>2. scribed' \in [up : BOOLEAN, rec : Ids, closing : Ids, born : Ids]
    BY <1>1, ScribedIs
  <1>3. scribed'.rec = None /\ scribed'.born = scribed.born
    BY ScribedIs
  <1> QED
    BY <1>2, <1>3, ScribedIs, BoundsAssumption DEF Grows, None

LEMMA SessionStays ==
  ASSUME IInv, scribed'.rec = scribed.rec, scribed'.born = scribed.born,
         scribed' \in [up : BOOLEAN, rec : Ids, closing : Ids, born : Ids]
  PROVE  Grows
  BY ScribedIs, BoundsAssumption DEF Grows

LEMMA ScribedGrows ==
  ASSUME IInv,
         \/ \E n \in 1..MaxStarts : StartAnswer(n)
         \/ OtherStarts \/ OtherStops \/ TornDown \/ Goes \/ StopTaken \/ Returns
  PROVE  Grows
  <1>1. ASSUME NEW n \in 1..MaxStarts, StartAnswer(n)
        PROVE  Grows
    <2>1. UNCHANGED scribed \/ (scribed.born < MaxMeetings /\ scribed' =
             [scribed EXCEPT !.rec = scribed.born + 1, !.born = scribed.born + 1])
      BY <1>1 DEF StartAnswer
    <2> QED
      BY <2>1, SessionStarts, SessionStays, ScribedIs
  <1>2. CASE OtherStarts
    BY <1>2, SessionStarts DEF OtherStarts
  <1>3. CASE OtherStops
    <2>1. scribed' = [scribed EXCEPT !.up = scribed.up, !.rec = None, !.closing = scribed.rec]
      BY <1>3, ScribedIs DEF OtherStops
    <2> QED
      BY <2>1, SessionEnds, ScribedIs
  <1>4. CASE TornDown
    <2>1. scribed' = [scribed EXCEPT !.closing = None] /\ None \in Ids
      BY <1>4 DEF TornDown, Ids
    <2> QED
      BY <2>1, SessionStays, ScribedIs
  <1>5. CASE Goes
    <2>1. CASE scribed' = [scribed EXCEPT !.up = FALSE, !.rec = None, !.closing = None]
      BY <2>1, SessionEnds DEF Ids
    <2>2. CASE scribed' = [scribed EXCEPT !.up = FALSE]
      BY <2>2, SessionStays, ScribedIs
    <2> QED
      BY <1>5, <2>1, <2>2 DEF Goes
  <1>6. CASE StopTaken
    <2>1. CASE scribed' = [scribed EXCEPT !.rec = None, !.closing = scribed.rec]
      <3>1. scribed' = [scribed EXCEPT !.up = scribed.up, !.rec = None, !.closing = scribed.rec]
        BY <2>1, ScribedIs
      <3> QED
        BY <3>1, SessionEnds, ScribedIs
    <2>2. CASE UNCHANGED scribed
      BY <2>2, SessionStays, ScribedIs
    <2> QED
      BY <1>6, <2>1, <2>2 DEF StopTaken
  <1>7. CASE Returns
    <2>1. scribed' = [scribed EXCEPT !.up = TRUE]
      BY <1>7 DEF Returns
    <2> QED
      BY <2>1, SessionStays, ScribedIs
  <1> QED
    BY <1>1, <1>2, <1>3, <1>4, <1>5, <1>6, <1>7

(* What is said of sessions that are known stays true.                     *)
LEMMA NewsIsNew ==
  ASSUME IInv, Grows, UNCHANGED <<meeting, poll, sub>>
  PROVE  StatusTells'
  BY ScribedIs, BoundsAssumption DEF Grows, IInv, StatusTells, None, Ids, Meetings

LEMMA PreviousIs ==
  ASSUME IInv, NEW n \in 1..MaxStarts, Under(n)
  PROVE  starts[n].previous \in Ids /\ starts[n].previous <= scribed.born
  <1>1. starts[n].previous <= scribed.born
    BY DEF IInv, Ages
  <1>2. starts[n].pc \notin {"none", "over"}
    BY DEF Under
  <1>3. starts[n] \in [pc : Undecided, previous : Ids] \cup [pc : {"ok"}, previous : Ids, session : Meetings]
    BY <1>2 DEF IInv, StartsOK, NoStart
  <1> QED
    BY <1>1, <1>3

LEMMA StartAnswered ==
  ASSUME IInv, NEW n \in 1..MaxStarts, StartAnswer(n)
  PROVE  /\ starts[n].pc = "asked" /\ starts[n].previous \in Ids
         /\ \A k \in 1..MaxStarts : k # n => starts'[k] = starts[k]
         /\ starts'[n].previous = starts[n].previous /\ starts'[n].pc \notin {"none", "over"}
         /\ starts' \in [1..MaxStarts -> {NoStart, [pc |-> "over"]} \cup [pc : Undecided, previous : Ids]
                                         \cup [pc : {"ok"}, previous : Ids, session : Meetings]]
         /\ starts'[n].pc = "ok" => scribed'.rec = scribed.born + 1 /\ starts'[n].session = scribed'.rec
  <1>1. starts[n].pc = "asked" /\ starts[n] \in [pc : Undecided, previous : Ids]
    BY DEF StartAnswer, IInv, StartsOK, NoStart
  <1>2. starts[n].previous \in Ids
    BY <1>1
  <1>3. PICK s : starts' = [starts EXCEPT ![n] = s] /\ s.previous = starts[n].previous
             /\ \/ s.pc \in Undecided /\ s = [pc |-> s.pc, previous |-> starts[n].previous]
                \/ /\ s = [pc |-> "ok", previous |-> starts[n].previous, session |-> scribed.born + 1]
                   /\ scribed.born < MaxMeetings
                   /\ scribed' = [scribed EXCEPT !.rec = scribed.born + 1, !.born = scribed.born + 1]
    <2> DEFINE ok == [pc |-> "ok", previous |-> starts[n].previous, session |-> scribed.born + 1]
    <2>1. CASE \E a \in Undecided : Says(n, a)
      <3>1. PICK a \in Undecided : starts' = [starts EXCEPT ![n] = [pc |-> a, previous |-> starts[n].previous]]
        BY <2>1 DEF Says
      <3> DEFINE t == [pc |-> a, previous |-> starts[n].previous]
      <3>2. t.previous = starts[n].previous /\ t.pc \in Undecided
        OBVIOUS
      <3>3. t = [pc |-> t.pc, previous |-> starts[n].previous]
        OBVIOUS
      <3>4. starts' = [starts EXCEPT ![n] = t]
        BY <3>1
      <3> HIDE DEF t
      <3> QED
        BY <3>2, <3>3, <3>4
    <2>2. CASE /\ starts' = [starts EXCEPT ![n] = ok] /\ scribed.born < MaxMeetings
               /\ scribed' = [scribed EXCEPT !.rec = scribed.born + 1, !.born = scribed.born + 1]
      BY <2>2
    <2>3. \/ \E a \in Undecided : Says(n, a)
          \/ /\ starts' = [starts EXCEPT ![n] = ok] /\ scribed.born < MaxMeetings
             /\ scribed' = [scribed EXCEPT !.rec = scribed.born + 1, !.born = scribed.born + 1]
      BY DEF StartAnswer, Undecided
    <2> QED
      BY <2>1, <2>2, <2>3
  <1>4. s \in [pc : Undecided, previous : Ids] \cup [pc : {"ok"}, previous : Ids, session : Meetings]
    <2>1. CASE s.pc \in Undecided /\ s = [pc |-> s.pc, previous |-> starts[n].previous]
      BY <2>1, <1>2
    <2>2. CASE /\ s = [pc |-> "ok", previous |-> starts[n].previous, session |-> scribed.born + 1]
               /\ scribed.born < MaxMeetings
               /\ scribed' = [scribed EXCEPT !.rec = scribed.born + 1, !.born = scribed.born + 1]
      <3>1. scribed.born + 1 \in Meetings
        BY <2>2, SessionStarts
      <3> QED
        BY <3>1, <2>2, <1>2
    <2> QED
      BY <1>3, <2>1, <2>2
  <1>5. starts \in [1..MaxStarts -> {NoStart, [pc |-> "over"]} \cup [pc : Undecided, previous : Ids]
                                    \cup [pc : {"ok"}, previous : Ids, session : Meetings]]
    BY DEF IInv, StartsOK
  <1>6. starts'[n] = s /\ \A k \in 1..MaxStarts : k # n => starts'[k] = starts[k]
    BY <1>3, <1>5
  <1>7. starts' \in [1..MaxStarts -> {NoStart, [pc |-> "over"]} \cup [pc : Undecided, previous : Ids]
                                     \cup [pc : {"ok"}, previous : Ids, session : Meetings]]
    BY <1>3, <1>4, <1>5
  <1>8. s.pc \notin {"none", "over"}
    BY <1>4 DEF Undecided
  <1>9. s.pc = "ok" => scribed'.rec = scribed.born + 1 /\ s.session = scribed'.rec
    BY <1>3, SessionStarts, ScribedIs DEF Undecided
  <1> QED
    BY <1>1, <1>2, <1>3, <1>6, <1>7, <1>8, <1>9

-----------------------------------------------------------------------------
(* What a status makes of the view: it is left alone, a meeting in it      *)
(* goes on or is closed, and the one that is recorded is joined.           *)
Alone == UNCHANGED <<state, meeting, lost, rows, watch>>
GoesOn == state' = "recording" /\ lost' = FALSE /\ UNCHANGED <<meeting, rows, watch>>
Closes ==
  /\ meeting # None
  /\ state' = "idle" /\ meeting' = None /\ lost' = FALSE
  /\ rows' = [rows EXCEPT ![meeting] = "stopping"] /\ watch' = watch \cup {meeting}
Rests == meeting = None /\ state' = "idle" /\ meeting' = None /\ lost' = FALSE /\ UNCHANGED <<rows, watch>>
Joins(id) ==
  /\ meeting = None
  /\ state' = "recording" /\ meeting' = id /\ lost' = FALSE
  /\ rows' = [rows EXCEPT ![id] = "recording"] /\ UNCHANGED watch
Changes(id) ==
  /\ meeting \notin {None, id}
  /\ state' = "recording" /\ meeting' = id /\ lost' = FALSE
  /\ rows' = [[rows EXCEPT ![meeting] = "stopping"] EXCEPT ![id] = "recording"]
  /\ watch' = watch \cup {meeting}

Takes(id) ==
  IF state = "starting" \/ stop # NoStop THEN Alone
  ELSE IF id = None THEN Closes \/ Rests
  ELSE (meeting = id /\ GoesOn) \/ Joins(id) \/ Changes(id)

LEMMA StatusTakes ==
  ASSUME IInv, NEW id \in Ids, Set(ApplyStatus(Deck, id))
  PROVE  Takes(id)
  <1>1. WasLive(Deck) <=> meeting # None
    BY DEF WasLive, Deck, IInv, MeetingIsLive, None
  <1>2. CASE state = "starting" \/ stop # NoStop
    BY <1>2 DEF Set, ApplyStatus, Deck, Takes, Alone
  <1>3. CASE ~(state = "starting" \/ stop # NoStop) /\ id = None
    BY <1>1, <1>3 DEF Set, ApplyStatus, Deck, Takes, Closes, Rests, Closed, Cleared
  <1>4. CASE ~(state = "starting" \/ stop # NoStop) /\ id # None
    <2>1. CASE meeting = id
      BY <1>1, <1>4, <2>1 DEF Set, ApplyStatus, Deck, Takes, GoesOn
    <2>2. CASE meeting = None
      BY <1>1, <1>4, <2>2 DEF Set, ApplyStatus, Deck, Takes, Joins, Recording
    <2>3. CASE meeting \notin {None, id}
      BY <1>1, <1>4, <2>3 DEF Set, ApplyStatus, Deck, Takes, Changes, Recording, Closed
    <2> QED
      BY <2>1, <2>2, <2>3
  <1> QED
    BY <1>2, <1>3, <1>4

LEMMA TakesKeeps ==
  ASSUME IInv, NEW id \in Ids, Takes(id), id <= scribed.born,
         state = "starting" \/ \A n \in 1..MaxStarts : ~Under(n),
         UNCHANGED <<starts, stop, scribed, cut, sync>>, boot' = "up" => boot = "up", Prompt
  PROVE  /\ (state \in {"unavailable", "idle", "starting", "recording", "stopping"})'
         /\ (meeting \in Ids)' /\ (lost \in BOOLEAN)'
         /\ (rows \in [Meetings -> {"none", "recording", "stopping", "recorded", "synthesized"}])'
         /\ (watch \subseteq Meetings)'
         /\ meeting' <= scribed.born
         /\ MeetingIsLive' /\ StopWaits' /\ ListIsNow' /\ RowsOK'
  <1>1. CASE Alone
    <2>1. RowsOK'
      BY <1>1 DEF Alone, IInv, RowsOK, Kept, Under, Stop
    <2>2. MeetingIsLive' /\ StopWaits' /\ ListIsNow'
      BY <1>1 DEF Alone, IInv, MeetingIsLive, StopWaits, ListIsNow
    <2> QED
      BY <1>1, <2>1, <2>2 DEF Alone, IInv, TypeOK, Ages
  <1>2. CASE ~(state = "starting" \/ stop # NoStop)
    <2>0. (\A n \in 1..MaxStarts : ~Under(n)) /\ stop = NoStop
      BY <1>2
    <2>1. GoesOn \/ Closes \/ Rests \/ (id # None /\ (Joins(id) \/ Changes(id)))
      BY <1>2 DEF Takes
    <2>2. /\ (state \in {"unavailable", "idle", "starting", "recording", "stopping"})'
          /\ (meeting \in Ids)' /\ (lost \in BOOLEAN)' /\ meeting' <= scribed.born
      <3>1. meeting' \in {meeting, None, id}
        BY <2>1 DEF GoesOn, Closes, Rests, Joins, Changes
      <3>2. None \in Ids /\ None <= scribed.born
        BY ScribedIs, BoundsAssumption DEF None
      <3>3. state' \in {"recording", "idle"} /\ lost' = FALSE
        BY <2>1 DEF GoesOn, Closes, Rests, Joins, Changes
      <3> QED
        BY <3>1, <3>2, <3>3, ScribedIs
    <2>3. (rows \in [Meetings -> {"none", "recording", "stopping", "recorded", "synthesized"}])'
      BY <2>1 DEF GoesOn, Closes, Rests, Joins, Changes, IInv, TypeOK, Ids
    <2>4. (watch \subseteq Meetings)'
      BY <2>1 DEF GoesOn, Closes, Rests, Joins, Changes, IInv, TypeOK, Ids
    <2>5. MeetingIsLive' /\ StopWaits'
      BY <2>0, <2>1 DEF GoesOn, Closes, Rests, Joins, Changes, MeetingIsLive, StopWaits
    <2>6. ListIsNow'
      BY DEF Prompt, IInv, ListIsNow
    <2>7. RowsOK'
      <3>1. ASSUME boot' = "up", NEW m \in Meetings
            PROVE  /\ rows'[m] = "recording" => m = meeting'
                   /\ rows'[m] \in {"stopping", "recorded"} => m \in watch' \cup cut' \/ m = meeting'
        <4>1. /\ rows[m] = "recording" => m = meeting
              /\ rows[m] \in {"stopping", "recorded"} => m \in watch \cup cut \/ m = meeting
          BY <3>1, <2>0 DEF IInv, RowsOK, Kept, Stop, Meetings, None
        <4>2. rows \in [Meetings -> {"none", "recording", "stopping", "recorded", "synthesized"}]
          BY DEF IInv, TypeOK
        <4>3. CASE GoesOn \/ Rests
          BY <4>1, <4>3 DEF GoesOn, Rests, Meetings, None
        <4>4. CASE Closes
          BY <4>1, <4>2, <4>4 DEF Closes, Ids
        <4>5. CASE id # None /\ Joins(id)
          BY <4>1, <4>2, <4>5 DEF Joins, Ids, Meetings, None
        <4>6. CASE id # None /\ Changes(id)
          <5>1. id \in Meetings /\ meeting \in Meetings /\ meeting # id
            BY <4>6, ScribedIs DEF Changes, Ids
          <5> QED
            BY <4>1, <4>2, <4>6, <5>1 DEF Changes
        <4> QED
          BY <2>1, <4>3, <4>4, <4>5, <4>6
      <3> QED
        BY <3>1 DEF RowsOK
    <2> QED
      BY <2>2, <2>3, <2>4, <2>5, <2>6, <2>7
  <1> QED
    BY <1>1, <1>2 DEF Takes

LEMMA Staled ==
  ASSUME IInv, Stale
  PROVE  /\ PollOK' /\ poll'.pc = poll.pc
         /\ poll'.pc = "answered" => ~poll'.fresh /\ poll'.says = poll.says
  <1>1. CASE poll \in {NoPoll, [pc |-> "refused"]}
    <2>1. "fresh" \notin DOMAIN poll
      BY <1>1 DEF NoPoll
    <2>2. poll' = poll
      BY <2>1 DEF Stale
    <2> QED
      BY <1>1, <2>2 DEF PollOK, NoPoll
  <1>2. CASE poll \in [pc : {"asked"}, fresh : BOOLEAN]
    <2>1. poll' = [poll EXCEPT !.fresh = FALSE]
      BY <1>2 DEF Stale
    <2> QED
      BY <1>2, <2>1 DEF PollOK
  <1>3. CASE poll \in [pc : {"answered"}, fresh : BOOLEAN, says : Ids]
    <2>1. poll' = [poll EXCEPT !.fresh = FALSE]
      BY <1>3 DEF Stale
    <2> QED
      BY <1>3, <2>1 DEF PollOK
  <1> QED
    BY <1>1, <1>2, <1>3 DEF IInv, PollOK

LEMMA PollAppliedKeeps ==
  ASSUME IInv, PollApplied, Prompt, InTurn
  PROVE  IInv'
  <1> USE DEF PollApplied
  <1>1. /\ poll \in [pc : {"answered"}, fresh : BOOLEAN, says : Ids] /\ poll.pc = "answered"
        /\ poll.says \in Ids /\ poll.says <= scribed.born /\ sub.pc # "answered"
    BY DEF IInv, PollOK, NoPoll, HeardIsBorn, OneStatus
  <1>2. state = "starting" \/ \A n \in 1..MaxStarts : ~Under(n)
    BY <1>1 DEF IInv, StartWaits
  <1>3. /\ UNCHANGED <<scribed, manifest, cut, starts, stop, sync, faults>>
        /\ poll' = NoPoll /\ down' = FALSE /\ boot' \in {boot, "sync"} /\ (boot' = "up" => boot = "up")
    BY DEF disk
  <1>4. Takes(poll.says) \/ Alone
    <2>1. Set(ApplyStatus(Deck, poll.says)) \/ Set(Deck)
      OBVIOUS
    <2>2. Set(Deck) => Alone
      BY DEF Set, Deck, Alone
    <2> QED
      BY <1>1, <2>1, <2>2, StatusTakes
  <1>5. /\ sub' = sub \/ (sub = NoSub /\ sub' = [pc |-> "asked"] /\ stop = NoStop /\ state # "starting")
    BY DEF Subscribed
  <1>6. /\ (state \in {"unavailable", "idle", "starting", "recording", "stopping"})'
        /\ (meeting \in Ids)' /\ (lost \in BOOLEAN)'
        /\ (rows \in [Meetings -> {"none", "recording", "stopping", "recorded", "synthesized"}])'
        /\ (watch \subseteq Meetings)'
        /\ meeting' <= scribed.born
        /\ MeetingIsLive' /\ StopWaits' /\ ListIsNow' /\ RowsOK'
    <2>1. CASE Takes(poll.says)
      BY <1>1, <1>2, <1>3, <2>1, TakesKeeps
    <2>2. CASE Alone
      <3>1. RowsOK'
        BY <1>3, <2>2 DEF Alone, IInv, RowsOK, Kept, Under, Stop
      <3> QED
        BY <1>3, <2>2, <3>1 DEF Alone, IInv, TypeOK, Ages, MeetingIsLive, StopWaits, ListIsNow
    <2> QED
      BY <1>4, <2>1, <2>2
  <1> HIDE DEF PollApplied
  <1>7. TypeOK'
    BY <1>3, <1>5, <1>6 DEF IInv, TypeOK, NoSub
  <1>8. PollOK' /\ StartsOK' /\ StopOK' /\ SyncOK'
    BY <1>3 DEF IInv, PollOK, StartsOK, StopOK, SyncOK
  <1>9. Ages' /\ HeardIsBorn'
    BY <1>1, <1>3, <1>5, <1>6 DEF IInv, Ages, HeardIsBorn, Under, NoPoll
  <1>10. OneStart' /\ StopTells' /\ StartTells'
    BY <1>3 DEF IInv, OneStart, StopTells, StartTells, Under
  <1>11. StartWaits'
    <2>1. CASE state = "starting"
      BY <1>1, <1>2, <1>3, <1>4, <1>5, <2>1 DEF IInv, StartWaits, Takes, Alone, Under
    <2>2. CASE \A n \in 1..MaxStarts : ~Under(n)
      BY <1>3, <2>2 DEF StartWaits, Under
    <2> QED
      BY <1>2, <2>1, <2>2
  <1>12. RefusedIsDown' /\ OneStatus' /\ StatusTells'
    BY <1>1, <1>3, <1>5 DEF RefusedIsDown, OneStatus, StatusTells, NoPoll
  <1> QED
    BY <1>6, <1>7, <1>8, <1>9, <1>10, <1>11, <1>12 DEF IInv

LEMMA SubStatusKeeps ==
  ASSUME IInv, SubStatus, Prompt, InTurn
  PROVE  IInv'
  <1>1. /\ sub.pc = "answered" /\ sub.says \in Ids /\ sub.says <= scribed.born
        /\ poll.pc # "answered"
    BY DEF SubStatus, IInv, TypeOK, Status, NoSub, HeardIsBorn, OneStatus
  <1>2. state = "starting" \/ \A n \in 1..MaxStarts : ~Under(n)
    BY <1>1 DEF IInv, StartWaits, NoSub
  <1>3. /\ UNCHANGED <<scribed, manifest, cut, down, poll, starts, stop, sync, boot, faults>>
        /\ sub' = [pc |-> "open"]
    BY DEF SubStatus, disk
  <1>4. Takes(sub.says)
    BY <1>1, StatusTakes DEF SubStatus
  <1>5. /\ (state \in {"unavailable", "idle", "starting", "recording", "stopping"})'
        /\ (meeting \in Ids)' /\ (lost \in BOOLEAN)'
        /\ (rows \in [Meetings -> {"none", "recording", "stopping", "recorded", "synthesized"}])'
        /\ (watch \subseteq Meetings)'
        /\ meeting' <= scribed.born
        /\ MeetingIsLive' /\ StopWaits' /\ ListIsNow' /\ RowsOK'
    BY <1>1, <1>2, <1>3, <1>4, TakesKeeps
  <1>6. TypeOK'
    BY <1>3, <1>5 DEF IInv, TypeOK
  <1>7. PollOK' /\ StartsOK' /\ StopOK' /\ SyncOK'
    BY <1>3 DEF IInv, PollOK, StartsOK, StopOK, SyncOK
  <1>8. Ages' /\ HeardIsBorn'
    BY <1>3, <1>5 DEF IInv, Ages, HeardIsBorn, Under
  <1>9. OneStart' /\ StopTells' /\ StartTells'
    BY <1>3 DEF IInv, OneStart, StopTells, StartTells, Under
  <1>10. StartWaits'
    <2>1. CASE state = "starting"
      BY <1>1, <1>2, <1>3, <1>4, <2>1 DEF IInv, StartWaits, Takes, Alone, Under, NoSub
    <2>2. CASE \A n \in 1..MaxStarts : ~Under(n)
      BY <1>3, <2>2 DEF StartWaits, Under
    <2> QED
      BY <1>2, <2>1, <2>2
  <1>11. RefusedIsDown' /\ OneStatus' /\ StatusTells'
    BY <1>1, <1>3 DEF IInv, RefusedIsDown, OneStatus, StatusTells
  <1> QED
    BY <1>5, <1>6, <1>7, <1>8, <1>9, <1>10, <1>11 DEF IInv

LEMMA StartDoneKeeps ==
  ASSUME IInv, NEW n \in 1..MaxStarts, StartDone(n), Prompt, InTurn
  PROVE  IInv'
  <1> DEFINE id == starts[n].session
             previous == starts[n].previous
  <1>1. /\ Under(n) /\ meeting = None /\ lost = FALSE /\ stop = NoStop
        /\ id \in Meetings /\ id <= scribed.born /\ previous \in Ids
    BY DEF StartDone, IInv, Under, StartWaits, StartsOK, NoStart, Undecided, HeardIsBorn, TypeOK
  <1>2. \A k \in 1..MaxStarts : k # n => ~Under(k)
    BY <1>1 DEF IInv, OneStart
  <1>3. /\ starts' = [starts EXCEPT ![n] = [pc |-> "over"]] /\ Stale
        /\ UNCHANGED <<scribed, manifest, cut, down, stop, sync, boot, faults>>
    BY DEF StartDone, Answered, disk
  <1>4. /\ state' = "recording" /\ meeting' = id /\ lost' = FALSE
        /\ IF previous \notin {None, id}
           THEN /\ rows' = [[rows EXCEPT ![previous] = "stopping"] EXCEPT ![id] = "recording"]
                /\ watch' = watch \cup {previous}
           ELSE rows' = [rows EXCEPT ![id] = "recording"] /\ UNCHANGED watch
    BY <1>1 DEF StartDone, Set, Deck, Recording, Closed
  <1>5. sub' = sub \/ sub' = [pc |-> "asked"]
    BY DEF StartDone, Subscribed
  <1>6. ~Under(n)' /\ \A k \in 1..MaxStarts : ~Under(k)'
    BY <1>2, <1>3 DEF Under, IInv, StartsOK
  <1>7. StartsOK' /\ StopOK' /\ SyncOK'
    BY <1>3 DEF IInv, StartsOK, StopOK, SyncOK
  <1>8. /\ PollOK' /\ poll'.pc = poll.pc
        /\ (poll'.pc = "answered" => ~poll'.fresh /\ poll'.says = poll.says)
    BY <1>3, Staled
  <1>9. previous \notin {None, id} => previous \in Meetings
    BY <1>1 DEF Ids
  <1>10. TypeOK'
    <2>1. /\ (rows \in [Meetings -> {"none", "recording", "stopping", "recorded", "synthesized"}])'
          /\ (watch \subseteq Meetings)'
      BY <1>1, <1>4, <1>9 DEF IInv, TypeOK
    <2> HIDE DEF id, previous
    <2> QED
      BY <1>1, <1>3, <1>4, <1>5, <2>1 DEF IInv, TypeOK, Ids, NoSub
  <1> HIDE DEF id, previous
  <1>11. Ages' /\ HeardIsBorn'
    <2>1. \A k \in 1..MaxStarts : starts'[k].pc # "ok"
      BY <1>6 DEF Under
    <2> QED
      BY <1>1, <1>3, <1>4, <1>5, <1>6, <1>8, <2>1 DEF IInv, Ages, HeardIsBorn
  <1>12. OneStart'
    <2>1. \A k \in 1..MaxStarts : starts'[k] = NoStart <=> starts[k] = NoStart
      BY <1>1, <1>3 DEF IInv, StartsOK, NoStart, Under
    <2> QED
      BY <1>6, <2>1 DEF IInv, OneStart
  <1>13. StartWaits' /\ StopTells' /\ StartTells'
    BY <1>1, <1>3, <1>6 DEF StartWaits, StopTells, StartTells, Under, NoStop
  <1>14. MeetingIsLive' /\ StopWaits'
    BY <1>1, <1>3, <1>4 DEF MeetingIsLive, StopWaits
  <1>15. ListIsNow'
    BY <1>3 DEF Prompt, IInv, ListIsNow
  <1>16. CommandAnswered
    BY <1>1, <1>3 DEF CommandAnswered, Under, IInv, StartsOK
  <1>17. RefusedIsDown' /\ OneStatus' /\ StatusTells'
    BY <1>3, <1>8, <1>16 DEF IInv, RefusedIsDown, OneStatus, StatusTells, Prompt
  <1>18. RowsOK'
    <2>1. ASSUME boot' = "up", NEW m \in Meetings
          PROVE  /\ rows'[m] = "recording" => m = meeting'
                 /\ rows'[m] \in {"stopping", "recorded"} => m \in watch' \cup cut'
      <3>1. Kept(m) <=> m = previous
        BY <1>1, <1>2 DEF Kept, previous
      <3>2. /\ rows[m] = "recording" => m = previous
            /\ rows[m] \in {"stopping", "recorded"} => m \in watch \cup cut \/ m = previous
        BY <2>1, <1>1, <1>3, <3>1 DEF IInv, RowsOK, Stop, Meetings, None
      <3>3. rows \in [Meetings -> {"none", "recording", "stopping", "recorded", "synthesized"}]
        BY DEF IInv, TypeOK
      <3>4. CASE previous \notin {None, id}
        BY <1>1, <1>3, <1>4, <1>9, <3>2, <3>3, <3>4
      <3>5. CASE previous = id
        BY <1>1, <1>3, <1>4, <3>2, <3>3, <3>5
      <3>6. CASE previous = None
        BY <1>1, <1>3, <1>4, <3>2, <3>3, <3>6 DEF Meetings, None
      <3> QED
        BY <3>4, <3>5, <3>6
    <2> QED
      BY <2>1 DEF RowsOK
  <1> QED
    BY <1>7, <1>8, <1>10, <1>11, <1>12, <1>13, <1>14, <1>15, <1>17, <1>18 DEF IInv

LEMMA PollSendKeeps ==
  ASSUME IInv, PollSend, Prompt, InTurn
  PROVE  IInv'
  <1> USE DEF view, disk, NoPoll, PollSend
  <1>1. /\ TypeOK' /\ StartsOK' /\ StopOK' /\ SyncOK' /\ Ages' /\ OneStart'
       /\ MeetingIsLive' /\ StopWaits' /\ ListIsNow' /\ StopTells' /\ StartTells' /\ RowsOK'
    BY DEF Meetings, None, Ids, NoStop, NoSync, NoStart, NoSub, Status, TypeOK, Stop,
       Undecided, StartsOK, StopOK, SyncOK, Under, Kept, Ages, OneStart, MeetingIsLive,
       StopWaits, ListIsNow, StopTells, StartTells, RowsOK, IInv
  <1>2. PollOK'
    BY DEF Meetings, None, Ids, PollOK, IInv
  <1>3. HeardIsBorn'
    BY DEF HeardIsBorn, IInv
  <1>4. StartWaits'
    BY DEF None, NoStop, NoSub, Under, StartWaits, IInv
  <1>5. RefusedIsDown'
    BY DEF RefusedIsDown, IInv
  <1>6. OneStatus'
    BY DEF OneStatus, IInv
  <1>7. StatusTells'
    BY DEF None, StatusTells, IInv
  <1> QED
    BY <1>1, <1>2, <1>3, <1>4, <1>5, <1>6, <1>7 DEF IInv

LEMMA PollAnswerKeeps ==
  ASSUME IInv, PollAnswer, Prompt, InTurn
  PROVE  IInv'
  <1> USE DEF view, disk, PollAnswer
  <1>1. /\ TypeOK' /\ StartsOK' /\ StopOK' /\ SyncOK' /\ Ages' /\ OneStart'
       /\ MeetingIsLive' /\ StopWaits' /\ ListIsNow' /\ StopTells' /\ StartTells' /\ RowsOK'
    BY DEF Meetings, None, Ids, NoStop, NoSync, NoStart, NoSub, Status, TypeOK, Stop,
       Undecided, StartsOK, StopOK, SyncOK, Under, Kept, Ages, OneStart, MeetingIsLive,
       StopWaits, ListIsNow, StopTells, StartTells, RowsOK, IInv
  <1>2. PollOK'
    BY DEF Meetings, None, Ids, NoPoll, NoSub, Status, TypeOK, PollOK, IInv
  <1>3. HeardIsBorn'
    BY DEF NoStop, Under, Ages, HeardIsBorn, IInv
  <1>4. StartWaits'
    BY DEF None, NoStop, NoSub, Under, StartWaits, IInv
  <1>5. RefusedIsDown'
    BY DEF RefusedIsDown, IInv
  <1>6. OneStatus'
    BY DEF Prompt, OneStatus, IInv
  <1>7. StatusTells'
    BY DEF None, StatusTells, IInv
  <1> QED
    BY <1>1, <1>2, <1>3, <1>4, <1>5, <1>6, <1>7 DEF IInv

LEMMA PollLostKeeps ==
  ASSUME IInv, PollLost, Prompt, InTurn
  PROVE  IInv'
  <1> USE DEF deck, disk, NoPoll, Fault, PollLost
  <1>1. /\ StartsOK' /\ StopOK' /\ SyncOK' /\ Ages' /\ OneStart' /\ MeetingIsLive'
       /\ StopWaits' /\ ListIsNow' /\ StopTells' /\ StartTells'
    BY DEF Meetings, None, Ids, NoStop, NoSync, NoStart, Undecided, StartsOK, StopOK,
       SyncOK, Under, Ages, OneStart, MeetingIsLive, StopWaits, ListIsNow, StopTells,
       StartTells, IInv
  <1>2. TypeOK'
    <2>1. /\ (scribed \in [up : BOOLEAN, rec : Ids, closing : Ids, born : Ids])'
          /\ (manifest \in [Meetings -> {"none", "recorded", "synthesized"}])'
          /\ (cut \subseteq Meetings)'
          /\ (sub \in {NoSub, [pc |-> "timer"], [pc |-> "asked"], [pc |-> "open"]} \cup Status)'
          /\ (rows \in [Meetings -> {"none", "recording", "stopping", "recorded", "synthesized"}])'
          /\ (watch \subseteq Meetings)'
      BY DEF IInv, TypeOK
    <2>2. /\ (state \in {"unavailable", "idle", "starting", "recording", "stopping"})'
          /\ (meeting \in Ids /\ lost \in BOOLEAN /\ down \in BOOLEAN)'
      BY BoundsAssumption DEF Meetings, None, Ids, NoStop, NoSync, NoStart, NoSub,
         Status, TypeOK, Undecided, PollOK, StartsOK, StopOK, SyncOK, IInv
    <2>3. (boot \in {"probe", "sync", "up"})'
      BY BoundsAssumption DEF Meetings, None, Ids, NoStop, NoSync, NoStart, NoSub,
         Status, TypeOK, Undecided, PollOK, StartsOK, StopOK, SyncOK, IInv
    <2>4. (faults \in 0..MaxFaults)'
      BY BoundsAssumption DEF Meetings, None, Ids, NoStop, NoSync, NoStart, NoSub,
         Status, TypeOK, Undecided, PollOK, StartsOK, StopOK, SyncOK, IInv
    <2> QED
      BY <2>1, <2>2, <2>3, <2>4 DEF TypeOK
  <1>3. PollOK'
    BY DEF Meetings, None, Ids, PollOK, IInv
  <1>4. HeardIsBorn'
    BY DEF HeardIsBorn, IInv
  <1>5. StartWaits'
    BY DEF None, NoStop, NoSub, Under, StartWaits, IInv
  <1>6. RefusedIsDown'
    BY DEF RefusedIsDown, IInv
  <1>7. OneStatus'
    BY DEF OneStatus, IInv
  <1>8. StatusTells'
    BY DEF None, StatusTells, IInv
  <1>9. RowsOK'
    BY DEF Meetings, None, NoStop, Stop, Under, Kept, RowsOK, IInv
  <1> QED
    BY <1>1, <1>2, <1>3, <1>4, <1>5, <1>6, <1>7, <1>8, <1>9 DEF IInv

LEMMA PollRefusedKeeps ==
  ASSUME IInv, PollRefused, Prompt, InTurn
  PROVE  IInv'
  <1> USE DEF disk, NoPoll, NoSub, Deck, Set, WentDown, PollRefused
  <1>1. StartsOK' /\ StopOK' /\ SyncOK' /\ OneStart' /\ StopTells' /\ StartTells'
    BY DEF Meetings, None, Ids, NoStop, NoSync, NoStart, Undecided, StartsOK, StopOK,
       SyncOK, Under, OneStart, StopTells, StartTells, IInv
  <1>2. TypeOK'
    BY DEF Meetings, None, Ids, Status, TypeOK, IInv
  <1>3. PollOK'
    BY DEF Meetings, None, Ids, PollOK, IInv
  <1>4. Ages'
    BY DEF NoStop, Under, Ages, IInv
  <1>5. HeardIsBorn'
    BY DEF HeardIsBorn, IInv
  <1>6. StartWaits'
    BY DEF None, NoStop, Under, StartWaits, RefusedIsDown, IInv
  <1>7. MeetingIsLive'
    BY DEF None, MeetingIsLive, IInv
  <1>8. StopWaits'
    BY DEF NoStop, StopWaits, IInv
  <1>9. ListIsNow'
    BY DEF Meetings, ListIsNow, IInv
  <1>10. RefusedIsDown'
    BY DEF RefusedIsDown, IInv
  <1>11. OneStatus'
    BY DEF OneStatus, IInv
  <1>12. StatusTells'
    BY DEF None, StatusTells, IInv
  <1>13. RowsOK'
    BY DEF Meetings, None, NoStop, Stop, Under, Kept, RowsOK, IInv
  <1> QED
    BY <1>1, <1>2, <1>3, <1>4, <1>5, <1>6, <1>7, <1>8, <1>9, <1>10, <1>11, <1>12, <1>13
       DEF IInv

LEMMA SubAnswerKeeps ==
  ASSUME IInv, SubAnswer, Prompt, InTurn
  PROVE  IInv'
  <1> USE DEF view, disk, SubAnswer
  <1>1. /\ PollOK' /\ StartsOK' /\ StopOK' /\ SyncOK' /\ Ages' /\ OneStart'
       /\ MeetingIsLive' /\ StopWaits' /\ ListIsNow' /\ RefusedIsDown' /\ StopTells' /\ StartTells'
       /\ RowsOK'
    BY DEF Meetings, None, Ids, NoPoll, NoStop, NoSync, NoStart, Stop, Undecided,
       PollOK, StartsOK, StopOK, SyncOK, Under, Kept, Ages, OneStart, MeetingIsLive,
       StopWaits, ListIsNow, RefusedIsDown, StopTells, StartTells, RowsOK, IInv
  <1>2. TypeOK'
    BY DEF Meetings, None, Ids, NoSub, Status, TypeOK, IInv
  <1>3. HeardIsBorn'
    BY DEF NoStop, Under, Ages, HeardIsBorn, IInv
  <1>4. StartWaits'
    BY DEF None, NoStop, NoSub, Under, StartWaits, IInv
  <1>5. OneStatus'
    BY DEF Prompt, OneStatus, IInv
  <1>6. StatusTells'
    BY DEF None, StatusTells, IInv
  <1> QED
    BY <1>1, <1>2, <1>3, <1>4, <1>5, <1>6 DEF IInv

LEMMA SubClosedKeeps ==
  ASSUME IInv, SubClosed, Prompt, InTurn
  PROVE  IInv'
  <1> USE DEF view, disk, NoSub, SubClosed
  <1>1. /\ PollOK' /\ StartsOK' /\ StopOK' /\ SyncOK' /\ Ages' /\ OneStart'
       /\ MeetingIsLive' /\ StopWaits' /\ ListIsNow' /\ RefusedIsDown' /\ StopTells' /\ StartTells'
       /\ RowsOK'
    BY DEF Meetings, None, Ids, NoPoll, NoStop, NoSync, NoStart, Stop, Undecided,
       PollOK, StartsOK, StopOK, SyncOK, Under, Kept, Ages, OneStart, MeetingIsLive,
       StopWaits, ListIsNow, RefusedIsDown, StopTells, StartTells, RowsOK, IInv
  <1>2. TypeOK'
    BY DEF Meetings, None, Ids, Status, TypeOK, IInv
  <1>3. HeardIsBorn'
    BY DEF HeardIsBorn, IInv
  <1>4. StartWaits'
    BY DEF None, NoStop, Under, StartWaits, IInv
  <1>5. OneStatus'
    BY DEF OneStatus, IInv
  <1>6. StatusTells'
    BY DEF None, StatusTells, IInv
  <1> QED
    BY <1>1, <1>2, <1>3, <1>4, <1>5, <1>6 DEF IInv

LEMMA SubTimerKeeps ==
  ASSUME IInv, SubTimer, Prompt, InTurn
  PROVE  IInv'
  <1> USE DEF view, disk, NoSub, SubTimer
  <1>1. /\ PollOK' /\ StartsOK' /\ StopOK' /\ SyncOK' /\ Ages' /\ OneStart'
       /\ MeetingIsLive' /\ StopWaits' /\ ListIsNow' /\ RefusedIsDown' /\ StopTells' /\ StartTells'
       /\ RowsOK'
    BY DEF Meetings, None, Ids, NoPoll, NoStop, NoSync, NoStart, Stop, Undecided,
       PollOK, StartsOK, StopOK, SyncOK, Under, Kept, Ages, OneStart, MeetingIsLive,
       StopWaits, ListIsNow, RefusedIsDown, StopTells, StartTells, RowsOK, IInv
  <1>2. TypeOK'
    BY DEF Meetings, None, Ids, Status, TypeOK, IInv
  <1>3. HeardIsBorn'
    BY DEF HeardIsBorn, IInv
  <1>4. StartWaits'
    BY DEF None, NoStop, Under, StartWaits, IInv
  <1>5. OneStatus'
    BY DEF OneStatus, IInv
  <1>6. StatusTells'
    BY DEF None, StatusTells, IInv
  <1> QED
    BY <1>1, <1>2, <1>3, <1>4, <1>5, <1>6 DEF IInv

LEMMA StopTakenKeeps ==
  ASSUME IInv, StopTaken, Prompt, InTurn
  PROVE  IInv'
  <1> USE DEF view, disk, StopTaken
  <1>1. /\ PollOK' /\ StartsOK' /\ SyncOK' /\ OneStart' /\ MeetingIsLive' /\ ListIsNow'
       /\ OneStatus'
    BY DEF Meetings, None, Ids, NoPoll, NoSync, NoStart, Undecided, PollOK, StartsOK,
       SyncOK, Under, OneStart, MeetingIsLive, ListIsNow, OneStatus, IInv
  <1>2. TypeOK'
    <2>1. /\ (manifest \in [Meetings -> {"none", "recorded", "synthesized"}])'
          /\ (cut \subseteq Meetings)'
          /\ (state \in {"unavailable", "idle", "starting", "recording", "stopping"})'
          /\ (meeting \in Ids /\ lost \in BOOLEAN /\ down \in BOOLEAN)'
          /\ (sub \in {NoSub, [pc |-> "timer"], [pc |-> "asked"], [pc |-> "open"]} \cup Status)'
          /\ (rows \in [Meetings -> {"none", "recording", "stopping", "recorded", "synthesized"}])'
          /\ (watch \subseteq Meetings)' /\ (boot \in {"probe", "sync", "up"})'
          /\ (faults \in 0..MaxFaults)'
      BY DEF IInv, TypeOK, None
    <2>2. (scribed \in [up : BOOLEAN, rec : Ids, closing : Ids, born : Ids])'
      BY ScribedGrows DEF Grows
    <2> QED
      BY <2>1, <2>2 DEF TypeOK
  <1>3. StopOK'
    BY DEF Meetings, NoStop, StopOK, IInv
  <1>4. Ages'
    <2>1. stop # NoStop => stop.of <= scribed.born /\ stop.of \in Meetings
      BY DEF IInv, Ages, StopOK, NoStop
    <2>2. stop' # NoStop => stop'.of = stop.of
      BY DEF IInv, StopOK, NoStop
    <2>3. UNCHANGED <<meeting, starts>>
      OBVIOUS
    <2>4. /\ scribed.born \in Nat /\ scribed'.born \in Nat
          /\ scribed.born <= scribed'.born /\ scribed'.rec <= scribed'.born
      BY ScribedGrows, ScribedIs, BoundsAssumption DEF Grows
    <2>5. stop # NoStop
      BY DEF NoStop
    <2>6. \A n \in 1..MaxStarts : Under(n)' => starts'[n].previous <= scribed'.born
      BY <2>3, <2>4, PreviousIs, ScribedIs, BoundsAssumption DEF Under
    <2> QED
      BY <2>1, <2>2, <2>3, <2>4, <2>5, <2>6, ScribedIs, BoundsAssumption DEF Ages,
         Meetings
  <1>5. HeardIsBorn'
    BY DEF Meetings, None, Ids, NoSub, Status, TypeOK, HeardIsBorn, IInv
  <1>6. StartWaits'
    BY DEF None, NoStop, NoSub, Under, StartWaits, IInv
  <1>7. StopWaits'
    BY DEF Meetings, None, NoStop, StopOK, StopWaits, IInv
  <1>8. RefusedIsDown'
    BY DEF RefusedIsDown, IInv
  <1>9. StatusTells'
    BY ScribedGrows, NewsIsNew
  <1>10. StopTells'
    <2>1. stop.of \in Meetings
      BY DEF IInv, StopOK, NoStop
    <2>2. stop'.pc = "taken" => scribed'.rec = None
      BY ScribedIs DEF IInv, StopOK, NoStop
    <2>3. stop'.of = stop.of /\ stop'.pc # "ok"
      BY DEF IInv, StopOK, NoStop
    <2> QED
      BY <2>1, <2>2, <2>3 DEF StopTells, Meetings, None
  <1>11. StartTells'
    BY DEF Meetings, None, Ids, NoSub, Status, TypeOK, StartTells, IInv
  <1>12. RowsOK'
    BY DEF Meetings, None, NoStop, Stop, StopOK, Under, Kept, RowsOK, IInv
  <1> QED
    BY <1>1, <1>2, <1>3, <1>4, <1>5, <1>6, <1>7, <1>8, <1>9, <1>10, <1>11, <1>12 DEF
       IInv

LEMMA StopAnswerKeeps ==
  ASSUME IInv, StopAnswer, Prompt, InTurn
  PROVE  IInv'
  <1> USE DEF view, disk, StopAnswer
  <1>1. /\ TypeOK' /\ PollOK' /\ StartsOK' /\ SyncOK' /\ HeardIsBorn' /\ OneStart'
       /\ MeetingIsLive' /\ ListIsNow' /\ RefusedIsDown' /\ OneStatus' /\ StatusTells' /\ StartTells'
    BY DEF Meetings, None, Ids, NoPoll, NoSync, NoStart, NoSub, Status, TypeOK,
       Undecided, PollOK, StartsOK, SyncOK, Under, HeardIsBorn, OneStart, MeetingIsLive,
       ListIsNow, RefusedIsDown, OneStatus, StatusTells, StartTells, IInv
  <1>2. StopOK'
    BY DEF Meetings, NoStop, StopOK, IInv
  <1>3. Ages'
    BY DEF Meetings, None, NoStop, StopOK, Under, Ages, IInv
  <1>4. StartWaits'
    BY DEF None, NoStop, NoSub, Under, StartWaits, IInv
  <1>5. StopWaits'
    BY DEF Meetings, None, NoStop, StopOK, StopWaits, IInv
  <1>6. StopTells'
    BY DEF Meetings, None, NoStop, StopOK, StopTells, IInv
  <1>7. RowsOK'
    BY DEF Meetings, None, NoStop, Stop, StopOK, Under, Kept, RowsOK, IInv
  <1> QED
    BY <1>1, <1>2, <1>3, <1>4, <1>5, <1>6, <1>7 DEF IInv

LEMMA StopFailedKeeps ==
  ASSUME IInv, StopFailed, Prompt, InTurn
  PROVE  IInv'
  <1> USE DEF view, disk, NoStop, Stale, StopFailed
  <1>1. /\ TypeOK' /\ StartsOK' /\ SyncOK' /\ OneStart' /\ MeetingIsLive' /\ ListIsNow'
       /\ StartTells'
    BY DEF Meetings, None, Ids, NoSync, NoStart, NoSub, Status, TypeOK, Undecided,
       StartsOK, SyncOK, Under, OneStart, MeetingIsLive, ListIsNow, StartTells, IInv
  <1>2. PollOK'
    BY DEF Meetings, None, Ids, NoPoll, PollOK, IInv
  <1>3. StopOK'
    BY DEF Meetings, StopOK, IInv
  <1>4. Ages'
    BY DEF Under, Ages, IInv
  <1>5. HeardIsBorn'
    BY DEF HeardIsBorn, IInv
  <1>6. StartWaits'
    BY DEF None, NoSub, Under, StartWaits, IInv
  <1>7. StopWaits'
    BY DEF StopWaits, IInv
  <1>8. RefusedIsDown'
    BY DEF RefusedIsDown, IInv
  <1>9. OneStatus'
    BY DEF OneStatus, IInv
  <1>10. StatusTells'
    BY DEF None, StatusTells, IInv
  <1>11. StopTells'
    BY DEF StopTells, IInv
  <1>12. RowsOK'
    BY DEF Meetings, None, Stop, Under, Kept, StopWaits, RowsOK, IInv
  <1> QED
    BY <1>1, <1>2, <1>3, <1>4, <1>5, <1>6, <1>7, <1>8, <1>9, <1>10, <1>11, <1>12 DEF
       IInv

LEMMA StopSendKeeps ==
  ASSUME IInv, StopSend, Prompt, InTurn
  PROVE  IInv'
  <1> USE DEF disk, NoStop, Deck, Set, StopSend
  <1>1. /\ PollOK' /\ StartsOK' /\ SyncOK' /\ HeardIsBorn' /\ OneStart' /\ RefusedIsDown'
       /\ OneStatus' /\ StartTells'
    BY DEF Meetings, None, Ids, NoPoll, NoSync, NoStart, Undecided, PollOK, StartsOK,
       SyncOK, Under, HeardIsBorn, OneStart, RefusedIsDown, OneStatus, StartTells, IInv
  <1>2. TypeOK'
    BY DEF Meetings, None, Ids, NoSub, Status, TypeOK, IInv
  <1>3. StopOK'
    BY DEF Meetings, None, Ids, NoSub, Status, TypeOK, StopOK, IInv
  <1>4. Ages'
    BY DEF Under, Ages, IInv
  <1>5. StartWaits'
    BY DEF None, NoSub, Under, StartWaits, IInv
  <1>6. MeetingIsLive'
    BY DEF None, MeetingIsLive, IInv
  <1>7. StopWaits'
    BY DEF StopWaits, IInv
  <1>8. ListIsNow'
    BY DEF Meetings, ListIsNow, IInv
  <1>9. StatusTells'
    BY DEF None, StatusTells, IInv
  <1>10. StopTells'
    BY DEF StopTells, IInv
  <1>11. RowsOK'
    BY DEF Meetings, None, Stop, Under, Kept, RowsOK, IInv
  <1> QED
    BY <1>1, <1>2, <1>3, <1>4, <1>5, <1>6, <1>7, <1>8, <1>9, <1>10, <1>11 DEF IInv

LEMMA StopDoneKeeps ==
  ASSUME IInv, StopDone, Prompt, InTurn
  PROVE  IInv'
  <1> USE DEF disk, NoStop, Deck, Set, Cleared, Stale, StopDone
  <1>1. StartsOK' /\ SyncOK' /\ OneStart' /\ StartTells'
    BY DEF Meetings, None, Ids, NoSync, NoStart, Undecided, StartsOK, SyncOK, Under,
       OneStart, StartTells, IInv
  <1>2. TypeOK'
    <2>1. /\ (scribed \in [up : BOOLEAN, rec : Ids, closing : Ids, born : Ids])'
          /\ (manifest \in [Meetings -> {"none", "recorded", "synthesized"}])'
          /\ (cut \subseteq Meetings)'
          /\ (sub \in {NoSub, [pc |-> "timer"], [pc |-> "asked"], [pc |-> "open"]} \cup Status)'
          /\ (boot \in {"probe", "sync", "up"})' /\ (faults \in 0..MaxFaults)'
      BY DEF IInv, TypeOK, None
    <2>2. /\ (state \in {"unavailable", "idle", "starting", "recording", "stopping"})'
          /\ (meeting \in Ids /\ lost \in BOOLEAN /\ down \in BOOLEAN)'
      BY BoundsAssumption DEF Meetings, None, Ids, NoPoll, NoSync, NoStart, NoSub,
         Status, TypeOK, Undecided, PollOK, StartsOK, StopOK, SyncOK, IInv
    <2>3. /\ (rows \in [Meetings -> {"none", "recording", "stopping", "recorded", "synthesized"}])'
          /\ (watch \subseteq Meetings)'
      BY BoundsAssumption DEF Meetings, None, Ids, NoPoll, NoSync, NoStart, NoSub,
         Status, TypeOK, Undecided, PollOK, StartsOK, StopOK, SyncOK, IInv
    <2> QED
      BY <2>1, <2>2, <2>3 DEF TypeOK
  <1>3. PollOK'
    BY DEF Meetings, None, Ids, NoPoll, PollOK, IInv
  <1>4. StopOK'
    BY DEF Meetings, StopOK, IInv
  <1>5. Ages'
    BY DEF Meetings, None, Ids, NoSub, Status, TypeOK, Under, Ages, IInv
  <1>6. HeardIsBorn'
    BY DEF HeardIsBorn, IInv
  <1>7. StartWaits'
    BY DEF None, NoSub, Under, StartWaits, IInv
  <1>8. MeetingIsLive'
    BY DEF None, MeetingIsLive, IInv
  <1>9. StopWaits'
    BY DEF StopWaits, IInv
  <1>10. ListIsNow'
    BY DEF Meetings, None, Prompt, ListIsNow, IInv
  <1>11. RefusedIsDown'
    BY DEF RefusedIsDown, IInv
  <1>12. OneStatus'
    BY DEF OneStatus, IInv
  <1>13. StatusTells'
    BY DEF None, StatusTells, IInv
  <1>14. StopTells'
    BY DEF StopTells, IInv
  <1>15. RowsOK'
    BY DEF Meetings, None, Ids, NoSub, Status, TypeOK, Stop, Under, Kept, RowsOK, IInv
  <1> QED
    BY <1>1, <1>2, <1>3, <1>4, <1>5, <1>6, <1>7, <1>8, <1>9, <1>10, <1>11, <1>12, <1>13,
       <1>14, <1>15 DEF IInv

LEMMA StartAnswerKeeps ==
  ASSUME IInv, NEW n \in 1..MaxStarts, StartAnswer(n), Prompt, InTurn
  PROVE  IInv'
  <1> USE DEF view, disk, Says, StartAnswer
  <1>1. /\ PollOK' /\ StopOK' /\ SyncOK' /\ MeetingIsLive' /\ StopWaits' /\ ListIsNow'
       /\ OneStatus'
    BY DEF Meetings, None, Ids, NoPoll, NoStop, NoSync, PollOK, StopOK, SyncOK,
       MeetingIsLive, StopWaits, ListIsNow, OneStatus, IInv
  <1>2. TypeOK'
    <2>1. /\ (manifest \in [Meetings -> {"none", "recorded", "synthesized"}])'
          /\ (cut \subseteq Meetings)'
          /\ (state \in {"unavailable", "idle", "starting", "recording", "stopping"})'
          /\ (meeting \in Ids /\ lost \in BOOLEAN /\ down \in BOOLEAN)'
          /\ (sub \in {NoSub, [pc |-> "timer"], [pc |-> "asked"], [pc |-> "open"]} \cup Status)'
          /\ (rows \in [Meetings -> {"none", "recording", "stopping", "recorded", "synthesized"}])'
          /\ (watch \subseteq Meetings)' /\ (boot \in {"probe", "sync", "up"})'
          /\ (faults \in 0..MaxFaults)'
      BY DEF IInv, TypeOK, None
    <2>2. (scribed \in [up : BOOLEAN, rec : Ids, closing : Ids, born : Ids])'
      BY ScribedGrows DEF Grows
    <2> QED
      BY <2>1, <2>2 DEF TypeOK
  <1>3. StartsOK'
    BY StartAnswered DEF StartsOK
  <1>4. Ages'
    <2>1. /\ scribed.born \in Nat /\ scribed'.born \in Nat
          /\ scribed.born <= scribed'.born /\ scribed'.rec <= scribed'.born
      BY ScribedGrows, ScribedIs, BoundsAssumption DEF Grows
    <2>2. ASSUME NEW k \in 1..MaxStarts, Under(k)'
          PROVE  starts'[k].previous <= scribed'.born
      <3>1. Under(k) /\ starts'[k].previous = starts[k].previous
        BY <2>2, StartAnswered DEF Under
      <3> QED
        BY <3>1, <2>1, PreviousIs, ScribedIs, BoundsAssumption
    <2>3. UNCHANGED <<meeting, stop>>
      OBVIOUS
    <2>4. ~(stop # NoStop)
      BY StartAnswered DEF IInv, StartWaits, Under
    <2> QED
      BY <2>1, <2>2, <2>3, <2>4, ScribedIs, BoundsAssumption DEF Ages
  <1>5. HeardIsBorn'
    <2>1. UNCHANGED <<poll, sub>>
      OBVIOUS
    <2>2. Under(n)
      BY StartAnswered DEF Under
    <2>3. \A k \in 1..MaxStarts : starts'[k].pc = "ok" => k = n
      BY <2>2, StartAnswered DEF IInv, OneStart, Under
    <2>4. starts'[n].pc = "ok" => starts'[n].session <= scribed'.born
      BY StartAnswered, ScribedGrows DEF Grows
    <2>5. /\ poll.pc = "answered" => poll.says \in Ids /\ poll.says <= scribed.born
          /\ sub.pc = "answered" => sub.says \in Ids /\ sub.says <= scribed.born
      BY DEF IInv, HeardIsBorn, PollOK, TypeOK, Status, NoPoll, NoSub
    <2>6. scribed.born \in Ids /\ scribed'.born \in Ids /\ scribed.born <= scribed'.born
      BY ScribedGrows, ScribedIs DEF Grows
    <2> QED
      BY <2>1, <2>3, <2>4, <2>5, <2>6, ScribedIs, BoundsAssumption DEF HeardIsBorn
  <1>6. OneStart'
    <2>1. \A k \in 1..MaxStarts : Under(k)' => Under(k)
      BY StartAnswered DEF Under
    <2>2. \A k \in 1..MaxStarts : starts'[k] = NoStart <=> starts[k] = NoStart
      BY StartAnswered DEF NoStart
    <2> QED
      BY <2>1, <2>2 DEF IInv, OneStart
  <1>7. StartWaits'
    BY DEF None, NoStop, NoSub, Under, StartWaits, IInv
  <1>8. RefusedIsDown'
    BY DEF RefusedIsDown, IInv
  <1>9. StatusTells'
    BY ScribedGrows, NewsIsNew
  <1>10. StopTells'
    BY StartAnswered DEF IInv, StartWaits, Under, StopTells, NoStop
  <1>11. StartTells'
    <2>1. Under(n)
      BY StartAnswered DEF Under
    <2>2. ASSUME NEW k \in 1..MaxStarts, starts'[k].pc = "ok"
          PROVE  k = n
      <3>1. CASE k # n
        BY <3>1, <2>1, <2>2, StartAnswered DEF IInv, OneStart, Under
      <3> QED
        BY <3>1
    <2>3. starts'[n].pc = "ok" => scribed'.rec # starts'[n].previous
      BY <2>1, StartAnswered, PreviousIs, ScribedIs, BoundsAssumption
    <2> QED
      BY <2>2, <2>3 DEF StartTells
  <1>12. RowsOK'
    BY StartAnswered DEF IInv, RowsOK, Kept, Under, Stop
  <1> QED
    BY <1>1, <1>2, <1>3, <1>4, <1>5, <1>6, <1>7, <1>8, <1>9, <1>10, <1>11, <1>12 DEF
       IInv

LEMMA StartUnreachedKeeps ==
  ASSUME IInv, NEW n \in 1..MaxStarts, StartUnreached(n), Prompt, InTurn
  PROVE  IInv'
  <1> USE DEF view, disk, Says, StartUnreached
  <1>1. /\ TypeOK' /\ PollOK' /\ StopOK' /\ SyncOK' /\ MeetingIsLive' /\ StopWaits'
       /\ ListIsNow' /\ RefusedIsDown' /\ OneStatus' /\ StatusTells' /\ StopTells'
    BY DEF Meetings, None, Ids, NoPoll, NoStop, NoSync, NoSub, Status, TypeOK, PollOK,
       StopOK, SyncOK, MeetingIsLive, StopWaits, ListIsNow, RefusedIsDown, OneStatus,
       StatusTells, StopTells, IInv
  <1>2. StartsOK'
    BY DEF Meetings, None, Ids, NoStart, Undecided, StartsOK, IInv
  <1>3. Ages'
    BY DEF NoStop, Under, Ages, IInv
  <1>4. HeardIsBorn'
    BY DEF HeardIsBorn, IInv
  <1>5. OneStart'
    BY DEF NoStart, Under, OneStart, IInv
  <1>6. StartWaits'
    BY DEF None, NoStop, NoSub, Under, StartWaits, IInv
  <1>7. StartTells'
    BY DEF None, StartTells, IInv
  <1>8. RowsOK'
    BY DEF Meetings, None, NoStop, Stop, Under, Kept, RowsOK, IInv
  <1> QED
    BY <1>1, <1>2, <1>3, <1>4, <1>5, <1>6, <1>7, <1>8 DEF IInv

LEMMA StartSendKeeps ==
  ASSUME IInv, NEW n \in 1..MaxStarts, StartSend(n), Prompt, InTurn
  PROVE  IInv'
  <1> USE DEF disk, NoStop, NoStart, Deck, Set, Cleared, StartSend
  <1>1. PollOK' /\ StopOK' /\ SyncOK' /\ RefusedIsDown' /\ OneStatus' /\ StopTells'
    BY DEF Meetings, None, Ids, NoPoll, NoSync, PollOK, StopOK, SyncOK, RefusedIsDown,
       OneStatus, StopTells, IInv
  <1>2. TypeOK'
    BY DEF Meetings, None, Ids, NoSub, Status, TypeOK, IInv
  <1>3. StartsOK'
    BY DEF Meetings, None, Ids, NoSub, Status, TypeOK, Undecided, StartsOK, IInv
  <1>4. Ages'
    BY DEF Meetings, None, Ids, NoSub, Status, TypeOK, Under, Ages, IInv
  <1>5. HeardIsBorn'
    BY DEF HeardIsBorn, IInv
  <1>6. OneStart'
    <2>1. ASSUME NEW k \in 1..MaxStarts, Under(k)'
          PROVE  k = n
      <3>1. \A i \in 1..MaxStarts : i # n => starts'[i] = starts[i]
        BY DEF IInv, StartsOK
      <3>2. starts'[n] # NoStart /\ starts[n] = NoStart
        BY DEF IInv, StartsOK
      <3>3. \A i \in 1..(n - 1) : starts[i].pc = "over"
        BY <3>2 DEF InTurn
      <3>4. CASE k < n
        BY <2>1, <3>1, <3>3, <3>4 DEF Under
      <3>5. CASE k > n
        BY <2>1, <3>1, <3>2, <3>5 DEF IInv, OneStart, Under
      <3> QED
        BY <3>4, <3>5
    <2>2. ASSUME NEW k \in 1..MaxStarts, NEW i \in 1..MaxStarts, starts'[k] = NoStart, k < i
          PROVE  starts'[i] = NoStart
      <3>1. starts'[n] # NoStart /\ \A j \in 1..MaxStarts : j # n => starts'[j] = starts[j]
        BY DEF IInv, StartsOK
      <3>2. starts[k] = NoStart /\ \A j \in 1..(n - 1) : starts[j] # NoStart
        BY <2>2, <3>1
      <3>3. i # n
        BY <2>2, <3>2
      <3> QED
        BY <2>2, <3>1, <3>2, <3>3 DEF IInv, OneStart
    <2> QED
      BY <2>1, <2>2 DEF OneStart
  <1>7. StartWaits'
    BY DEF None, NoSub, Under, StartWaits, IInv
  <1>8. MeetingIsLive'
    BY DEF None, MeetingIsLive, IInv
  <1>9. StopWaits'
    BY DEF StopWaits, IInv
  <1>10. ListIsNow'
    BY DEF Meetings, None, Prompt, ListIsNow, IInv
  <1>11. StatusTells'
    BY DEF None, StatusTells, IInv
  <1>12. StartTells'
    BY DEF None, StartTells, IInv
  <1>13. RowsOK'
    BY DEF Meetings, None, Ids, Stop, Undecided, StartsOK, Under, Kept, MeetingIsLive,
       RowsOK, IInv
  <1> QED
    BY <1>1, <1>2, <1>3, <1>4, <1>5, <1>6, <1>7, <1>8, <1>9, <1>10, <1>11, <1>12, <1>13
       DEF IInv

LEMMA StartUndecidedKeeps ==
  ASSUME IInv, NEW n \in 1..MaxStarts, StartUndecided(n), Prompt, InTurn
  PROVE  IInv'
  <1> USE DEF disk, Deck, Set, Stale, Settled, Answered, StartUndecided
  <1>1. StopOK' /\ SyncOK' /\ StopTells'
    BY DEF Meetings, None, Ids, NoStop, NoSync, StopOK, SyncOK, StopTells, IInv
  <1>2. TypeOK'
    <2>1. /\ (scribed \in [up : BOOLEAN, rec : Ids, closing : Ids, born : Ids])'
          /\ (manifest \in [Meetings -> {"none", "recorded", "synthesized"}])'
          /\ (cut \subseteq Meetings)'
          /\ (sub \in {NoSub, [pc |-> "timer"], [pc |-> "asked"], [pc |-> "open"]} \cup Status)'
          /\ (boot \in {"probe", "sync", "up"})' /\ (faults \in 0..MaxFaults)'
      BY DEF IInv, TypeOK, None
    <2>2. /\ (state \in {"unavailable", "idle", "starting", "recording", "stopping"})'
          /\ (meeting \in Ids /\ lost \in BOOLEAN /\ down \in BOOLEAN)'
      BY PreviousIs, BoundsAssumption DEF Under, Meetings, None, Ids, NoPoll, NoStop,
         NoSync, NoStart, NoSub, Status, TypeOK, Undecided, PollOK, StartsOK, StopOK,
         SyncOK, IInv
    <2>3. /\ (rows \in [Meetings -> {"none", "recording", "stopping", "recorded", "synthesized"}])'
          /\ (watch \subseteq Meetings)'
      BY BoundsAssumption DEF Meetings, None, Ids, NoPoll, NoStop, NoSync, NoStart,
         NoSub, Status, TypeOK, Undecided, PollOK, StartsOK, StopOK, SyncOK, IInv
    <2> QED
      BY <2>1, <2>2, <2>3 DEF TypeOK
  <1>3. PollOK'
    BY DEF Meetings, None, Ids, NoPoll, PollOK, IInv
  <1>4. StartsOK'
    BY DEF Meetings, None, Ids, NoStart, Undecided, StartsOK, IInv
  <1>5. Ages'
    BY DEF NoStop, Under, Ages, IInv
  <1>6. HeardIsBorn'
    BY DEF HeardIsBorn, IInv
  <1>7. OneStart'
    BY DEF NoStart, Under, OneStart, IInv
  <1>8. StartWaits'
    BY DEF Meetings, None, Ids, NoStop, NoStart, NoSub, Undecided, StartsOK, Under,
       OneStart, StartWaits, IInv
  <1>9. MeetingIsLive'
    BY DEF None, NoStop, NoSub, Under, StartWaits, MeetingIsLive, IInv
  <1>10. StopWaits'
    BY DEF None, NoStop, NoSub, Under, StartWaits, StopWaits, IInv
  <1>11. ListIsNow'
    BY DEF Meetings, None, Prompt, ListIsNow, IInv
  <1>12. RefusedIsDown'
    BY DEF RefusedIsDown, IInv
  <1>13. OneStatus'
    BY DEF OneStatus, IInv
  <1>14. StatusTells'
    BY DEF Meetings, None, Ids, NoPoll, NoStart, CommandAnswered, Prompt, Undecided,
       PollOK, StartsOK, StatusTells, IInv
  <1>15. StartTells'
    BY DEF None, StartTells, IInv
  <1>16. RowsOK'
    BY DEF Meetings, None, NoStop, NoSub, Stop, Under, Kept, StartWaits, RowsOK, IInv
  <1> QED
    BY <1>1, <1>2, <1>3, <1>4, <1>5, <1>6, <1>7, <1>8, <1>9, <1>10, <1>11, <1>12, <1>13,
       <1>14, <1>15, <1>16 DEF IInv

LEMMA StartFailedKeeps ==
  ASSUME IInv, NEW n \in 1..MaxStarts, StartFailed(n), Prompt, InTurn
  PROVE  IInv'
  <1> USE DEF disk, NoSub, Deck, Set, WentDown, Stale, Settled, Answered, StartFailed
  <1>1. StopOK' /\ SyncOK' /\ StopTells'
    BY DEF Meetings, None, Ids, NoStop, NoSync, StopOK, SyncOK, StopTells, IInv
  <1>2. TypeOK'
    BY DEF Meetings, None, Ids, NoStart, Status, TypeOK, Undecided, StartsOK, IInv
  <1>3. PollOK'
    BY DEF Meetings, None, Ids, NoPoll, PollOK, IInv
  <1>4. StartsOK'
    BY DEF Meetings, None, Ids, NoStart, Undecided, StartsOK, IInv
  <1>5. Ages'
    BY DEF NoStop, Under, Ages, IInv
  <1>6. HeardIsBorn'
    BY DEF HeardIsBorn, IInv
  <1>7. OneStart'
    BY DEF NoStart, Under, OneStart, IInv
  <1>8. StartWaits'
    <2>1. ASSUME NEW k \in 1..MaxStarts
          PROVE  ~Under(k)'
      BY DEF IInv, OneStart, Under, StartsOK
    <2> QED
      BY <2>1 DEF StartWaits
  <1>9. MeetingIsLive'
    BY DEF None, NoStop, Under, StartWaits, MeetingIsLive, IInv
  <1>10. StopWaits'
    BY DEF None, NoStop, Under, StartWaits, StopWaits, IInv
  <1>11. ListIsNow'
    BY DEF Meetings, None, Prompt, ListIsNow, IInv
  <1>12. RefusedIsDown'
    BY DEF RefusedIsDown, IInv
  <1>13. OneStatus'
    BY DEF OneStatus, IInv
  <1>14. StatusTells'
    BY DEF Meetings, None, Ids, NoPoll, PollOK, StatusTells, IInv
  <1>15. StartTells'
    BY DEF None, StartTells, IInv
  <1>16. RowsOK'
    BY DEF Meetings, None, NoStop, Stop, Under, Kept, StartWaits, RowsOK, IInv
  <1> QED
    BY <1>1, <1>2, <1>3, <1>4, <1>5, <1>6, <1>7, <1>8, <1>9, <1>10, <1>11, <1>12, <1>13,
       <1>14, <1>15, <1>16 DEF IInv

LEMMA OtherStartsKeeps ==
  ASSUME IInv, OtherStarts, Prompt, InTurn
  PROVE  IInv'
  <1> USE DEF view, requests, disk, OtherStarts
  <1>1. /\ PollOK' /\ StartsOK' /\ StopOK' /\ SyncOK' /\ OneStart' /\ MeetingIsLive'
       /\ StopWaits' /\ ListIsNow' /\ OneStatus' /\ RowsOK'
    BY DEF Meetings, None, Ids, NoPoll, NoStop, NoSync, NoStart, Stop, Undecided,
       PollOK, StartsOK, StopOK, SyncOK, Under, Kept, OneStart, MeetingIsLive,
       StopWaits, ListIsNow, OneStatus, RowsOK, IInv
  <1>2. TypeOK'
    <2>1. /\ (manifest \in [Meetings -> {"none", "recorded", "synthesized"}])'
          /\ (cut \subseteq Meetings)'
          /\ (state \in {"unavailable", "idle", "starting", "recording", "stopping"})'
          /\ (meeting \in Ids /\ lost \in BOOLEAN /\ down \in BOOLEAN)'
          /\ (sub \in {NoSub, [pc |-> "timer"], [pc |-> "asked"], [pc |-> "open"]} \cup Status)'
          /\ (rows \in [Meetings -> {"none", "recording", "stopping", "recorded", "synthesized"}])'
          /\ (watch \subseteq Meetings)' /\ (boot \in {"probe", "sync", "up"})'
          /\ (faults \in 0..MaxFaults)'
      BY DEF IInv, TypeOK, None
    <2>2. (scribed \in [up : BOOLEAN, rec : Ids, closing : Ids, born : Ids])'
      BY ScribedGrows DEF Grows
    <2> QED
      BY <2>1, <2>2 DEF TypeOK
  <1>3. Ages'
    BY ScribedGrows, ScribedIs, BoundsAssumption DEF Grows, IInv, Ages, Under, StartsOK,
       StopOK, NoStop, NoStart, Undecided, Meetings, None
  <1>4. HeardIsBorn'
    <2>1. UNCHANGED <<poll, sub, starts>>
      OBVIOUS
    <2>2. scribed.born \in Nat /\ scribed'.born \in Nat /\ scribed.born <= scribed'.born
      BY ScribedGrows, ScribedIs, BoundsAssumption DEF Grows
    <2>3. /\ poll.pc = "answered" => poll.says \in Ids
          /\ sub.pc = "answered" => sub.says \in Ids
          /\ \A n \in 1..MaxStarts : starts[n].pc = "ok" => starts[n].session \in Meetings
      BY DEF IInv, PollOK, TypeOK, StartsOK, Status, NoPoll, NoSub, NoStart, Undecided
    <2> QED
      BY <2>1, <2>2, <2>3, ScribedIs, BoundsAssumption DEF IInv, HeardIsBorn, Meetings
  <1>5. StartWaits'
    BY DEF None, NoStop, NoSub, Under, StartWaits, IInv
  <1>6. RefusedIsDown'
    BY DEF RefusedIsDown, IInv
  <1>7. StatusTells'
    BY ScribedGrows, NewsIsNew
  <1>8. StopTells'
    BY ScribedGrows, ScribedIs, BoundsAssumption DEF Grows, IInv, Ages, StopTells,
       StopOK, NoStop, Meetings, None
  <1>9. StartTells'
    BY ScribedGrows, ScribedIs, BoundsAssumption DEF Grows, IInv, Ages, Under,
       StartTells, StartsOK, NoStart, Undecided, Meetings, None
  <1> QED
    BY <1>1, <1>2, <1>3, <1>4, <1>5, <1>6, <1>7, <1>8, <1>9 DEF IInv

LEMMA OtherStopsKeeps ==
  ASSUME IInv, OtherStops, Prompt, InTurn
  PROVE  IInv'
  <1> USE DEF view, requests, disk, OtherStops
  <1>1. /\ PollOK' /\ StartsOK' /\ StopOK' /\ SyncOK' /\ OneStart' /\ MeetingIsLive'
       /\ StopWaits' /\ ListIsNow' /\ OneStatus' /\ RowsOK'
    BY DEF Meetings, None, Ids, NoPoll, NoStop, NoSync, NoStart, Stop, Undecided,
       PollOK, StartsOK, StopOK, SyncOK, Under, Kept, OneStart, MeetingIsLive,
       StopWaits, ListIsNow, OneStatus, RowsOK, IInv
  <1>2. TypeOK'
    BY DEF Meetings, None, Ids, NoSub, Status, TypeOK, IInv
  <1>3. Ages'
    BY DEF Meetings, None, Ids, NoStop, NoSub, Status, TypeOK, Under, Ages, IInv
  <1>4. HeardIsBorn'
    BY DEF HeardIsBorn, IInv
  <1>5. StartWaits'
    BY DEF None, NoStop, NoSub, Under, StartWaits, IInv
  <1>6. RefusedIsDown'
    BY DEF RefusedIsDown, IInv
  <1>7. StatusTells'
    BY DEF None, StatusTells, IInv
  <1>8. StopTells'
    BY DEF Meetings, None, NoStop, StopOK, StopTells, IInv
  <1>9. StartTells'
    BY DEF None, StartTells, IInv
  <1> QED
    BY <1>1, <1>2, <1>3, <1>4, <1>5, <1>6, <1>7, <1>8, <1>9 DEF IInv

LEMMA TornDownKeeps ==
  ASSUME IInv, TornDown, Prompt, InTurn
  PROVE  IInv'
  <1> USE DEF view, requests, TornDown
  <1>1. /\ PollOK' /\ StartsOK' /\ StopOK' /\ SyncOK' /\ OneStart' /\ MeetingIsLive'
       /\ StopWaits' /\ ListIsNow' /\ OneStatus' /\ RowsOK'
    BY DEF Meetings, None, Ids, NoPoll, NoStop, NoSync, NoStart, Stop, Undecided,
       PollOK, StartsOK, StopOK, SyncOK, Under, Kept, OneStart, MeetingIsLive,
       StopWaits, ListIsNow, OneStatus, RowsOK, IInv
  <1>2. TypeOK'
    BY DEF Meetings, None, Ids, NoSub, Status, TypeOK, IInv
  <1>3. Ages'
    BY DEF NoStop, Under, Ages, IInv
  <1>4. HeardIsBorn'
    BY DEF HeardIsBorn, IInv
  <1>5. StartWaits'
    BY DEF None, NoStop, NoSub, Under, StartWaits, IInv
  <1>6. RefusedIsDown'
    BY DEF RefusedIsDown, IInv
  <1>7. StatusTells'
    BY DEF None, StatusTells, IInv
  <1>8. StopTells'
    BY DEF StopTells, IInv
  <1>9. StartTells'
    BY DEF None, StartTells, IInv
  <1> QED
    BY <1>1, <1>2, <1>3, <1>4, <1>5, <1>6, <1>7, <1>8, <1>9 DEF IInv

LEMMA SummarisedKeeps ==
  ASSUME IInv, NEW m \in Meetings, Summarised(m), Prompt, InTurn
  PROVE  IInv'
  <1> USE DEF view, requests, Summarised
  <1>1. /\ PollOK' /\ StartsOK' /\ StopOK' /\ SyncOK' /\ Ages' /\ HeardIsBorn'
       /\ OneStart' /\ StartWaits' /\ MeetingIsLive' /\ StopWaits' /\ ListIsNow' /\ RefusedIsDown'
       /\ OneStatus' /\ StatusTells' /\ StopTells' /\ StartTells' /\ RowsOK'
    BY DEF Meetings, None, Ids, NoPoll, NoStop, NoSync, NoStart, NoSub, Stop, Undecided,
       PollOK, StartsOK, StopOK, SyncOK, Under, Kept, Ages, HeardIsBorn, OneStart,
       StartWaits, MeetingIsLive, StopWaits, ListIsNow, RefusedIsDown, OneStatus,
       StatusTells, StopTells, StartTells, RowsOK, IInv
  <1>2. TypeOK'
    BY DEF Meetings, None, Ids, NoSub, Status, TypeOK, IInv
  <1> QED
    BY <1>1, <1>2 DEF IInv

LEMMA GoesKeeps ==
  ASSUME IInv, Goes, Prompt, InTurn
  PROVE  IInv'
  <1> USE DEF view, requests, Fault, Goes
  <1>1. /\ PollOK' /\ StartsOK' /\ StopOK' /\ SyncOK' /\ OneStart' /\ MeetingIsLive'
       /\ StopWaits' /\ ListIsNow' /\ OneStatus'
    BY DEF Meetings, None, Ids, NoPoll, NoStop, NoSync, NoStart, Undecided, PollOK,
       StartsOK, StopOK, SyncOK, Under, OneStart, MeetingIsLive, StopWaits, ListIsNow,
       OneStatus, IInv
  <1>2. TypeOK'
    <2>1. /\ (state \in {"unavailable", "idle", "starting", "recording", "stopping"})'
          /\ (meeting \in Ids /\ lost \in BOOLEAN /\ down \in BOOLEAN)'
          /\ (sub \in {NoSub, [pc |-> "timer"], [pc |-> "asked"], [pc |-> "open"]} \cup Status)'
          /\ (rows \in [Meetings -> {"none", "recording", "stopping", "recorded", "synthesized"}])'
          /\ (watch \subseteq Meetings)' /\ (boot \in {"probe", "sync", "up"})'
      BY DEF IInv, TypeOK, None
    <2>2. (scribed \in [up : BOOLEAN, rec : Ids, closing : Ids, born : Ids])'
      BY ScribedGrows DEF Grows
    <2>3. /\ (manifest \in [Meetings -> {"none", "recorded", "synthesized"}])'
          /\ (cut \subseteq Meetings)'
      BY BoundsAssumption DEF Meetings, None, Ids, NoPoll, NoStop, NoSync, NoStart,
         NoSub, Status, TypeOK, Undecided, PollOK, StartsOK, StopOK, SyncOK, IInv
    <2>4. (faults \in 0..MaxFaults)'
      BY BoundsAssumption DEF Meetings, None, Ids, NoPoll, NoStop, NoSync, NoStart,
         NoSub, Status, TypeOK, Undecided, PollOK, StartsOK, StopOK, SyncOK, IInv
    <2> QED
      BY <2>1, <2>2, <2>3, <2>4 DEF TypeOK
  <1>3. Ages'
    BY ScribedGrows, ScribedIs, BoundsAssumption DEF Grows, IInv, Ages, Under, StartsOK,
       StopOK, NoStop, NoStart, Undecided, Meetings, None
  <1>4. HeardIsBorn'
    BY DEF Meetings, None, Ids, NoSub, Status, TypeOK, HeardIsBorn, IInv
  <1>5. StartWaits'
    BY DEF None, NoStop, NoSub, Under, StartWaits, IInv
  <1>6. RefusedIsDown'
    BY DEF RefusedIsDown, IInv
  <1>7. StatusTells'
    BY ScribedGrows, NewsIsNew
  <1>8. StopTells'
    BY ScribedGrows, ScribedIs, BoundsAssumption DEF Grows, IInv, Ages, StopTells,
       StopOK, NoStop, Meetings, None
  <1>9. StartTells'
    BY ScribedGrows, ScribedIs, BoundsAssumption DEF Grows, IInv, Ages, Under,
       StartTells, StartsOK, NoStart, Undecided, Meetings, None
  <1>10. RowsOK'
    BY DEF Meetings, None, NoStop, Stop, Under, Kept, RowsOK, IInv
  <1> QED
    BY <1>1, <1>2, <1>3, <1>4, <1>5, <1>6, <1>7, <1>8, <1>9, <1>10 DEF IInv

LEMMA ReturnsKeeps ==
  ASSUME IInv, Returns, Prompt, InTurn
  PROVE  IInv'
  <1> USE DEF view, requests, disk, NoStop, Returns
  <1>1. /\ PollOK' /\ StartsOK' /\ StopOK' /\ SyncOK' /\ OneStart' /\ MeetingIsLive'
       /\ StopWaits' /\ ListIsNow' /\ OneStatus' /\ RowsOK'
    BY DEF Meetings, None, Ids, NoPoll, NoSync, NoStart, Stop, Undecided, PollOK,
       StartsOK, StopOK, SyncOK, Under, Kept, OneStart, MeetingIsLive, StopWaits,
       ListIsNow, OneStatus, RowsOK, IInv
  <1>2. TypeOK'
    BY DEF Meetings, None, Ids, NoSub, Status, TypeOK, IInv
  <1>3. Ages'
    BY DEF Under, Ages, IInv
  <1>4. HeardIsBorn'
    BY DEF HeardIsBorn, IInv
  <1>5. StartWaits'
    BY DEF None, NoSub, Under, StartWaits, IInv
  <1>6. RefusedIsDown'
    BY DEF RefusedIsDown, IInv
  <1>7. StatusTells'
    BY DEF None, StatusTells, IInv
  <1>8. StopTells'
    BY DEF StopTells, IInv
  <1>9. StartTells'
    BY DEF None, StartTells, IInv
  <1> QED
    BY <1>1, <1>2, <1>3, <1>4, <1>5, <1>6, <1>7, <1>8, <1>9 DEF IInv

LEMMA RestartKeeps ==
  ASSUME IInv, Restart, Prompt, InTurn
  PROVE  IInv'
  <1> USE DEF disk, NoPoll, NoStop, NoSync, NoStart, NoSub, Fault, Restart
  <1>1. TypeOK'
    <2>1. /\ (scribed \in [up : BOOLEAN, rec : Ids, closing : Ids, born : Ids])'
          /\ (manifest \in [Meetings -> {"none", "recorded", "synthesized"}])'
          /\ (cut \subseteq Meetings)'
      BY DEF IInv, TypeOK, None
    <2>2. /\ (state \in {"unavailable", "idle", "starting", "recording", "stopping"})'
          /\ (meeting \in Ids /\ lost \in BOOLEAN /\ down \in BOOLEAN)'
      BY BoundsAssumption DEF Meetings, None, Ids, Status, TypeOK, Undecided, PollOK,
         StartsOK, StopOK, SyncOK, IInv
    <2>3. (sub \in {NoSub, [pc |-> "timer"], [pc |-> "asked"], [pc |-> "open"]} \cup Status)'
      BY BoundsAssumption DEF Meetings, None, Ids, Status, TypeOK, Undecided, PollOK,
         StartsOK, StopOK, SyncOK, IInv
    <2>4. /\ (rows \in [Meetings -> {"none", "recording", "stopping", "recorded", "synthesized"}])'
          /\ (watch \subseteq Meetings)'
      BY BoundsAssumption DEF Meetings, None, Ids, Status, TypeOK, Undecided, PollOK,
         StartsOK, StopOK, SyncOK, IInv
    <2>5. (boot \in {"probe", "sync", "up"})'
      BY BoundsAssumption DEF Meetings, None, Ids, Status, TypeOK, Undecided, PollOK,
         StartsOK, StopOK, SyncOK, IInv
    <2>6. (faults \in 0..MaxFaults)'
      BY BoundsAssumption DEF Meetings, None, Ids, Status, TypeOK, Undecided, PollOK,
         StartsOK, StopOK, SyncOK, IInv
    <2> QED
      BY <2>1, <2>2, <2>3, <2>4, <2>5, <2>6 DEF TypeOK
  <1>2. PollOK'
    BY DEF Meetings, None, Ids, PollOK, IInv
  <1>3. StartsOK'
    BY DEF Meetings, None, Ids, Undecided, StartsOK, IInv
  <1>4. StopOK'
    BY DEF Meetings, StopOK, IInv
  <1>5. SyncOK'
    BY DEF Meetings, None, Ids, SyncOK, IInv
  <1>6. Ages'
    BY DEF Meetings, None, Ids, Status, TypeOK, Under, Ages, IInv
  <1>7. HeardIsBorn'
    BY DEF HeardIsBorn, IInv
  <1>8. OneStart'
    BY DEF Under, OneStart, IInv
  <1>9. StartWaits'
    BY DEF None, Under, StartWaits, IInv
  <1>10. MeetingIsLive'
    BY DEF None, MeetingIsLive, IInv
  <1>11. StopWaits'
    BY DEF StopWaits, IInv
  <1>12. ListIsNow'
    BY DEF Meetings, ListIsNow, IInv
  <1>13. RefusedIsDown'
    BY DEF RefusedIsDown, IInv
  <1>14. OneStatus'
    BY DEF OneStatus, IInv
  <1>15. StatusTells'
    BY DEF None, StatusTells, IInv
  <1>16. StopTells'
    BY DEF StopTells, IInv
  <1>17. StartTells'
    BY DEF None, StartTells, IInv
  <1>18. RowsOK'
    BY DEF Meetings, None, Stop, Under, Kept, RowsOK, IInv
  <1> QED
    BY <1>1, <1>2, <1>3, <1>4, <1>5, <1>6, <1>7, <1>8, <1>9, <1>10, <1>11, <1>12, <1>13,
       <1>14, <1>15, <1>16, <1>17, <1>18 DEF IInv

LEMMA SyncReadKeeps ==
  ASSUME IInv, SyncRead, Prompt, InTurn
  PROVE  IInv'
  <1> USE DEF view, requests, disk, NoSync, Fault, Listed, SyncRead
  <1>1. /\ PollOK' /\ StartsOK' /\ StopOK' /\ Ages' /\ HeardIsBorn' /\ OneStart'
       /\ StartWaits' /\ MeetingIsLive' /\ StopWaits' /\ RefusedIsDown' /\ OneStatus' /\ StatusTells'
       /\ StopTells' /\ StartTells' /\ RowsOK'
    BY DEF Meetings, None, Ids, NoPoll, NoStop, NoStart, NoSub, Stop, Undecided, PollOK,
       StartsOK, StopOK, Under, Kept, Ages, HeardIsBorn, OneStart, StartWaits,
       MeetingIsLive, StopWaits, RefusedIsDown, OneStatus, StatusTells, StopTells,
       StartTells, RowsOK, IInv
  <1>2. TypeOK'
    BY BoundsAssumption DEF Meetings, None, Ids, NoSub, Status, TypeOK, IInv
  <1>3. SyncOK'
    BY DEF Meetings, None, Ids, NoSub, Status, TypeOK, SyncOK, IInv
  <1>4. ListIsNow'
    <2>1. UNCHANGED meeting
      OBVIOUS
    <2>2. ASSUME NEW m \in Meetings, sync'.list[m] = "recording"
          PROVE  m = meeting
      <3>1. PICK recording \in {meeting, None} : sync'.list[m] = Listed(recording, m)
        OBVIOUS
      <3>2. Listed(recording, m) = "recording" => m = recording
        BY DEF IInv, TypeOK
      <3> QED
        BY <2>2, <3>1, <3>2 DEF Meetings, None
    <2> QED
      BY <2>1, <2>2 DEF ListIsNow
  <1> QED
    BY <1>1, <1>2, <1>3, <1>4 DEF IInv

LEMMA SyncWriteKeeps ==
  ASSUME IInv, SyncWrite, Prompt, InTurn
  PROVE  IInv'
  <1> USE DEF view, requests, disk, NoSync, SyncWrite
  <1>1. /\ PollOK' /\ StartsOK' /\ StopOK' /\ Ages' /\ HeardIsBorn' /\ OneStart'
       /\ StartWaits' /\ MeetingIsLive' /\ StopWaits' /\ RefusedIsDown' /\ OneStatus' /\ StatusTells'
       /\ StopTells' /\ StartTells'
    BY DEF Meetings, None, Ids, NoPoll, NoStop, NoStart, NoSub, Undecided, PollOK,
       StartsOK, StopOK, Under, Ages, HeardIsBorn, OneStart, StartWaits, MeetingIsLive,
       StopWaits, RefusedIsDown, OneStatus, StatusTells, StopTells, StartTells, IInv
  <1>2. TypeOK'
    BY BoundsAssumption DEF Meetings, None, Ids, NoSub, Status, TypeOK, SyncOK, IInv
  <1>3. SyncOK'
    BY DEF Meetings, None, Ids, SyncOK, IInv
  <1>4. ListIsNow'
    BY DEF Meetings, ListIsNow, IInv
  <1>5. RowsOK'
    BY DEF Meetings, None, NoStop, Stop, Under, Kept, ListIsNow, RowsOK, IInv
  <1> QED
    BY <1>1, <1>2, <1>3, <1>4, <1>5 DEF IInv

LEMMA CheckKeeps ==
  ASSUME IInv, NEW m \in Meetings, Check(m), Prompt, InTurn
  PROVE  IInv'
  <1> USE DEF view, requests, disk, PostState, Check
  <1>1. /\ PollOK' /\ StartsOK' /\ StopOK' /\ SyncOK' /\ Ages' /\ HeardIsBorn'
       /\ OneStart' /\ StartWaits' /\ MeetingIsLive' /\ StopWaits' /\ ListIsNow' /\ RefusedIsDown'
       /\ OneStatus' /\ StatusTells' /\ StopTells' /\ StartTells'
    BY DEF Meetings, None, Ids, NoPoll, NoStop, NoSync, NoStart, NoSub, Undecided,
       PollOK, StartsOK, StopOK, SyncOK, Under, Ages, HeardIsBorn, OneStart, StartWaits,
       MeetingIsLive, StopWaits, ListIsNow, RefusedIsDown, OneStatus, StatusTells,
       StopTells, StartTells, IInv
  <1>2. TypeOK'
    <2>1. /\ (scribed \in [up : BOOLEAN, rec : Ids, closing : Ids, born : Ids])'
          /\ (manifest \in [Meetings -> {"none", "recorded", "synthesized"}])'
          /\ (cut \subseteq Meetings)'
          /\ (state \in {"unavailable", "idle", "starting", "recording", "stopping"})'
          /\ (meeting \in Ids /\ lost \in BOOLEAN /\ down \in BOOLEAN)'
          /\ (sub \in {NoSub, [pc |-> "timer"], [pc |-> "asked"], [pc |-> "open"]} \cup Status)'
          /\ (boot \in {"probe", "sync", "up"})' /\ (faults \in 0..MaxFaults)'
      BY DEF IInv, TypeOK
    <2>2. /\ (rows \in [Meetings -> {"none", "recording", "stopping", "recorded", "synthesized"}])'
          /\ (watch \subseteq Meetings)'
      BY BoundsAssumption DEF Meetings, None, Ids, NoPoll, NoStop, NoSync, NoStart,
         NoSub, Status, TypeOK, Undecided, PollOK, StartsOK, StopOK, SyncOK, IInv
    <2> QED
      BY <2>1, <2>2 DEF TypeOK
  <1>3. RowsOK'
    BY DEF Meetings, None, Ids, NoStop, NoSub, Status, TypeOK, Stop, Under, Kept,
       RowsOK, IInv
  <1> QED
    BY <1>1, <1>2, <1>3 DEF IInv

-----------------------------------------------------------------------------
LEMMA InitKeeps ==
  ASSUME Init
  PROVE  IInv
  <1> USE DEF Init, None, NoPoll, NoStop, NoSync, NoStart, NoSub
  <1>1. TypeOK
    <2>1. None \in Ids
      BY DEF Ids
    <2>2. scribed \in [up : BOOLEAN, rec : Ids, closing : Ids, born : Ids] /\ meeting \in Ids
      BY <2>1
    <2>3. faults \in 0..MaxFaults
      BY BoundsAssumption
    <2> QED
      BY <2>2, <2>3 DEF TypeOK
  <1>2. PollOK /\ StartsOK /\ StopOK /\ SyncOK
    BY DEF PollOK, StartsOK, StopOK, SyncOK
  <1>3. \A n \in 1..MaxStarts : ~Under(n) /\ starts[n].pc = "none"
    BY DEF Under
  <1>4. Ages /\ HeardIsBorn /\ OneStart /\ StartWaits /\ MeetingIsLive /\ StopWaits /\ ListIsNow
    BY <1>3 DEF Ages, HeardIsBorn, OneStart, StartWaits, MeetingIsLive, StopWaits, ListIsNow
  <1>5. RefusedIsDown /\ OneStatus /\ StatusTells /\ StopTells /\ StartTells /\ RowsOK
    BY <1>3 DEF RefusedIsDown, OneStatus, StatusTells, StopTells, StartTells, RowsOK
  <1> QED
    BY <1>1, <1>2, <1>4, <1>5 DEF IInv

LEMMA StepKeeps ==
  ASSUME IInv, [Step]_vars
  PROVE  IInv'
  <1>1. CASE Step
    <2>1. Next /\ Prompt /\ InTurn
      BY <1>1 DEF Step
    <2>2. CASE Polling \/ PollLost \/ Subscription
      BY <2>1, <2>2, PollSendKeeps, PollAnswerKeeps, PollAppliedKeeps, PollRefusedKeeps, PollLostKeeps,
         SubAnswerKeeps, SubStatusKeeps, SubClosedKeeps, SubTimerKeeps DEF Polling, Subscription
    <2>3. CASE Stopping \/ StopSend
      BY <2>1, <2>3, StopTakenKeeps, StopAnswerKeeps, StopDoneKeeps, StopFailedKeeps, StopSendKeeps
         DEF Stopping
    <2>4. CASE SyncRead \/ SyncWrite
      BY <2>1, <2>4, SyncReadKeeps, SyncWriteKeeps
    <2>5. ASSUME NEW n \in 1..MaxStarts, StartSend(n) \/ Starting(n)
          PROVE  IInv'
      BY <2>1, <2>5, StartSendKeeps, StartAnswerKeeps, StartUnreachedKeeps, StartDoneKeeps,
         StartUndecidedKeeps, StartFailedKeeps DEF Starting
    <2>6. ASSUME NEW m \in Meetings, Check(m)
          PROVE  IInv'
      BY <2>1, <2>6, CheckKeeps
    <2>7. CASE Scribed \/ OtherStarts \/ OtherStops \/ Goes \/ Restart
      BY <2>1, <2>7, TornDownKeeps, ReturnsKeeps, SummarisedKeeps, OtherStartsKeeps, OtherStopsKeeps,
         GoesKeeps, RestartKeeps DEF Scribed
    <2> QED
      BY <2>1, <2>2, <2>3, <2>4, <2>5, <2>6, <2>7 DEF Next
  <1>2. CASE UNCHANGED vars
    <2> USE <1>2 DEF vars, IInv
    <2>1. TypeOK' /\ PollOK' /\ StartsOK' /\ StopOK' /\ SyncOK'
      BY DEF TypeOK, PollOK, StartsOK, StopOK, SyncOK
    <2>2. /\ Ages' /\ HeardIsBorn' /\ OneStart' /\ StartWaits' /\ MeetingIsLive'
          /\ StopWaits' /\ ListIsNow'
      BY DEF Ages, HeardIsBorn, OneStart, StartWaits, MeetingIsLive, StopWaits, ListIsNow, Under
    <2>3. RefusedIsDown' /\ OneStatus' /\ StatusTells' /\ StopTells' /\ StartTells' /\ RowsOK'
      BY DEF RefusedIsDown, OneStatus, StatusTells, StopTells, StartTells, RowsOK, Kept, Under, Stop
    <2> QED
      BY <2>1, <2>2, <2>3
  <1> QED
    BY <1>1, <1>2

(* The inductive invariant: what the view, the requests on their way and   *)
(* the rows say of one another.                                            *)
THEOREM RecorderInvariant == FairSpec /\ [][InTurn]_vars => []IInv
  <1>1. Init => IInv
    BY InitKeeps
  <1>2. IInv /\ [Next /\ Prompt]_vars /\ [InTurn]_vars => IInv'
    BY StepKeeps DEF Step
  <1> QED
    BY <1>1, <1>2, PTL DEF FairSpec

(* Whoever stops a meeting, and whatever scribed, its socket, a poll or    *)
(* the server does meanwhile, no row is left behind.                       *)
THEOREM RowsAlwaysFollow == FairSpec /\ [][InTurn]_vars => []RowsFollow
  <1>1. IInv => RowsFollow
    <2> SUFFICES ASSUME IInv PROVE RowsFollow
      OBVIOUS
    <2>1. \A m \in Meetings : Kept(m) <=> m \in Underway
      BY DEF Kept, Underway, Under
    <2> QED
      BY <2>1 DEF IInv, RowsOK, RowsFollow
  <1> QED
    BY <1>1, RecorderInvariant, PTL

-----------------------------------------------------------------------------
(* A meeting that comes under the watch other than by a sync was closed by *)
(* a status, a start or a stop.                                            *)

LEMMA Watched ==
  ASSUME IInv, Step, NEW m \in Meetings, m \in watch' \ watch, sync' = sync
  PROVE  PollApplied \/ SubStatus \/ StopDone \/ \E n \in 1..MaxStarts : StartDone(n)
  <1>1. ~(PollSend \/ PollAnswer \/ PollRefused \/ PollLost \/ SubAnswer \/ SubClosed \/ SubTimer)
    BY DEF PollSend, PollAnswer, PollRefused, PollLost, SubAnswer, SubClosed, SubTimer, Set, WentDown,
           Deck, deck
  <1>2. ~(StopTaken \/ StopAnswer \/ StopFailed \/ StopSend)
    BY DEF StopTaken, StopAnswer, StopFailed, StopSend, Set, Deck
  <1>3. ~(SyncRead \/ SyncWrite)
    BY DEF SyncRead, SyncWrite, NoSync
  <1>4. ASSUME NEW n \in 1..MaxStarts
        PROVE  ~(StartSend(n) \/ StartAnswer(n) \/ StartUnreached(n) \/ StartUndecided(n) \/ StartFailed(n))
    BY DEF StartSend, StartAnswer, StartUnreached, StartUndecided, StartFailed, Set, Deck, Cleared,
           Settled, WentDown
  <1>5. ASSUME NEW k \in Meetings
        PROVE  ~(Check(k) \/ Summarised(k))
    BY DEF Check, Summarised
  <1>6. ~(TornDown \/ Returns \/ OtherStarts \/ OtherStops \/ Goes \/ Restart)
    BY DEF TornDown, Returns, OtherStarts, OtherStops, Goes, Restart, deck
  <1> QED
    BY <1>1, <1>2, <1>3, <1>4, <1>5, <1>6
       DEF Step, Next, Polling, Subscription, Stopping, Starting, Scribed

LEMMA WatchedIsOver ==
  ASSUME IInv, Step, NEW m \in Meetings, m \in watch' \ watch, sync' = sync
  PROVE  scribed.rec # m
  <1>1. CASE PollApplied
    <2>1. poll.pc = "answered" /\ poll.says \in Ids
      BY <1>1 DEF PollApplied, IInv, PollOK, NoPoll
    <2>2. poll.fresh /\ Takes(poll.says)
      BY <1>1, <2>1, StatusTakes DEF PollApplied, Set, Deck
    <2>3. m = meeting /\ meeting \notin {None, poll.says}
      BY <2>2 DEF Takes, Alone, GoesOn, Closes, Rests, Joins, Changes
    <2> QED
      BY <2>1, <2>2, <2>3 DEF IInv, StatusTells
  <1>2. CASE SubStatus
    <2>1. sub.pc = "answered" /\ sub.says \in Ids
      BY <1>2 DEF SubStatus, IInv, TypeOK, Status, NoSub
    <2>2. Takes(sub.says)
      BY <1>2, <2>1, StatusTakes DEF SubStatus
    <2>3. m = meeting /\ meeting \notin {None, sub.says}
      BY <2>2 DEF Takes, Alone, GoesOn, Closes, Rests, Joins, Changes
    <2> QED
      BY <2>1, <2>3 DEF IInv, StatusTells
  <1>3. CASE StopDone
    <2>1. stop.pc = "ok" /\ watch' = watch \cup {stop.of}
      BY <1>3 DEF StopDone, Set, Deck, Cleared
    <2> QED
      BY <2>1 DEF IInv, StopTells
  <1>4. ASSUME NEW n \in 1..MaxStarts, StartDone(n)
        PROVE  scribed.rec # m
    <2>1. /\ starts[n].pc = "ok"
          /\ watch' = IF starts[n].previous \notin {None, starts[n].session}
                      THEN watch \cup {starts[n].previous} ELSE watch
      BY <1>4 DEF StartDone, Set, Deck, Recording, Closed
    <2> QED
      BY <2>1 DEF IInv, StartTells
  <1> QED
    BY <1>1, <1>2, <1>3, <1>4, Watched

(* No status that was on its way while a command was answered, and no      *)
(* answer of a command, ends a meeting that scribed records.               *)
THEOREM StoppedIsAlwaysTrue == FairSpec /\ [][InTurn]_vars => StoppedIsTrue
  <1>1. IInv /\ [Next /\ Prompt]_vars /\ [InTurn]_vars =>
          [\A m \in Meetings : m \in watch' \ watch /\ sync' = sync => scribed.rec # m]_vars
    BY WatchedIsOver DEF Step
  <1> QED
    BY <1>1, RecorderInvariant, PTL DEF FairSpec, StoppedIsTrue

(* With one start, which is what the runs of this module have, nothing is  *)
(* asked of the owner.                                                     *)
LEMMA OneStartIsInTurn ==
  MaxStarts <= 1 => InTurn
  <1> SUFFICES ASSUME MaxStarts <= 1 PROVE InTurn
    OBVIOUS
  <1>1. \A n \in 1..MaxStarts : 1..(n - 1) = {}
    BY BoundsAssumption
  <1> QED
    BY <1>1 DEF InTurn

THEOREM RowsFollowOneStart ==
  ASSUME MaxStarts <= 1
  PROVE  FairSpec => []RowsFollow
  <1>1. [InTurn]_vars
    BY OneStartIsInTurn
  <1> QED
    BY <1>1, RowsAlwaysFollow, PTL

THEOREM StoppedIsTrueOneStart ==
  ASSUME MaxStarts <= 1
  PROVE  FairSpec => StoppedIsTrue
  <1>1. [InTurn]_vars
    BY OneStartIsInTurn
  <1> QED
    BY <1>1, StoppedIsAlwaysTrue, PTL

-----------------------------------------------------------------------------
(* The hub's other engine of detached processes: module Ask, for any asks  *)
(* and threads (A!Spec).  The engine's counter and queue are what they     *)
(* should be, and through kills and restarts a thread has at most one      *)
(* claude process, and the vault two, but for those that could not be      *)
(* listed.                                                                 *)

CONSTANTS Asks, ThreadOf
VARIABLES server, row, entry, st, queue, active, cancelled, broken, result, child, listed, stray

A == INSTANCE Ask

(* A stored answer is not entered any more, and an ask that was not asked  *)
(* has neither a run nor a process.                                        *)
EnteredIsOpen == \A m \in entry: row[m] = "open"
NewIsNew == \A m \in Asks: row[m] = "none" => st[m] = "none" /\ child[m] = "none"

(* What waits has no process yet, what has a result has ended, and a       *)
(* server that is down has no run.                                         *)
WaitingHasNone == \A m \in Asks: st[m] = "queued" => child[m] = "none"
ResultIsDone == \A m \in Asks: result[m] # "none" => st[m] = "done"
DownIsEmpty ==
  server = "down" => entry = {} /\ queue = <<>> /\ active = 0 /\ \A m \in Asks: st[m] = "none"

EngineInv ==
  /\ A!TypeOK /\ A!ActiveCounts /\ A!QueueIsWaiting /\ A!RunsAreEntered /\ A!OneAskPerThread
  /\ EnteredIsOpen /\ NewIsNew /\ WaitingHasNone /\ ResultIsDone /\ DownIsEmpty

(* While a server is up its processes are those of its runs, which         *)
(* EngineInv speaks of; a server that was killed leaves them behind.       *)
LeftBehind == server = "down" => A!OneProcessPerThread /\ A!ProcessLimit

AskInv == EngineInv /\ A!ProcessesKnown /\ LeftBehind

-----------------------------------------------------------------------------
LEMMA SameSets ==
  \A S: A!IsFiniteSet(S) = IsFiniteSet(S) /\ A!Cardinality(S) = Cardinality(S)
  BY DEF A!IsFiniteSet, IsFiniteSet, A!Cardinality, Cardinality

(* What Append, and the removal of the i-th run, make of the queue.        *)

LEMMA Appended ==
  ASSUME NEW S, NEW q \in Seq(S), NEW e \in S
  PROVE  /\ Append(q, e) \in Seq(S) /\ Append(q, e) # <<>> /\ Len(Append(q, e)) = Len(q) + 1
         /\ \A i \in 1..Len(q) + 1: Append(q, e)[i] = IF i <= Len(q) THEN q[i] ELSE e
  OBVIOUS

LEMMA Removed ==
  ASSUME queue \in Seq(Asks), NEW i \in 1..Len(queue), NEW r,
         r = SubSeq(queue, 1, i - 1) \o SubSeq(queue, i + 1, Len(queue))
  PROVE  /\ r \in Seq(Asks) /\ Len(r) = Len(queue) - 1
         /\ \A j \in 1..Len(r): r[j] = IF j < i THEN queue[j] ELSE queue[j + 1]
  <1> DEFINE u == SubSeq(queue, 1, i - 1)
             v == SubSeq(queue, i + 1, Len(queue))
  <1>1. Len(queue) \in Nat /\ i \in 1..Len(queue)
    OBVIOUS
  <1>2. u \in Seq(Asks) /\ Len(u) = i - 1 /\ \A j \in 1..(i - 1): u[j] = queue[j]
    OBVIOUS
  <1>3. v \in Seq(Asks) /\ Len(v) = Len(queue) - i /\ \A j \in 1..(Len(queue) - i): v[j] = queue[j + i]
    OBVIOUS
  <1> HIDE DEF u, v
  <1>4. /\ u \o v \in Seq(Asks) /\ Len(u \o v) = Len(u) + Len(v)
        /\ \A j \in 1..Len(u) + Len(v): (u \o v)[j] = IF j <= Len(u) THEN u[j] ELSE v[j - Len(u)]
    BY ONLY <1>2, <1>3, ConcatProperties
  <1>5. Len(u \o v) = Len(queue) - 1
    BY ONLY <1>1, <1>2, <1>3, <1>4
  <1>6. ASSUME NEW j \in 1..(Len(queue) - 1)
        PROVE  (u \o v)[j] = IF j < i THEN queue[j] ELSE queue[j + 1]
    <2>1. (u \o v)[j] = IF j <= i - 1 THEN u[j] ELSE v[j - (i - 1)]
      BY ONLY <1>1, <1>2, <1>3, <1>4, j \in 1..(Len(queue) - 1)
    <2>2. CASE j <= i - 1
      BY ONLY <1>1, <1>2, <2>1, <2>2, j \in 1..(Len(queue) - 1)
    <2>3. CASE ~(j <= i - 1)
      <3>1. j - (i - 1) \in 1..(Len(queue) - i) /\ (j - (i - 1)) + i = j + 1 /\ ~(j < i)
        BY ONLY <1>1, <2>3, j \in 1..(Len(queue) - 1)
      <3>2. v[j - (i - 1)] = queue[(j - (i - 1)) + i]
        BY ONLY <1>3, <3>1
      <3> QED
        BY ONLY <2>1, <2>3, <3>1, <3>2
    <2> QED
      BY <2>2, <2>3
  <1>7. r = u \o v
    BY DEF u, v
  <1> QED
    BY ONLY <1>4, <1>5, <1>6, <1>7

-----------------------------------------------------------------------------
(* pump starts nothing or one run where it is called.                      *)

PumpsNone(q, a, s, c, dirty) ==
  /\ queue' = q /\ active' = a /\ (q = <<>> \/ a = A!MaxConcurrent)
  /\ st' = s /\ child' = c
  /\ IF dirty THEN A!WriteRunning ELSE UNCHANGED A!disk

PumpsOne(q, a, s, c) ==
  /\ q # <<>> /\ queue' = Tail(q) /\ active' = a + 1 /\ a < A!MaxConcurrent
  /\ Len(q) = 1 \/ a + 1 = A!MaxConcurrent
  /\ st' = [s EXCEPT ![q[1]] = "running"]
  /\ child' \in {c, [c EXCEPT ![q[1]] = "live"]}
  /\ A!WriteRunning

LEMMA PumpCases ==
  ASSUME NEW S, NEW C, NEW q \in Seq(Asks), NEW a \in 0..A!MaxConcurrent,
         NEW s \in [Asks -> S], NEW c \in [Asks -> C], NEW dirty \in BOOLEAN,
         Len(q) <= 1 \/ a >= 1, A!Pump(q, a, s, c, dirty)
  PROVE  PumpsNone(q, a, s, c, dirty) \/ PumpsOne(q, a, s, c)
  <1>1. PICK n \in 0..Len(q): \E spawned \in SUBSET {q[i]: i \in 1..n}:
          /\ a + n <= A!MaxConcurrent
          /\ n = Len(q) \/ a + n = A!MaxConcurrent
          /\ queue' = SubSeq(q, n + 1, Len(q))
          /\ active' = a + n
          /\ st' = [m \in Asks |-> IF \E i \in 1..n: q[i] = m THEN "running" ELSE s[m]]
          /\ child' = [m \in Asks |-> IF m \in spawned THEN "live" ELSE c[m]]
          /\ IF dirty \/ n > 0 THEN A!WriteRunning ELSE UNCHANGED A!disk
    BY DEF A!Pump
  <1>2. n \in {0, 1}
    BY <1>1 DEF A!MaxConcurrent
  <1>3. CASE n = 0
    <2>1. queue' = q
      BY <1>1, <1>3
    <2>2. st' = s /\ child' = c
      BY <1>1, <1>3
    <2>3. active' = a /\ (q = <<>> \/ a = A!MaxConcurrent)
      BY <1>1, <1>3
    <2> QED
      BY <1>1, <1>3, <2>1, <2>2, <2>3 DEF PumpsNone
  <1>4. CASE n = 1
    <2>1. q # <<>> /\ q[1] \in Asks /\ queue' = Tail(q)
      BY <1>1, <1>4
    <2>2. st' = [s EXCEPT ![q[1]] = "running"]
      <3>1. st' = [m \in Asks |-> IF \E i \in 1..n: q[i] = m THEN "running" ELSE s[m]]
        BY <1>1
      <3>2. \A m \in Asks: (\E i \in 1..n: q[i] = m) <=> m = q[1]
        BY <1>4
      <3> QED
        BY <3>1, <3>2, <2>1
    <2>3. child' \in {c, [c EXCEPT ![q[1]] = "live"]}
      <3>0. PICK spawned \in SUBSET {q[i]: i \in 1..n}:
              child' = [m \in Asks |-> IF m \in spawned THEN "live" ELSE c[m]]
        BY <1>1
      <3>1. spawned = {} \/ spawned = {q[1]}
        BY <1>4
      <3>2. CASE spawned = {}
        BY <3>0, <3>2
      <3>3. CASE spawned = {q[1]}
        BY <3>0, <2>1, <3>3
      <3> QED
        BY <3>1, <3>2, <3>3
    <2>4. /\ active' = a + 1 /\ a < A!MaxConcurrent
          /\ Len(q) = 1 \/ a + 1 = A!MaxConcurrent
      BY <1>1, <1>4 DEF A!MaxConcurrent
    <2>5. A!WriteRunning
      <3>1. IF dirty \/ n > 0 THEN A!WriteRunning ELSE UNCHANGED A!disk
        BY <1>1
      <3> QED
        BY <3>1, <1>4
    <2> QED
      BY <2>1, <2>2, <2>3, <2>4, <2>5 DEF PumpsOne
  <1> QED
    BY <1>2, <1>3, <1>4

(* Whatever writeRunning does, a process it does not name is a stray.      *)
LEMMA ListingKeepsKnown ==
  ASSUME EngineInv, A!ProcessesKnown, A!WriteRunning, server # "down", server' = server,
         \A m \in Asks: /\ child'[m] = "live" /\ st'[m] # "running"
                        => child[m] = "live" /\ st[m] # "running"
  PROVE  A!ProcessesKnown'
  BY DEF EngineInv, A!TypeOK, A!ProcessesKnown, A!WriteRunning, A!Running, A!Live

(* While a server is up, the processes are those of its runs.              *)
LEMMA KnownAreRunning ==
  ASSUME EngineInv, A!ProcessesKnown, server # "down"
  PROVE  A!OneProcessPerThread /\ A!ProcessLimit
  <1>1. A!Live \ stray \subseteq A!Running
    BY DEF A!ProcessesKnown, A!Live, A!Running
  <1>2. A!OneProcessPerThread
    BY <1>1 DEF EngineInv, A!OneAskPerThread, A!RunsAreEntered, A!OneProcessPerThread, A!Running, A!Live
  <1>3. IsFiniteSet(A!Running) /\ Cardinality(A!Running) <= A!MaxConcurrent /\ Cardinality(A!Running) \in Nat
    BY SameSets DEF EngineInv, A!TypeOK, A!ActiveCounts, A!MaxConcurrent
  <1>4. IsFiniteSet(A!Live \ stray) /\ Cardinality(A!Live \ stray) <= Cardinality(A!Running)
    BY <1>1, <1>3, FS_Subset
  <1>5. Cardinality(A!Live \ stray) \in Nat
    BY <1>4, FS_CardinalityType
  <1> QED
    BY SameSets, <1>2, <1>3, <1>4, <1>5 DEF A!ProcessLimit, A!MaxConcurrent

-----------------------------------------------------------------------------
LEMMA AskInit == A!Init => AskInv
  <1> SUFFICES ASSUME A!Init PROVE AskInv
    OBVIOUS
  <1>1. A!Running = {} /\ A!Live \ stray = {}
    BY DEF A!Init, A!Running, A!Live
  <1>2. IsFiniteSet({}) /\ Cardinality({}) = 0
    BY FS_EmptySet
  <1>3. A!ActiveCounts /\ A!ProcessLimit
    <2>1. A!ActiveCounts
      BY SameSets, <1>1, <1>2 DEF A!Init, A!ActiveCounts
    <2>2. A!ProcessLimit
      BY SameSets, <1>1, <1>2 DEF A!ProcessLimit, A!MaxConcurrent
    <2> QED
      BY <2>1, <2>2
  <1>4. A!TypeOK
    BY DEF A!Init, A!TypeOK, A!MaxConcurrent
  <1>5. A!QueueIsWaiting /\ A!RunsAreEntered /\ A!OneAskPerThread /\ EnteredIsOpen
    BY DEF A!Init, A!QueueIsWaiting, A!RunsAreEntered, A!OneAskPerThread, EnteredIsOpen
  <1>6. NewIsNew /\ WaitingHasNone /\ ResultIsDone /\ DownIsEmpty
    BY DEF A!Init, NewIsNew, WaitingHasNone, ResultIsDone, DownIsEmpty
  <1>7. A!ProcessesKnown /\ LeftBehind
    BY <1>1 DEF A!Init, A!ProcessesKnown, LeftBehind
  <1> QED
    BY <1>3, <1>4, <1>5, <1>6, <1>7 DEF AskInv, EngineInv

-----------------------------------------------------------------------------
(* What the three callers of pump come to.                                 *)

Waits(m) ==
  /\ active = A!MaxConcurrent /\ active' = active
  /\ queue' = Append(queue, m) /\ st' = [st EXCEPT ![m] = "queued"]
  /\ child' = child /\ UNCHANGED A!disk

Starts(m) ==
  /\ queue = <<>> /\ queue' = <<>>
  /\ active < A!MaxConcurrent /\ active' = active + 1
  /\ st' = [st EXCEPT ![m] = "running"]
  /\ child' \in {child, [child EXCEPT ![m] = "live"]}
  /\ A!WriteRunning

LEMMA AskCases ==
  ASSUME EngineInv, NEW m \in Asks, A!AskVault(m)
  PROVE  Waits(m) \/ Starts(m)
  <1> DEFINE q == Append(queue, m)
             s == [st EXCEPT ![m] = "queued"]
  <1>1. /\ queue \in Seq(Asks) /\ active \in 0..A!MaxConcurrent
        /\ st \in [Asks -> {"none", "queued", "running", "done"}]
        /\ child \in [Asks -> {"none", "live", "gone"}]
        /\ queue # <<>> => active = A!MaxConcurrent
    BY DEF EngineInv, A!TypeOK, A!QueueIsWaiting
  <1>2. q \in Seq(Asks) /\ q # <<>> /\ Len(q) = Len(queue) + 1
    BY <1>1, Appended
  <1>3. s \in [Asks -> {"none", "queued", "running", "done"}]
    BY <1>1
  <1>4. Len(q) <= 1 \/ active >= 1
    BY <1>1, <1>2 DEF A!MaxConcurrent
  <1>5. A!Pump(q, active, s, child, FALSE)
    BY DEF A!AskVault
  <1>6. PumpsNone(q, active, s, child, FALSE) \/ PumpsOne(q, active, s, child)
    <2> HIDE DEF q, s
    <2> QED
      BY <1>1, <1>2, <1>3, <1>4, <1>5, PumpCases
  <1>7. CASE PumpsNone(q, active, s, child, FALSE)
    BY <1>1, <1>2, <1>7 DEF PumpsNone, Waits
  <1>8. CASE PumpsOne(q, active, s, child)
    <2>1. queue = <<>>
      BY <1>1, <1>8 DEF PumpsOne
    <2>2. q = <<m>> /\ Tail(q) = <<>> /\ q[1] = m
      BY <2>1
    <2>3. [s EXCEPT ![m] = "running"] = [st EXCEPT ![m] = "running"]
      BY <1>1
    <2> HIDE DEF q, s
    <2> QED
      BY <1>8, <2>1, <2>2, <2>3 DEF PumpsOne, Starts
  <1> QED
    BY <1>6, <1>7, <1>8

Ended(m) == [child EXCEPT ![m] = IF @ = "live" THEN "gone" ELSE @]

Leaves(m) ==
  /\ queue = <<>> /\ queue' = <<>> /\ active' = active - 1
  /\ st' = [st EXCEPT ![m] = "done"] /\ child' = Ended(m)
  /\ A!WriteRunning

MakesRoom(m, h) ==
  /\ queue # <<>> /\ h = queue[1] /\ queue' = Tail(queue) /\ active' = active
  /\ st' = [st EXCEPT ![m] = "done", ![h] = "running"]
  /\ child' \in {Ended(m), [Ended(m) EXCEPT ![h] = "live"]}
  /\ A!WriteRunning

LEMMA SettleCases ==
  ASSUME EngineInv, NEW m \in Asks, NEW how, A!Settle(m, how)
  PROVE  Leaves(m) \/ MakesRoom(m, queue[1])
  <1> DEFINE s == [st EXCEPT ![m] = "done"]
             c == Ended(m)
  <1>1. /\ queue \in Seq(Asks) /\ active \in 0..A!MaxConcurrent
        /\ st \in [Asks -> {"none", "queued", "running", "done"}]
        /\ child \in [Asks -> {"none", "live", "gone"}]
        /\ queue # <<>> => active = A!MaxConcurrent
    BY DEF EngineInv, A!TypeOK, A!QueueIsWaiting
  <1>2. active # 0
    <2>1. m \in A!Running
      BY DEF A!Settle, A!Running
    <2>2. IsFiniteSet(A!Running) /\ Cardinality(A!Running) = active
      BY SameSets DEF EngineInv, A!ActiveCounts
    <2> QED
      BY <2>1, <2>2, FS_EmptySet
  <1>3. /\ s \in [Asks -> {"none", "queued", "running", "done"}]
        /\ c \in [Asks -> {"none", "live", "gone"}]
    BY <1>1 DEF Ended
  <1>4. active - 1 \in 0..A!MaxConcurrent /\ (Len(queue) <= 1 \/ active - 1 >= 1)
    BY <1>1, <1>2 DEF A!MaxConcurrent
  <1>5. A!Pump(queue, active - 1, s, c, TRUE)
    BY DEF A!Settle, Ended
  <1>6. PumpsNone(queue, active - 1, s, c, TRUE) \/ PumpsOne(queue, active - 1, s, c)
    <2> HIDE DEF s, c
    <2> QED
      BY <1>1, <1>3, <1>4, <1>5, PumpCases
  <1>7. CASE PumpsNone(queue, active - 1, s, c, TRUE)
    BY <1>1, <1>7 DEF PumpsNone, Leaves, A!MaxConcurrent
  <1>8. CASE PumpsOne(queue, active - 1, s, c)
    BY <1>1, <1>8 DEF PumpsOne, MakesRoom, A!MaxConcurrent
  <1> QED
    BY <1>6, <1>7, <1>8

TakenOut(m, i) ==
  /\ i \in 1..Len(queue) /\ queue[i] = m
  /\ queue' \in Seq(Asks) /\ Len(queue') = Len(queue) - 1
  /\ \A j \in 1..Len(queue'): queue'[j] = IF j < i THEN queue[j] ELSE queue[j + 1]
  /\ active' = active /\ st' = [st EXCEPT ![m] = "done"]
  /\ child' = child /\ UNCHANGED A!disk

LEMMA CancelCases ==
  ASSUME EngineInv, NEW m \in Asks, A!CancelQueued(m)
  PROVE  \E i \in 1..Len(queue): TakenOut(m, i)
  <1> DEFINE s == [st EXCEPT ![m] = "done"]
  <1>1. /\ queue \in Seq(Asks) /\ active \in 0..A!MaxConcurrent
        /\ st \in [Asks -> {"none", "queued", "running", "done"}]
        /\ child \in [Asks -> {"none", "live", "gone"}]
        /\ queue # <<>> => active = A!MaxConcurrent
    BY DEF EngineInv, A!TypeOK, A!QueueIsWaiting
  <1>2. PICK i \in 1..Len(queue):
          /\ queue[i] = m
          /\ A!Pump(SubSeq(queue, 1, i - 1) \o SubSeq(queue, i + 1, Len(queue)), active, s, child, FALSE)
    BY DEF A!CancelQueued
  <1> DEFINE q == SubSeq(queue, 1, i - 1) \o SubSeq(queue, i + 1, Len(queue))
  <1>3. /\ q \in Seq(Asks) /\ Len(q) = Len(queue) - 1
        /\ \A j \in 1..Len(q): q[j] = IF j < i THEN queue[j] ELSE queue[j + 1]
    <2>1. q = SubSeq(queue, 1, i - 1) \o SubSeq(queue, i + 1, Len(queue))
      OBVIOUS
    <2> HIDE DEF q
    <2> QED
      BY ONLY <1>1, <2>1, i \in 1..Len(queue), Removed
  <1>4. queue # <<>> /\ active = A!MaxConcurrent
    BY <1>1
  <1>5. s \in [Asks -> {"none", "queued", "running", "done"}]
    BY <1>1
  <1>6. active >= 1 /\ A!Pump(q, active, s, child, FALSE)
    <2>1. active >= 1
      BY <1>4 DEF A!MaxConcurrent
    <2>2. A!Pump(q, active, s, child, FALSE)
      BY <1>2
    <2> QED
      BY <2>1, <2>2
  <1> HIDE DEF q, s
  <1>7. PumpsNone(q, active, s, child, FALSE) \/ PumpsOne(q, active, s, child)
    BY <1>1, <1>3, <1>5, <1>6, PumpCases
  <1>8. PumpsNone(q, active, s, child, FALSE)
    <2>1. ~PumpsOne(q, active, s, child)
      BY <1>4 DEF PumpsOne, A!MaxConcurrent
    <2> QED
      BY <1>7, <2>1
  <1>9. TakenOut(m, i)
    BY <1>2, <1>3, <1>8 DEF PumpsNone, TakenOut, s
  <1> QED
    BY <1>9

-----------------------------------------------------------------------------
(* The steps that change the queue or the counter.                         *)

LEMMA AskKeepsEngine ==
  ASSUME EngineInv, NEW m \in Asks, A!AskVault(m)
  PROVE  EngineInv'
  <1> USE DEF EngineInv
  <1>1. /\ server = "up" /\ server' = "up" /\ row[m] = "none" /\ ~A!Busy(ThreadOf[m])
        /\ row' = [row EXCEPT ![m] = "open"] /\ entry' = entry \cup {m}
        /\ UNCHANGED <<cancelled, broken, result>>
    BY DEF A!AskVault
  <1>2. m \notin entry /\ st[m] = "none" /\ child[m] = "none" /\ result[m] = "none"
    BY <1>1 DEF A!TypeOK, EnteredIsOpen, NewIsNew, ResultIsDone
  <1>3. A!RunsAreEntered' /\ A!OneAskPerThread' /\ EnteredIsOpen'
    <2>1. \A k \in Asks: st'[k] \in {"queued", "running"} => k = m \/ st[k] \in {"queued", "running"}
      BY AskCases DEF A!TypeOK, Waits, Starts
    <2>2. A!RunsAreEntered'
      BY <1>1, <2>1 DEF A!TypeOK, A!RunsAreEntered
    <2>3. A!OneAskPerThread'
      BY <1>1 DEF A!TypeOK, A!OneAskPerThread, A!Busy
    <2>4. EnteredIsOpen'
      BY <1>1, <1>2 DEF A!TypeOK, EnteredIsOpen
    <2> QED
      BY <2>2, <2>3, <2>4
  <1>4. CASE Waits(m)
    <2>1. A!TypeOK'
      <3>1. queue' \in Seq(Asks)
        BY <1>4, Appended DEF A!TypeOK, Waits
      <3> QED
        BY <1>1, <1>4, <3>1 DEF A!TypeOK, Waits, A!disk
    <2>2. A!Running' = A!Running
      BY <1>2, <1>4 DEF A!TypeOK, Waits, A!Running
    <2>3. A!ActiveCounts'
      BY SameSets, <1>4, <2>2 DEF A!ActiveCounts, Waits
    <2>4. A!QueueIsWaiting'
      <3>1. /\ queue' # <<>> /\ Len(queue') = Len(queue) + 1 /\ Len(queue) \in Nat
            /\ \A i \in 1..Len(queue) + 1: queue'[i] = IF i <= Len(queue) THEN queue[i] ELSE m
        BY <1>4, Appended DEF A!TypeOK, Waits
      <3>2. \A i \in 1..Len(queue): queue[i] # m
        BY <1>2 DEF A!QueueIsWaiting, A!TypeOK
      <3>3. \A i, j \in 1..Len(queue'): queue'[i] = queue'[j] => i = j
        BY <3>1, <3>2 DEF A!QueueIsWaiting
      <3>4. ASSUME NEW k \in Asks
            PROVE  st'[k] = "queued" <=> \E i \in 1..Len(queue'): queue'[i] = k
        <4>1. CASE k = m
          BY <1>4, <3>1, <4>1 DEF A!TypeOK, Waits
        <4>2. CASE k # m
          BY <1>4, <3>1, <4>2 DEF A!TypeOK, Waits, A!QueueIsWaiting
        <4> QED
          BY <4>1, <4>2
      <3> QED
        BY <1>4, <3>1, <3>3, <3>4 DEF A!QueueIsWaiting, Waits
    <2>5. NewIsNew' /\ WaitingHasNone' /\ ResultIsDone' /\ DownIsEmpty'
      BY <1>1, <1>2, <1>4 DEF A!TypeOK, Waits, NewIsNew, WaitingHasNone, ResultIsDone, DownIsEmpty
    <2> QED
      BY <1>3, <2>1, <2>3, <2>4, <2>5
  <1>5. CASE Starts(m)
    <2>1. A!TypeOK'
      BY <1>1, <1>5 DEF A!TypeOK, Starts, A!WriteRunning, A!Running, A!Live, A!MaxConcurrent
    <2>2. A!Running' = A!Running \cup {m} /\ m \notin A!Running
      BY <1>2, <1>5 DEF A!TypeOK, Starts, A!Running
    <2>3. A!ActiveCounts'
      BY SameSets, <1>5, <2>2, FS_AddElement DEF A!ActiveCounts, Starts
    <2>4. A!QueueIsWaiting'
      BY <1>2, <1>5 DEF A!TypeOK, Starts, A!QueueIsWaiting
    <2>5. NewIsNew' /\ WaitingHasNone' /\ ResultIsDone' /\ DownIsEmpty'
      BY <1>1, <1>2, <1>5 DEF A!TypeOK, Starts, NewIsNew, WaitingHasNone, ResultIsDone, DownIsEmpty
    <2> QED
      BY <1>3, <2>1, <2>3, <2>4, <2>5
  <1> QED
    BY <1>4, <1>5, AskCases

LEMMA SettleKeepsEngine ==
  ASSUME EngineInv, NEW m \in Asks, NEW how \in {"complete", "cancelled", "error"}, A!Settle(m, how)
  PROVE  EngineInv'
  <1> USE DEF EngineInv
  <1>1. /\ server # "down" /\ st[m] = "running"
        /\ result' = [result EXCEPT ![m] = how]
        /\ UNCHANGED <<server, row, entry, cancelled, broken>>
    BY DEF A!Settle, A!service
  <1>2. m \in entry /\ row[m] = "open"
    BY <1>1 DEF A!RunsAreEntered, EnteredIsOpen
  <1>3. CASE Leaves(m)
    <2>1. A!TypeOK'
      <3>1. active' \in 0..A!MaxConcurrent
        <4>1. m \in A!Running
          BY <1>1 DEF A!Running
        <4>2. active # 0
          BY SameSets, <4>1, FS_EmptySet DEF A!ActiveCounts
        <4> QED
          BY <1>3, <4>2 DEF Leaves, A!TypeOK, A!MaxConcurrent
      <3>2. child' \in [Asks -> {"none", "live", "gone"}]
        BY <1>3 DEF Leaves, Ended, A!TypeOK
      <3>3. listed' \subseteq Asks /\ stray' \subseteq Asks
        BY <1>3 DEF Leaves, A!TypeOK, A!WriteRunning, A!Running
      <3> QED
        BY <1>1, <1>3, <3>1, <3>2, <3>3 DEF A!TypeOK, Leaves
    <2>2. A!Running' = A!Running \ {m} /\ m \in A!Running
      BY <1>1, <1>3 DEF A!TypeOK, Leaves, A!Running
    <2>3. A!ActiveCounts'
      BY SameSets, <1>3, <2>2, FS_RemoveElement DEF A!ActiveCounts, Leaves
    <2>4. A!QueueIsWaiting'
      BY <1>1, <1>3 DEF A!TypeOK, Leaves, A!QueueIsWaiting
    <2>5. A!RunsAreEntered' /\ A!OneAskPerThread' /\ EnteredIsOpen'
      BY <1>1, <1>3 DEF A!TypeOK, Leaves, A!RunsAreEntered, A!OneAskPerThread, EnteredIsOpen
    <2>6. NewIsNew' /\ WaitingHasNone' /\ ResultIsDone' /\ DownIsEmpty'
      BY <1>1, <1>2, <1>3
      DEF A!TypeOK, Leaves, Ended, NewIsNew, WaitingHasNone, ResultIsDone, DownIsEmpty
    <2> QED
      BY <2>1, <2>3, <2>4, <2>5, <2>6
  <1>4. CASE MakesRoom(m, queue[1])
    <2> DEFINE h == queue[1]
    <2>1. /\ h \in Asks /\ st[h] = "queued" /\ h # m /\ child[h] = "none"
          /\ queue' \in Seq(Asks) /\ Len(queue') = Len(queue) - 1 /\ Len(queue) \in Nat
          /\ \A i \in 1..Len(queue'): queue'[i] = queue[i + 1]
      <3>1. h \in Asks /\ 1 \in 1..Len(queue)
        BY <1>4 DEF MakesRoom, A!TypeOK
      <3>2. st[h] = "queued"
        BY <3>1 DEF A!QueueIsWaiting
      <3>3. queue' \in Seq(Asks) /\ Len(queue') = Len(queue) - 1 /\ Len(queue) \in Nat
        BY <1>4 DEF MakesRoom, A!TypeOK
      <3>4. \A i \in 1..Len(queue'): queue'[i] = queue[i + 1]
        BY <1>4, <3>3 DEF MakesRoom, A!TypeOK
      <3> QED
        BY <1>1, <3>1, <3>2, <3>3, <3>4 DEF WaitingHasNone
    <2> HIDE DEF h
    <2>2. /\ active' = active /\ queue # <<>>
          /\ st' = [st EXCEPT ![m] = "done", ![h] = "running"]
          /\ child' \in {Ended(m), [Ended(m) EXCEPT ![h] = "live"]}
          /\ A!WriteRunning
      BY <1>4 DEF MakesRoom, h
    <2>3. A!TypeOK'
      <3>1. child' \in [Asks -> {"none", "live", "gone"}]
        BY <2>1, <2>2 DEF Ended, A!TypeOK
      <3>2. listed' \subseteq Asks /\ stray' \subseteq Asks
        BY <2>2 DEF A!TypeOK, A!WriteRunning, A!Running
      <3> QED
        BY <1>1, <2>1, <2>2, <3>1, <3>2 DEF A!TypeOK
    <2>4. A!Running' = (A!Running \ {m}) \cup {h} /\ m \in A!Running /\ h \notin A!Running \ {m}
      BY <1>1, <2>1, <2>2 DEF A!TypeOK, A!Running
    <2>5. A!ActiveCounts'
      <3>1. /\ IsFiniteSet(A!Running \ {m})
            /\ Cardinality(A!Running \ {m}) = active - 1
        BY SameSets, <2>4, FS_RemoveElement DEF A!ActiveCounts
      <3>2. /\ IsFiniteSet((A!Running \ {m}) \cup {h})
            /\ Cardinality((A!Running \ {m}) \cup {h}) = (active - 1) + 1
        BY <2>4, <3>1, FS_AddElement
      <3> QED
        BY SameSets, <2>2, <2>4, <3>2 DEF A!ActiveCounts, A!TypeOK
    <2>6. A!QueueIsWaiting'
      <3>1. \A i, j \in 1..Len(queue'): queue'[i] = queue'[j] => i = j
        BY <2>1 DEF A!QueueIsWaiting
      <3>2. ASSUME NEW k \in Asks
            PROVE  st'[k] = "queued" <=> \E i \in 1..Len(queue'): queue'[i] = k
        <4>1. CASE k = h
          <5>1. \A i \in 1..Len(queue'): queue'[i] # h
            BY <2>1 DEF A!QueueIsWaiting, h
          <5> QED
            BY <2>1, <2>2, <4>1, <5>1 DEF A!TypeOK
        <4>2. CASE k # h
          <5>1. st'[k] = "queued" <=> st[k] = "queued"
            BY <1>1, <2>2, <4>2 DEF A!TypeOK
          <5>2. ASSUME NEW i \in 1..Len(queue), queue[i] = k
                PROVE  i - 1 \in 1..Len(queue') /\ queue'[i - 1] = k
            BY <2>1, <4>2, <5>2 DEF h
          <5> QED
            BY <2>1, <5>1, <5>2 DEF A!QueueIsWaiting
        <4> QED
          BY <4>1, <4>2
      <3>3. active' = A!MaxConcurrent
        BY <2>2 DEF A!QueueIsWaiting
      <3> QED
        BY <3>1, <3>2, <3>3 DEF A!QueueIsWaiting
    <2>7. A!RunsAreEntered' /\ A!OneAskPerThread' /\ EnteredIsOpen'
      BY <1>1, <2>1, <2>2 DEF A!TypeOK, A!RunsAreEntered, A!OneAskPerThread, EnteredIsOpen
    <2>8. row[h] = "open"
      BY <2>1 DEF A!RunsAreEntered, EnteredIsOpen
    <2>9. NewIsNew' /\ WaitingHasNone' /\ ResultIsDone' /\ DownIsEmpty'
      <3>1. NewIsNew'
        BY <1>1, <1>2, <2>1, <2>2, <2>8 DEF A!TypeOK, Ended, NewIsNew
      <3>2. WaitingHasNone'
        BY <1>1, <2>1, <2>2 DEF A!TypeOK, Ended, WaitingHasNone
      <3>3. ResultIsDone' /\ DownIsEmpty'
        BY <1>1, <2>1, <2>2 DEF A!TypeOK, ResultIsDone, DownIsEmpty
      <3> QED
        BY <3>1, <3>2, <3>3
    <2> QED
      BY <2>3, <2>5, <2>6, <2>7, <2>9
  <1> QED
    BY <1>3, <1>4, SettleCases

LEMMA CancelKeepsEngine ==
  ASSUME EngineInv, NEW m \in Asks, A!CancelQueued(m)
  PROVE  EngineInv'
  <1> USE DEF EngineInv
  <1>1. /\ server = "up" /\ st[m] = "queued" /\ cancelled' = cancelled \cup {m}
        /\ result' = [result EXCEPT ![m] = "cancelled"]
        /\ UNCHANGED <<server, row, entry, broken>>
    BY DEF A!CancelQueued, A!service
  <1>2. PICK i \in 1..Len(queue): TakenOut(m, i)
    BY CancelCases
  <1>3. child[m] = "none" /\ row[m] = "open"
    BY <1>1 DEF WaitingHasNone, A!RunsAreEntered, EnteredIsOpen
  <1>4. A!TypeOK'
    BY <1>1, <1>2 DEF A!TypeOK, TakenOut, A!disk
  <1>5. A!Running' = A!Running
    BY <1>1, <1>2 DEF A!TypeOK, TakenOut, A!Running
  <1>6. A!ActiveCounts'
    BY SameSets, <1>2, <1>5 DEF A!ActiveCounts, TakenOut
  <1>7. A!QueueIsWaiting'
    <2>1. /\ Len(queue) \in Nat /\ Len(queue') = Len(queue) - 1 /\ queue[i] = m
          /\ \A j \in 1..Len(queue'): queue'[j] = IF j < i THEN queue[j] ELSE queue[j + 1]
          /\ \A j, k \in 1..Len(queue): queue[j] = queue[k] => j = k
      BY <1>2 DEF TakenOut, A!TypeOK, A!QueueIsWaiting
    <2>2. \A j, k \in 1..Len(queue'): queue'[j] = queue'[k] => j = k
      BY <2>1
    <2>3. ASSUME NEW k \in Asks
          PROVE  st'[k] = "queued" <=> \E j \in 1..Len(queue'): queue'[j] = k
      <3>1. CASE k = m
        <4>1. \A j \in 1..Len(queue'): queue'[j] # m
          BY <2>1
        <4> QED
          BY <1>2, <3>1, <4>1 DEF TakenOut, A!TypeOK
      <3>2. CASE k # m
        <4>1. st'[k] = st[k]
          BY <1>2, <3>2 DEF TakenOut, A!TypeOK
        <4>2. ASSUME NEW j \in 1..Len(queue), queue[j] = k
              PROVE  \E l \in 1..Len(queue'): queue'[l] = k
          <5>1. CASE j < i
            BY <2>1, <4>2, <5>1
          <5>2. CASE ~(j < i)
            <6>1. j - 1 \in 1..Len(queue') /\ ~(j - 1 < i) /\ (j - 1) + 1 = j
              BY <2>1, <3>2, <4>2, <5>2
            <6> QED
              BY <2>1, <4>2, <6>1
          <5> QED
            BY <5>1, <5>2
        <4>3. ASSUME NEW l \in 1..Len(queue'), queue'[l] = k
              PROVE  \E j \in 1..Len(queue): queue[j] = k
          BY <2>1, <4>3
        <4> QED
          BY <4>1, <4>2, <4>3 DEF A!QueueIsWaiting
      <3> QED
        BY <3>1, <3>2
    <2>4. queue' # <<>> => active' = A!MaxConcurrent
      <3>1. queue # <<>>
        BY <2>1 DEF A!TypeOK
      <3> QED
        BY <1>2, <3>1 DEF TakenOut, A!QueueIsWaiting
    <2> QED
      BY <2>2, <2>3, <2>4 DEF A!QueueIsWaiting
  <1>8. A!RunsAreEntered' /\ A!OneAskPerThread' /\ EnteredIsOpen'
    BY <1>1, <1>2 DEF A!TypeOK, TakenOut, A!RunsAreEntered, A!OneAskPerThread, EnteredIsOpen
  <1>9. NewIsNew' /\ WaitingHasNone' /\ ResultIsDone' /\ DownIsEmpty'
    BY <1>1, <1>2, <1>3
    DEF A!TypeOK, TakenOut, NewIsNew, WaitingHasNone, ResultIsDone, DownIsEmpty
  <1> QED
    BY <1>4, <1>6, <1>7, <1>8, <1>9

LEMMA CloseKeepsEngine ==
  ASSUME EngineInv, A!Close
  PROVE  EngineInv'
  <1> USE DEF EngineInv
  <1>1. /\ server = "up" /\ server' = "closed" /\ queue' = <<>>
        /\ st' = [m \in Asks |-> IF st[m] = "queued" THEN "done" ELSE st[m]]
        /\ result' = [m \in Asks |-> IF st[m] = "queued" THEN "cancelled" ELSE result[m]]
        /\ cancelled' = cancelled \cup {m \in entry: st[m] \in {"queued", "running"}}
        /\ UNCHANGED <<row, entry, active, broken, child, listed, stray>>
    BY DEF A!Close, A!service, A!disk
  <1>2. A!TypeOK'
    BY <1>1 DEF A!TypeOK
  <1>3. A!Running' = A!Running
    BY <1>1 DEF A!TypeOK, A!Running
  <1>4. A!ActiveCounts'
    BY SameSets, <1>1, <1>3 DEF A!ActiveCounts
  <1>5. A!QueueIsWaiting'
    BY <1>1 DEF A!TypeOK, A!QueueIsWaiting
  <1>6. A!RunsAreEntered' /\ A!OneAskPerThread' /\ EnteredIsOpen'
    BY <1>1 DEF A!TypeOK, A!RunsAreEntered, A!OneAskPerThread, EnteredIsOpen
  <1>7. NewIsNew' /\ WaitingHasNone' /\ DownIsEmpty'
    BY <1>1 DEF A!TypeOK, NewIsNew, WaitingHasNone, DownIsEmpty
  <1>8. ResultIsDone'
    BY <1>1 DEF A!TypeOK, ResultIsDone
  <1> QED
    BY <1>2, <1>4, <1>5, <1>6, <1>7, <1>8

-----------------------------------------------------------------------------
(* The steps after which the server has forgotten its runs: what is left   *)
(* on the disk, in the rows and of the processes is all that matters.      *)
Gone ==
  /\ A!Forgotten
  /\ row' \in [Asks -> {"none", "open", "complete", "cancelled", "error"}]
  /\ child' \in [Asks -> {"none", "live", "gone"}]
  /\ listed' \subseteq Asks /\ stray' \subseteq Asks
  /\ \A m \in Asks: row'[m] = "none" => child'[m] = "none"

LEMMA GoneKeepsEngine ==
  ASSUME Gone
  PROVE  EngineInv'
  <1> USE DEF Gone, A!Forgotten
  <1>1. A!TypeOK'
    BY DEF A!TypeOK, A!MaxConcurrent
  <1>2. A!Running' = {}
    BY DEF A!Running
  <1>3. A!ActiveCounts'
    BY SameSets, <1>2, FS_EmptySet DEF A!ActiveCounts
  <1>4. A!QueueIsWaiting' /\ A!RunsAreEntered' /\ A!OneAskPerThread' /\ EnteredIsOpen'
    BY DEF A!QueueIsWaiting, A!RunsAreEntered, A!OneAskPerThread, EnteredIsOpen
  <1>5. NewIsNew' /\ WaitingHasNone' /\ ResultIsDone' /\ DownIsEmpty'
    BY DEF NewIsNew, WaitingHasNone, ResultIsDone, DownIsEmpty
  <1> QED
    BY <1>1, <1>3, <1>4, <1>5 DEF EngineInv

(* Fewer processes that are known are still one for a thread, and two.     *)
LEMMA FewerProcesses ==
  ASSUME A!OneProcessPerThread, A!ProcessLimit, A!Live' \ stray' \subseteq A!Live \ stray
  PROVE  A!OneProcessPerThread' /\ A!ProcessLimit'
  <1>1. A!OneProcessPerThread'
    BY DEF A!OneProcessPerThread
  <1>2. /\ IsFiniteSet(A!Live' \ stray')
        /\ Cardinality(A!Live' \ stray') <= Cardinality(A!Live \ stray)
    BY SameSets, FS_Subset DEF A!ProcessLimit
  <1>3. Cardinality(A!Live \ stray) \in Nat /\ Cardinality(A!Live' \ stray') \in Nat
    BY SameSets, <1>2, FS_CardinalityType DEF A!ProcessLimit
  <1>4. A!ProcessLimit'
    BY SameSets, <1>2, <1>3 DEF A!ProcessLimit, A!MaxConcurrent
  <1> QED
    BY <1>1, <1>4

-----------------------------------------------------------------------------
(* Each step keeps AskInv.                                                   *)

LEMMA AskStep ==
  ASSUME AskInv, NEW m \in Asks, A!AskVault(m)
  PROVE  AskInv'
  <1>1. EngineInv'
    BY AskKeepsEngine DEF AskInv
  <1>2. server = "up" /\ server' = server
    BY DEF A!AskVault
  <1>3. A!ProcessesKnown'
    <2>1. CASE Waits(m)
      BY <1>2, <2>1
      DEF AskInv, EngineInv, A!TypeOK, A!ProcessesKnown, WaitingHasNone, NewIsNew, Waits, A!AskVault, A!Live, A!disk
    <2>2. CASE Starts(m)
      BY <1>2, <2>2, ListingKeepsKnown DEF AskInv, EngineInv, A!TypeOK, Starts
    <2> QED
      BY <2>1, <2>2, AskCases DEF AskInv
  <1> QED
    BY <1>1, <1>2, <1>3 DEF AskInv, LeftBehind

LEMMA SettleStep ==
  ASSUME AskInv, NEW m \in Asks, NEW how \in {"complete", "cancelled", "error"}, A!Settle(m, how)
  PROVE  AskInv'
  <1>1. EngineInv'
    BY SettleKeepsEngine DEF AskInv
  <1>2. server # "down" /\ server' = server
    BY DEF A!Settle
  <1>3. A!ProcessesKnown'
    <2>1. A!WriteRunning /\ \A k \in Asks: /\ child'[k] = "live" /\ st'[k] # "running"
                                         => child[k] = "live" /\ st[k] # "running"
      <3>1. CASE Leaves(m)
        BY <3>1 DEF AskInv, EngineInv, A!TypeOK, Leaves, Ended
      <3>2. CASE MakesRoom(m, queue[1])
        <4>1. queue[1] \in Asks
          BY <3>2 DEF AskInv, EngineInv, A!TypeOK, MakesRoom
        <4> QED
          BY <3>2, <4>1 DEF AskInv, EngineInv, A!TypeOK, MakesRoom, Ended
      <3> QED
        BY <3>1, <3>2, SettleCases DEF AskInv
    <2> QED
      BY <1>2, <2>1, ListingKeepsKnown DEF AskInv
  <1> QED
    BY <1>1, <1>2, <1>3 DEF AskInv, LeftBehind

LEMMA CancelStep ==
  ASSUME AskInv, NEW m \in Asks, A!CancelQueued(m)
  PROVE  AskInv'
  <1>1. EngineInv'
    BY CancelKeepsEngine DEF AskInv
  <1>2. server = "up" /\ server' = server /\ st[m] = "queued"
    BY DEF A!CancelQueued
  <1>3. PICK i \in 1..Len(queue): TakenOut(m, i)
    BY CancelCases DEF AskInv
  <1>4. A!ProcessesKnown'
    BY <1>2, <1>3 DEF AskInv, EngineInv, A!TypeOK, WaitingHasNone, A!ProcessesKnown, TakenOut, A!Live, A!disk
  <1> QED
    BY <1>1, <1>2, <1>4 DEF AskInv, LeftBehind

(* The steps that change neither the engine's books nor the processes.     *)
LEMMA MarkStep ==
  ASSUME AskInv, NEW m \in Asks, A!Break(m) \/ A!CancelRunning(m) \/ A!Finish(m)
  PROVE  AskInv'
  <1>1. /\ UNCHANGED <<server, st, queue, active, result, child, listed, stray>>
        /\ cancelled' \subseteq Asks /\ broken' \subseteq Asks
    BY DEF AskInv, EngineInv, A!TypeOK, A!Break, A!CancelRunning, A!Finish, A!service, A!runs, A!disk
  <1>2. A!Running' = A!Running /\ A!Live' = A!Live
    BY <1>1 DEF A!Running, A!Live
  <1>3. \/ UNCHANGED <<row, entry>>
        \/ /\ entry' = entry \ {m} /\ m \in entry /\ st[m] = "done"
           /\ row' \in {[row EXCEPT ![m] = result[m]], row}
    <2>1. CASE A!Finish(m)
      BY <2>1 DEF AskInv, EngineInv, ResultIsDone, A!Finish
    <2>2. CASE A!Break(m) \/ A!CancelRunning(m)
      BY <2>2 DEF A!Break, A!CancelRunning, A!service
    <2> QED
      BY <2>1, <2>2
  <1>4. result[m] # "none" \/ UNCHANGED <<row, entry>>
    BY DEF A!Break, A!CancelRunning, A!Finish, A!service
  <1>5. A!TypeOK'
    BY <1>1, <1>3, <1>4 DEF AskInv, EngineInv, A!TypeOK
  <1>6. A!ActiveCounts' /\ A!QueueIsWaiting'
    <2>1. A!ActiveCounts'
      BY SameSets, <1>1, <1>2 DEF AskInv, EngineInv, A!ActiveCounts
    <2>2. A!QueueIsWaiting'
      BY <1>1 DEF AskInv, EngineInv, A!QueueIsWaiting
    <2> QED
      BY <2>1, <2>2
  <1>7. A!RunsAreEntered' /\ A!OneAskPerThread' /\ EnteredIsOpen'
    BY <1>1, <1>3 DEF AskInv, EngineInv, A!TypeOK, A!RunsAreEntered, A!OneAskPerThread, EnteredIsOpen
  <1>8. NewIsNew' /\ WaitingHasNone' /\ ResultIsDone' /\ DownIsEmpty'
    <2>1. NewIsNew'
      BY <1>1, <1>3, <1>4 DEF AskInv, EngineInv, A!TypeOK, NewIsNew, EnteredIsOpen
    <2>2. WaitingHasNone' /\ ResultIsDone' /\ DownIsEmpty'
      BY <1>1, <1>3 DEF AskInv, EngineInv, WaitingHasNone, ResultIsDone, DownIsEmpty
    <2> QED
      BY <2>1, <2>2
  <1>9. A!ProcessesKnown'
    BY <1>1, <1>2 DEF AskInv, A!ProcessesKnown
  <1>10. LeftBehind'
    BY SameSets, <1>1, <1>2 DEF AskInv, LeftBehind, A!OneProcessPerThread, A!ProcessLimit
  <1> QED
    BY <1>5, <1>6, <1>7, <1>8, <1>9, <1>10 DEF AskInv, EngineInv

LEMMA CloseStep ==
  ASSUME AskInv, A!Close
  PROVE  AskInv'
  <1>1. EngineInv'
    BY CloseKeepsEngine DEF AskInv
  <1>2. /\ server = "up" /\ server' = "closed" /\ UNCHANGED <<child, listed, stray>>
        /\ \A m \in Asks: st[m] = "running" => st'[m] = "running"
    BY DEF A!Close, A!disk
  <1>3. A!ProcessesKnown'
    BY <1>2 DEF AskInv, A!ProcessesKnown, A!Live
  <1> QED
    BY <1>1, <1>2, <1>3 DEF AskInv, LeftBehind

(* A server that stops or is killed leaves its processes as they were, or  *)
(* has just started one that it did not list.                              *)
LEMMA StopStep ==
  ASSUME AskInv, A!Stop \/ A!Killed
  PROVE  AskInv'
  <1>1. /\ server # "down" /\ A!Forgotten
        /\ UNCHANGED <<row, child, listed, stray>>
    BY DEF A!Stop, A!Killed, A!disk
  <1>2. EngineInv'
    BY <1>1, GoneKeepsEngine DEF Gone, AskInv, EngineInv, A!TypeOK, NewIsNew
  <1>3. A!ProcessesKnown' /\ LeftBehind'
    <2>1. A!Live' = A!Live /\ server' = "down"
      BY <1>1 DEF A!Live, A!Forgotten
    <2>2. A!OneProcessPerThread' /\ A!ProcessLimit'
      BY <1>1, <2>1, KnownAreRunning, FewerProcesses DEF AskInv
    <2>3. A!ProcessesKnown'
      BY <1>1, <2>1 DEF AskInv, A!ProcessesKnown
    <2> QED
      BY <2>2, <2>3 DEF LeftBehind
  <1> QED
    BY <1>2, <1>3 DEF AskInv

LEMMA KilledInStartStep ==
  ASSUME AskInv, NEW m \in Asks, A!KilledInStart(m)
  PROVE  AskInv'
  <1>1. /\ server # "down" /\ A!Forgotten
        /\ row' = [row EXCEPT ![m] = "open"] /\ child' = [child EXCEPT ![m] = "live"]
        /\ stray' = stray \cup {m} /\ listed' = listed
    BY DEF A!KilledInStart
  <1>2. EngineInv'
    BY <1>1, GoneKeepsEngine DEF Gone, AskInv, EngineInv, A!TypeOK, NewIsNew
  <1>3. A!ProcessesKnown' /\ LeftBehind'
    <2>1. A!Live' \ stray' \subseteq A!Live \ stray /\ server' = "down"
      BY <1>1 DEF AskInv, EngineInv, A!TypeOK, A!Live, A!Forgotten
    <2>2. A!OneProcessPerThread' /\ A!ProcessLimit'
      BY <1>1, <2>1, KnownAreRunning, FewerProcesses DEF AskInv
    <2>3. A!ProcessesKnown'
      BY <1>1, <2>1 DEF AskInv, A!ProcessesKnown
    <2> QED
      BY <2>2, <2>3 DEF LeftBehind
  <1> QED
    BY <1>2, <1>3 DEF AskInv

LEMMA KilledInPumpStep ==
  ASSUME AskInv, NEW m \in Asks, A!KilledInPump(m)
  PROVE  AskInv'
  <1> DEFINE h == Head(queue)
  <1>1. /\ server # "down" /\ A!Forgotten /\ st[m] = "running" /\ queue # <<>>
        /\ row' = row /\ child' = [child EXCEPT ![m] = "gone", ![h] = "live"]
        /\ stray' = stray \cup {h} /\ listed' = listed \ {m}
    BY DEF A!KilledInPump
  <1>2. h \in Asks /\ st[h] = "queued" /\ row[h] = "open"
    <2>1. h \in Asks /\ h = queue[1] /\ 1 \in 1..Len(queue)
      BY <1>1 DEF AskInv, EngineInv, A!TypeOK
    <2>2. st[h] = "queued"
      BY <2>1 DEF AskInv, EngineInv, A!QueueIsWaiting
    <2> QED
      BY <2>1, <2>2 DEF AskInv, EngineInv, A!RunsAreEntered, EnteredIsOpen
  <1> HIDE DEF h
  <1>3. Gone
    <2>1. child' \in [Asks -> {"none", "live", "gone"}]
      BY <1>1, <1>2 DEF AskInv, EngineInv, A!TypeOK
    <2>2. \A k \in Asks: row'[k] = "none" => child'[k] = "none"
      <3>1. row[m] = "open"
        BY <1>1 DEF AskInv, EngineInv, A!RunsAreEntered, EnteredIsOpen
      <3> QED
        BY <1>1, <1>2, <3>1 DEF AskInv, EngineInv, A!TypeOK, NewIsNew
    <2> QED
      BY <1>1, <1>2, <2>1, <2>2 DEF Gone, AskInv, EngineInv, A!TypeOK
  <1>4. EngineInv'
    BY <1>3, GoneKeepsEngine
  <1>5. A!ProcessesKnown' /\ LeftBehind'
    <2>1. A!Live' \ stray' \subseteq (A!Live \ stray) \ {m} /\ server' = "down"
      BY <1>1, <1>2 DEF AskInv, EngineInv, A!TypeOK, A!Live, A!Forgotten
    <2>2. A!OneProcessPerThread' /\ A!ProcessLimit'
      BY <1>1, <2>1, KnownAreRunning, FewerProcesses DEF AskInv
    <2>3. A!ProcessesKnown'
      BY <1>1, <2>1 DEF AskInv, A!ProcessesKnown
    <2> QED
      BY <2>2, <2>3 DEF LeftBehind
  <1> QED
    BY <1>4, <1>5 DEF AskInv

LEMMA EndsStep ==
  ASSUME AskInv, NEW m \in Asks, A!Ends(m)
  PROVE  AskInv'
  <1>1. /\ child' = [child EXCEPT ![m] = "gone"] /\ child[m] = "live"
        /\ UNCHANGED <<server, row, entry, st, queue, active, cancelled, broken, result, listed, stray>>
    BY DEF A!Ends, A!service, A!runs, A!disk
  <1>2. A!Running' = A!Running /\ A!Live' = A!Live \ {m}
    BY <1>1 DEF AskInv, EngineInv, A!TypeOK, A!Running, A!Live
  <1>3. EngineInv'
    <2>1. A!TypeOK'
      BY <1>1 DEF AskInv, EngineInv, A!TypeOK
    <2>2. A!ActiveCounts'
      BY SameSets, <1>1, <1>2 DEF AskInv, EngineInv, A!ActiveCounts
    <2>3. A!QueueIsWaiting' /\ A!RunsAreEntered' /\ A!OneAskPerThread' /\ EnteredIsOpen'
      BY <1>1 DEF AskInv, EngineInv, A!QueueIsWaiting, A!RunsAreEntered, A!OneAskPerThread, EnteredIsOpen
    <2>4. NewIsNew' /\ WaitingHasNone' /\ ResultIsDone' /\ DownIsEmpty'
      BY <1>1 DEF AskInv, EngineInv, A!TypeOK, NewIsNew, WaitingHasNone, ResultIsDone, DownIsEmpty
    <2> QED
      BY <2>1, <2>2, <2>3, <2>4 DEF EngineInv
  <1>4. A!ProcessesKnown'
    BY <1>1, <1>2 DEF AskInv, A!ProcessesKnown
  <1>5. LeftBehind'
    <2>1. CASE server = "down"
      BY <1>1, <1>2, <2>1, FewerProcesses DEF AskInv, LeftBehind
    <2>2. CASE server # "down"
      BY <1>1, <2>2 DEF LeftBehind
    <2> QED
      BY <2>1, <2>2
  <1> QED
    BY <1>3, <1>4, <1>5 DEF AskInv

(* The processes that running.json names are killed before the first ask.  *)
LEMMA ReapStep ==
  ASSUME AskInv, A!ReapOrphans
  PROVE  AskInv'
  <1>1. /\ server = "down" /\ server' = "up" /\ listed' = {}
        /\ child' = [m \in Asks |-> IF m \in listed /\ child[m] = "live" THEN "gone" ELSE child[m]]
        /\ row' = [m \in Asks |-> IF row[m] = "open" THEN "error" ELSE row[m]]
        /\ UNCHANGED <<entry, st, queue, active, cancelled, broken, result, stray>>
    BY DEF A!ReapOrphans, A!runs
  <1>2. A!Running' = A!Running /\ entry = {}
    BY <1>1 DEF AskInv, EngineInv, DownIsEmpty, A!Running
  <1>3. EngineInv'
    <2>1. A!TypeOK'
      BY <1>1 DEF AskInv, EngineInv, A!TypeOK
    <2>2. A!ActiveCounts'
      BY SameSets, <1>1, <1>2 DEF AskInv, EngineInv, A!ActiveCounts
    <2>3. A!QueueIsWaiting' /\ A!RunsAreEntered' /\ A!OneAskPerThread' /\ EnteredIsOpen'
      BY <1>1, <1>2 DEF AskInv, EngineInv, A!QueueIsWaiting, A!RunsAreEntered, A!OneAskPerThread, EnteredIsOpen
    <2>4. NewIsNew' /\ WaitingHasNone' /\ ResultIsDone' /\ DownIsEmpty'
      BY <1>1 DEF AskInv, EngineInv, A!TypeOK, NewIsNew, WaitingHasNone, ResultIsDone, DownIsEmpty
    <2> QED
      BY <2>1, <2>2, <2>3, <2>4 DEF EngineInv
  <1>4. A!ProcessesKnown'
    BY <1>1 DEF AskInv, A!ProcessesKnown, A!Live
  <1> QED
    BY <1>1, <1>3, <1>4 DEF AskInv, LeftBehind

LEMMA AskNext == AskInv /\ [A!Next]_(A!vars) => AskInv'
  <1> SUFFICES ASSUME AskInv, [A!Next]_(A!vars) PROVE AskInv'
    OBVIOUS
  <1>1. CASE UNCHANGED A!vars
    <2>1. A!Running' = A!Running /\ A!Live' = A!Live
      BY <1>1 DEF A!vars, A!service, A!runs, A!disk, A!Running, A!Live
    <2> QED
      BY <1>1, <2>1
      DEF A!vars, A!service, A!runs, A!disk, AskInv, EngineInv, A!TypeOK, A!ActiveCounts, A!QueueIsWaiting,
          A!RunsAreEntered, A!OneAskPerThread, EnteredIsOpen, NewIsNew, WaitingHasNone, ResultIsDone,
          DownIsEmpty, A!ProcessesKnown, LeftBehind, A!OneProcessPerThread, A!ProcessLimit
  <1>2. ASSUME NEW m \in Asks, A!AskVault(m) PROVE AskInv'
    BY <1>2, AskStep
  <1>3. ASSUME NEW m \in Asks, A!Break(m) \/ A!CancelRunning(m) \/ A!Finish(m) PROVE AskInv'
    BY <1>3, MarkStep
  <1>4. ASSUME NEW m \in Asks, A!CancelQueued(m) PROVE AskInv'
    BY <1>4, CancelStep
  <1>5. ASSUME NEW m \in Asks, NEW how \in {"complete", "cancelled", "error"}, A!Settle(m, how)
        PROVE  AskInv'
    BY <1>5, SettleStep
  <1>6. ASSUME NEW m \in Asks, A!KilledInStart(m) PROVE AskInv'
    BY <1>6, KilledInStartStep
  <1>7. ASSUME NEW m \in Asks, A!KilledInPump(m) PROVE AskInv'
    BY <1>7, KilledInPumpStep
  <1>8. ASSUME NEW m \in Asks, A!Ends(m) PROVE AskInv'
    BY <1>8, EndsStep
  <1>9. CASE A!Close
    BY <1>9, CloseStep
  <1>10. CASE A!Stop \/ A!Killed
    BY <1>10, StopStep
  <1>11. CASE A!ReapOrphans
    BY <1>11, ReapStep
  <1> QED
    BY <1>1, <1>2, <1>3, <1>4, <1>5, <1>6, <1>7, <1>8, <1>9, <1>10, <1>11 DEF A!Next

-----------------------------------------------------------------------------
(* The strengthened invariant holds in every state.                        *)
THEOREM AskInvariant == A!Spec => []AskInv
  BY AskInit, AskNext, PTL DEF A!Spec

(* The engine's books (engine.mjs: active, queue) and the service's        *)
(* (service.mjs: running) are true of its runs, whatever is asked,         *)
(* cancelled, broken or killed.                                            *)
THEOREM BooksAreKept ==
  A!Spec => [](A!ActiveCounts /\ A!QueueIsWaiting /\ A!RunsAreEntered /\ A!OneAskPerThread)
  <1>1. AskInv => A!ActiveCounts /\ A!QueueIsWaiting /\ A!RunsAreEntered /\ A!OneAskPerThread
    BY DEF AskInv, EngineInv
  <1> QED
    BY <1>1, AskInvariant, PTL

(* A claude process is one of the server's runs or is named in             *)
(* running.json for the next server to kill (engine.mjs: reapOrphans).     *)
THEOREM NoUnknownProcess == A!Spec => []A!ProcessesKnown
  <1>1. AskInv => A!ProcessesKnown
    BY DEF AskInv
  <1> QED
    BY <1>1, AskInvariant, PTL

(* Through kills and restarts, a thread has one claude process and the     *)
(* vault two, of those that could be listed.                               *)
THEOREM ProcessesAreBounded == A!Spec => [](A!OneProcessPerThread /\ A!ProcessLimit)
  <1>1. AskInv => A!OneProcessPerThread /\ A!ProcessLimit
    <2> SUFFICES ASSUME AskInv PROVE A!OneProcessPerThread /\ A!ProcessLimit
      OBVIOUS
    <2>1. CASE server = "down"
      BY <2>1 DEF AskInv, LeftBehind
    <2>2. CASE server # "down"
      BY <2>2, KnownAreRunning DEF AskInv
    <2> QED
      BY <2>1, <2>2
  <1> QED
    BY <1>1, AskInvariant, PTL

(* An answer once stored is never overwritten (service.mjs: finish,        *)
(* reapOrphans).                                                           *)
THEOREM StoredAnswersStay == A!Spec => A!AnswerStays
  <1>1. AskInv /\ [A!Next]_(A!vars)
        => [\A m \in Asks: row[m] \in {"complete", "cancelled", "error"} => row'[m] = row[m]]_(A!vars)
    <2> SUFFICES ASSUME AskInv, A!Next, NEW m \in Asks, row[m] \in {"complete", "cancelled", "error"}
                 PROVE  row'[m] = row[m]
      BY DEF A!vars
    <2>1. row \in [Asks -> {"none", "open", "complete", "cancelled", "error"}]
      BY DEF AskInv, EngineInv, A!TypeOK
    <2>2. ASSUME NEW k \in Asks,
                 A!AskVault(k) \/ A!KilledInStart(k)
          PROVE  row'[m] = row[m]
      BY <2>1, <2>2 DEF A!AskVault, A!KilledInStart
    <2>3. ASSUME NEW k \in Asks, A!Finish(k)
          PROVE  row'[m] = row[m]
      BY <2>1, <2>3 DEF A!Finish, AskInv, EngineInv, EnteredIsOpen
    <2>4. CASE A!ReapOrphans
      BY <2>1, <2>4 DEF A!ReapOrphans
    <2> QED
      BY <2>2, <2>3, <2>4
      DEF A!Next, A!Break, A!CancelQueued, A!CancelRunning, A!Settle, A!KilledInPump, A!Ends, A!Close, A!Stop, A!Killed, A!service
  <1> QED
    BY <1>1, AskInvariant, PTL DEF A!Spec, A!AnswerStays
=============================================================================
