------------------------------ MODULE Session ------------------------------
(***************************************************************************)
(* What the deck makes of the hooks of one Claude process                  *)
(* (hub/server/machines: projector.mjs, session.mjs, request.mjs).  Every  *)
(* hook is a process of its own that stamps its event and sends it, or     *)
(* spools it, so events arrive late and in any order.  The projector       *)
(* applies each one in a transaction to the session row it resolves to and *)
(* to that row's requests; what comes with an older stamp than the row's   *)
(* clock is "late" and may only settle requests and agents.                *)
(*                                                                         *)
(* A batch of the reorder buffer is a run of single applications here.     *)
(* State "idle" stands for `done` and `reviewed` too (they differ by the   *)
(* changed files) and "over" for every state of a session that ended.      *)
(***************************************************************************)
EXTENDS Naturals, Sequences, FiniteSets, FiniteSetsExt

CONSTANTS
    Keys,       \* match keys of tool calls that need permission
    Questions,  \* match keys of AskUserQuestion calls
    Agents,     \* subagents, by agent_id
    MaxEvents,  \* bound: events of the process
    MaxSteps    \* bound: those events and what the server notices by itself

ASSUME KeysAssumption == Keys \cap Questions = {} /\ "text" \notin Keys \cup Questions
ASSUME BoundsAssumption == MaxEvents \in Nat /\ MaxSteps \in Nat

VARIABLES
    origin,  \* "wrapped" in a PTY of deckd, or "observed"
    sent,    \* the events of the process, in the order of their stamps
    up,      \* the process runs
    last,    \* how many of them there will have been when it is gone
    clock,   \* how many of them have certainly happened by now
    rows,    \* the session rows made for the process
    reqs,    \* their requests
    seen,    \* hook_events: what was applied, to which row, and whether in time
    created, \* the stamp of deckd's row (projector.create), or 0
    signals

process == <<origin, sent>>
life == <<up, last>>
vars == <<origin, sent, up, last, clock, rows, reqs, seen, created, signals>>

Text == "text" \* the match key of a question found in the last assistant text
Asking == {"ask", "question"}
Starts == {"start", "restart"}
Ends == {"cleared", "end"}
Resumed == {"prompt", "tool", "post", "question", "agent", "back"}
Needs == {"needs_approval", "asked_you"}
States == Needs \cup {"starting", "running", "stale", "idle", "over"}

Kinds == [kind : {"prompt", "tool", "stop", "stopText", "idle"} \cup Starts \cup Ends, of : {Text}]
         \cup [kind : {"ask"}, of : Keys] \cup [kind : {"question"}, of : Questions]
         \cup [kind : {"post"}, of : Keys \cup Questions] \cup [kind : {"agent", "back"}, of : Agents]
Event == [kind : {k.kind : k \in Kinds}, of : {k.of : k \in Kinds}, conv : 1..MaxEvents]
Time == 0..(2 * MaxEvents + 1)
Row == [state : States, since : Time, started : Time, ended : Time, alive : BOOLEAN,
        mid : BOOLEAN, active : SUBSET Agents, clearing : BOOLEAN,
        conv : 0..MaxEvents, olds : SUBSET (1..MaxEvents), replaced : Time]
Request == [row : 1..MaxEvents + 1, key : Keys \cup Questions \cup {Text}, at : Time, open : BOOLEAN]

TypeOK ==
    /\ rows \in Seq(Row) /\ reqs \subseteq Request
    /\ seen \subseteq [event : 1..last, row : DOMAIN rows, applied : BOOLEAN]
    /\ \A n \in DOMAIN rows : rows[n].alive <=> rows[n].state # "over"
    /\ clock <= last /\ last <= Len(sent) /\ created \in Time /\ signals \in 0..MaxSteps

-----------------------------------------------------------------------------
(* The process.  It starts, or is found at work; /clear ends a conversation *)
(* and starts the next; SessionEnd is its last hook; no call is made twice. *)
Conv(moves, i) == 1 + Cardinality({j \in 1..i : moves[j].kind = "restart"})

Legal(moves) ==
    \A i \in DOMAIN moves :
        LET Before(kind) == \E j \in 1..i - 1 : moves[j].kind = kind /\ moves[j].of = moves[i].of
            cleared == i > 1 /\ moves[i - 1].kind = "cleared"
        IN  CASE moves[i].kind = "start" -> i = 1
              [] moves[i].kind = "end" -> i = Len(moves)
              [] moves[i].kind = "restart" -> cleared
              [] moves[i].kind \in Asking \cup {"agent"} -> ~cleared /\ ~Before(moves[i].kind)
              [] moves[i].kind = "post" -> /\ ~cleared /\ ~Before("post")
                                           /\ Before("ask") \/ Before("question")
              [] moves[i].kind = "back" -> Before("agent") /\ ~Before("back") /\ ~cleared
              [] OTHER -> ~cleared

Lives == {moves \in UNION {[1..n -> Kinds] : n \in 1..MaxEvents} : Legal(moves)}

Init ==
    /\ origin \in {"wrapped", "observed"}
    /\ \E moves \in Lives :
          sent = [i \in DOMAIN moves |-> [kind |-> moves[i].kind, of |-> moves[i].of,
                                         conv |-> Conv(moves, i)]]
    /\ up = TRUE /\ last = Len(sent) /\ clock = 0
    /\ rows = <<>> /\ reqs = {} /\ seen = {} /\ created = 0 /\ signals = 0

(* hookTs of the i-th event, and the server's own clock between two.       *)
Ts(i) == 2 * i
Now(k) == 2 * k + 1

-----------------------------------------------------------------------------
(* Requests, in machines/request.mjs.                                      *)
OpenOf(n, set) == {q \in set : q.row = n /\ q.open}
Permission(set) == \E q \in set : q.key \in Keys

(* needs_approval before asked_you before what else the state is.          *)
ByOpen(open, state) == CASE Permission(open) -> "needs_approval"
                         [] open # {} /\ ~Permission(open) -> "asked_you"
                         [] OTHER -> state

Closed(set) == {[q EXCEPT !.open = FALSE] : q \in set}

(* The open requests of the row that event i closes.                       *)
ClosedBy(i, n, set, late) ==
    LET e == sent[i] IN
    {q \in OpenOf(n, set) :
        \/ e.kind \in Resumed /\ q.key = Text /\ q.at <= Ts(i)
        \/ e.kind = "post" /\ q.key = e.of /\ q.at <= Ts(i)
        \/ e.kind = "prompt" /\ q.at <= Ts(i)
        \/ e.kind = "idle" /\ ~late /\ q.key # Text}

Opened(i, n, row, set, late) ==
    LET e == sent[i]
        Opening(key) == {[row |-> n, key |-> key, at |-> Ts(i), open |-> TRUE]}
    IN  IF late THEN {}
        ELSE IF e.kind \in Asking THEN Opening(e.of)
        ELSE IF /\ e.kind = "stopText" /\ row.state \in {"running", "stale"}
                /\ row.active = {} /\ OpenOf(n, set) = {}
             THEN Opening(Text) ELSE {}

RequestHook(i, n, row, set, late) ==
    LET closed == ClosedBy(i, n, set, late)
    IN  (set \ closed) \cup Closed(closed) \cup Opened(i, n, row, set, late)

(* Events that the deck knows of the row, from a stamp on.                 *)
History(n, from) == {h.event : h \in {s \in seen : s.row = n /\ Ts(s.event) >= from}}
Applied(n) == {h.event : h \in {s \in seen : s.row = n /\ s.applied}}
LastOf(n, row, kinds) ==
    Max({IF row.mid THEN 0 ELSE row.started}
        \cup {Ts(i) : i \in {j \in Applied(n) : sent[j].kind \in kinds}})

(* What ends the wait for an answer to the request that e opened.          *)
Settles(f, e) ==
    \/ f.kind \in {"prompt", "idle", "restart", "end"}
    \/ f.kind = "post" /\ f.of = e.of

(* Seeded fault: only what came after a session was found is made up for.  *)
MissingSinceFound(i, n, row, set) ==
    IF Ts(i) < row.started \/ sent[i].conv # row.conv \/ sent[i].kind \notin Asking THEN {}
    ELSE {[row |-> n, key |-> sent[i].of, at |-> Ts(i), open |-> TRUE]}

(* Seeded fault: a late opening is not held against later answers.         *)
MissingUnanswered(i, n, row, set) ==
    {[row |-> n, key |-> sent[i].of, at |-> Ts(i), open |-> TRUE]}

(* Seeded fault: openings that had their request get another.              *)
MissingAgain(i, n, row, set) ==
    LET known == {j \in History(n, LastOf(n, row, Starts)) \cup {i} : sent[j].kind \in Asking}
    IN  {[row |-> n, key |-> sent[j].of, at |-> Ts(j), open |-> TRUE] :
           j \in {w \in known : \A l \in known : l > w => ~Settles(sent[l], sent[w])}}

(* reconcileRequestOpenings: the openings the history leaves unanswered    *)
(* and that no request was ever made for.                                  *)
Missing(i, n, row, set) ==
    LET from == LastOf(n, row, Starts)
        known == {j \in History(n, from) \cup {i} : sent[j].conv = row.conv}
        waiting == {j \in known : /\ sent[j].kind \in Asking
                                  /\ \A l \in known : l > j => ~Settles(sent[l], sent[j])}
    IN  IF Ts(i) < from \/ sent[i].conv # row.conv THEN {}
        ELSE {[row |-> n, key |-> sent[j].of, at |-> Ts(j), open |-> TRUE] :
                 j \in {w \in waiting : ~\E q \in set :
                            q.row = n /\ q.key = sent[w].of /\ q.at = Ts(w)}}

-----------------------------------------------------------------------------
(* Sessions, in machines/session.mjs.                                      *)

(* applySubagentLifecycle accepts what the current conversation says.      *)
Accepts(i, n, row) ==
    /\ row.alive /\ sent[i].conv = row.conv
    /\ Ts(i) >= LastOf(n, row, Starts \cup Ends)

(* Seeded fault: agents are counted in the order their events come.        *)
WorkingAsCame(i, n, row) ==
    IF sent[i].kind = "agent" THEN row.active \cup {sent[i].of} ELSE row.active \ {sent[i].of}

Working(i, n, row) ==
    LET known == {j \in Applied(n) : Ts(j) >= LastOf(n, row, Starts \cup Ends)} \cup {i}
    IN  {g \in Agents : \E j \in known :
            /\ sent[j].kind = "agent" /\ sent[j].of = g
            /\ \A l \in known : ~(sent[l].kind = "back" /\ sent[l].of = g /\ l > j)}

(* ignoresSessionHook: a session that waits at its prompt goes on waiting. *)
Ignores(i, row, set, n) ==
    \/ sent[i].kind \in {"stop", "stopText", "idle"} /\ row.state = "idle"
    \/ /\ sent[i].kind = "idle" /\ row.state = "asked_you"
       /\ \E q \in OpenOf(n, set) : q.key = Text

(* The state an event leads to before the open requests have their say.    *)
Turn(e, row, changed) ==
    CASE e.kind = "prompt" -> "running"
      [] e.kind = "ask" -> "needs_approval"
      [] e.kind = "question" -> "asked_you"
      [] e.kind = "agent" /\ row.state \notin Needs -> "running"
      [] e.kind = "back" /\ row.state \in {"running", "stale", "idle"} -> "running"
      [] e.kind \in {"tool", "post"} /\ ~changed /\ row.state \notin Needs -> "running"
      [] e.kind \in {"stop", "stopText"} /\ row.active = {} /\ row.state \notin Needs -> "idle"
      [] e.kind \in {"idle", "restart"} -> "idle"
      [] e.kind = "start" /\ row.state = "starting" -> "idle"
      [] OTHER -> row.state

(* A new conversation of the process takes the row's name over; the old    *)
(* one becomes an alias of the row, once for all rows.                     *)
Renamed(row, conv, at) ==
    LET aliased == row.conv = 0 \/ \E n \in DOMAIN rows : row.conv \in rows[n].olds
    IN  IF conv = row.conv THEN row
        ELSE IF aliased THEN [row EXCEPT !.conv = conv]
        ELSE [row EXCEPT !.conv = conv, !.olds = @ \cup {row.conv},
                         !.replaced = IF at > @ THEN at ELSE @]

(* applySessionHook on a row that is there: the new row and its requests.  *)
Moved(i, n, row, set, changed) ==
    LET e == sent[i]
        over == e.kind = "end" /\ origin = "observed"
        gone == over \/ (e.kind \in Starts /\ e.conv # row.conv)
        left == IF gone THEN (set \ OpenOf(n, set)) \cup Closed(OpenOf(n, set)) ELSE set
        turn == Turn(e, row, changed)
        rest == IF e.kind = "idle" THEN "idle" ELSE "running"
        named == IF e.kind \in Starts THEN Renamed(row, e.conv, Ts(i)) ELSE row
    IN  [row |-> [named EXCEPT
             !.state = IF over THEN "over"
                       ELSE ByOpen(OpenOf(n, left), IF turn \in Needs THEN rest ELSE turn),
             !.since = Ts(i),
             !.active = IF e.kind = "restart" THEN {} ELSE @,
             !.clearing = IF e.kind = "cleared" THEN TRUE
                          ELSE IF e.kind \in {"restart", "end"} THEN FALSE ELSE @,
             !.alive = ~over, !.ended = IF over THEN Ts(i) ELSE @],
         reqs |-> left]

(* A row made for an event nobody knows a session of.                      *)
Discovered(i) ==
    LET e == sent[i] IN
    [state |-> CASE e.kind \in Starts \cup {"stop", "stopText", "idle"} -> "idle"
                 [] e.kind = "ask" -> "needs_approval"
                 [] e.kind = "question" -> "asked_you"
                 [] OTHER -> "running",
     since |-> Ts(i), started |-> Ts(i), ended |-> 0, alive |-> TRUE,
     mid |-> e.kind \notin Starts, active |-> {}, clearing |-> FALSE,
     conv |-> e.conv, olds |-> {}, replaced |-> 0]

(* isObsoleteSessionStart: the start of a conversation that was replaced.  *)
Obsolete(i, row) ==
    row.alive /\ sent[i].kind \in Starts /\ sent[i].conv \in row.olds

IsLate(i, row) == Obsolete(i, row) \/ Ts(i) < row.since \/ ~row.alive

(* Seeded fault: any event tells the conversation.                         *)
IdentifiedByAny(i, n, row, set) ==
    [row |-> IF row.alive /\ sent[i].kind \notin Starts
             THEN Renamed(row, sent[i].conv, Ts(i)) ELSE row, reqs |-> set]

(* recordSessionIdentity: an event tells the conversation the process is   *)
(* in, and a late restart ends what its SessionEnd left open.              *)
Identified(i, n, row, set) ==
    LET e == sent[i]
        ends == {Ts(j) : j \in {l \in Applied(n) : sent[l].kind \in Ends}}
        restart == e.kind = "restart" /\ row.clearing
        floor == IF row.olds = {} THEN row.started ELSE row.replaced
        stays == \/ ~row.alive \/ Obsolete(i, row)
                 \/ e.kind \in Starts /\ Ts(i) >= row.since
                 \/ restart /\ (ends = {} \/ Ts(i) < Max(ends))
                 \/ e.conv # row.conv /\ (Ts(i) < floor \/ e.conv \in row.olds)
        gone == {q \in OpenOf(n, set) : q.at < Ts(i)}
        named == Renamed(row, e.conv, Ts(i))
    IN  IF stays THEN [row |-> row, reqs |-> set]
        ELSE IF restart THEN [row |-> [named EXCEPT !.clearing = FALSE],
                              reqs |-> (set \ gone) \cup Closed(gone)]
        ELSE [row |-> named, reqs |-> set]

(* Seeded fault: requests are made up for and the session says nothing.    *)
LateUnsaid(i, n, row, set) ==
    LET missing == IF row.alive /\ sent[i].kind \in Asking THEN Missing(i, n, row, set) ELSE {}
    IN  [row |-> row, reqs |-> set \cup missing, applied |-> missing # {}]

(* A hook with an older stamp than the row: openings, agents and closings  *)
(* are made up for, the clock stays.                                       *)
Late(i, n, row, set) ==
    LET e == sent[i]
        missing == IF row.alive /\ e.kind \in Asking THEN Missing(i, n, row, set) ELSE {}
        texts == {q \in OpenOf(n, set) : q.key = Text /\
                     \E m \in missing : m.key \in Questions /\ q.at <= m.at}
        opened == (set \ texts) \cup Closed(texts) \cup missing
        about == e.kind \in {"agent", "back"}
        accepted == about /\ Accepts(i, n, row)
        active == IF accepted THEN Working(i, n, row) ELSE row.active
        after == IF row.alive /\ e.kind \in Resumed /\ (about => accepted)
                 THEN RequestHook(i, n, row, opened, TRUE) ELSE opened
        woken == IF accepted /\ active # {} /\ row.state \in {"idle", "stale"}
                 THEN "running" ELSE row.state
    IN  [row |-> [row EXCEPT !.active = active,
             !.state = IF missing # {} THEN ByOpen(OpenOf(n, after), "running") ELSE woken],
         reqs |-> after, applied |-> accepted \/ missing # {}]

(* What applyHooks makes of event i on row n.                              *)
Outcomes(i, n) ==
    LET e == sent[i]
        known == Identified(i, n, rows[n], reqs)
        late == IsLate(i, rows[n])
        settled == Late(i, n, known.row, known.reqs)
        state == settled.row.state
        changed == settled.reqs # reqs
        about == e.kind \in {"agent", "back"}
        accepted == Accepts(i, n, known.row)
        row == IF about /\ accepted
               THEN [known.row EXCEPT !.active = Working(i, n, known.row)] ELSE known.row
        hooked == RequestHook(i, n, row, known.reqs, FALSE)
        moved == Moved(i, n, row, hooked, hooked # known.reqs)
    IN  IF late
        THEN [settled EXCEPT !.row.state =
                 IF changed /\ state \in Needs /\ e.kind \in Resumed \cup Starts
                 THEN ByOpen(OpenOf(n, settled.reqs), "running") ELSE state]
        ELSE IF (about /\ ~accepted) \/ Ignores(i, row, known.reqs, n)
        THEN [row |-> row, reqs |-> known.reqs, applied |-> ~about \/ accepted]
        ELSE [row |-> moved.row, reqs |-> moved.reqs, applied |-> TRUE]

(* resolveSession for the one process: the row whose clock has passed the  *)
(* event and that knew the process before, one that was over at the time,  *)
(* or the live one.                                                        *)
Resolve(i) ==
    LET before == {s \in seen : Ts(s.event) <= Ts(i) /\ rows[s.row].since > Ts(i)}
        past == {n \in DOMAIN rows : /\ ~rows[n].alive /\ rows[n].started <= Ts(i)
                                     /\ rows[n].ended >= Ts(i)}
        live == {n \in DOMAIN rows : rows[n].alive}
    IN  IF before # {}
        THEN {(CHOOSE s \in before : \A o \in before : o.event <= s.event).row}
        ELSE IF past # {}
        THEN {CHOOSE n \in past : \A m \in past : rows[m].started <= rows[n].started}
        ELSE live

Record(i, n, applied) ==
    seen' = seen \cup {[event |-> i, row |-> n, applied |-> applied]}

Known(i, n) ==
    LET o == Outcomes(i, n)
    IN  /\ rows' = [rows EXCEPT ![n] = o.row] /\ reqs' = o.reqs
        /\ Record(i, n, o.applied)

Unknown(i) ==
    /\ sent[i].kind \notin Ends
    /\ LET n == Len(rows) + 1
           new == Discovered(i)
           row == IF sent[i].kind = "agent" THEN [new EXCEPT !.active = {sent[i].of}] ELSE new
       IN  /\ rows' = Append(rows, row)
           /\ reqs' = RequestHook(i, n, row, reqs, FALSE)
           /\ seen' = seen \cup {[event |-> i, row |-> n, applied |-> TRUE]}

(* An event reaches the projector, by the socket or from the spool; what   *)
(* it has already is dropped by its dedupe key.                            *)
Apply(i) ==
    /\ i \notin {s.event : s \in seen}
    /\ IF Resolve(i) = {} THEN Unknown(i) ELSE \E n \in Resolve(i) : Known(i, n)
    /\ clock' = IF i > clock THEN i ELSE clock
    /\ UNCHANGED <<process, life, created, signals>>

-----------------------------------------------------------------------------
(* What the server notices by itself, stamped with its own clock, after    *)
(* the process's first k events.                                           *)
Signal(k, n, row, set) ==
    /\ Len(sent) + signals < MaxSteps /\ signals' = signals + 1 /\ clock' = k
    /\ rows' = [rows EXCEPT ![n] = row] /\ reqs' = set
    /\ UNCHANGED <<process, seen, created>>

(* Seeded fault: the row is inserted beside the one a hook has made.       *)
CreateBeside(k) ==
    /\ origin = "wrapped" /\ up /\ created = 0 /\ created' = Now(k) /\ clock' = k
    /\ rows' = Append(rows,
           [state |-> "starting", since |-> Now(k), started |-> Now(k), ended |-> 0,
            alive |-> TRUE, mid |-> FALSE, active |-> {}, clearing |-> FALSE,
            conv |-> 0, olds |-> {}, replaced |-> 0])
    /\ UNCHANGED <<process, life, reqs, seen, signals>>

(* projector.create: the row of a PTY deckd has just spawned, unless a     *)
(* hook from that PTY was first.                                           *)
Create(k) ==
    /\ origin = "wrapped" /\ up /\ sent[1].kind = "start" /\ created = 0 /\ created' = Now(k) /\ clock' = k
    /\ IF \E n \in DOMAIN rows : rows[n].alive
       THEN rows' = [n \in DOMAIN rows |-> [rows[n] EXCEPT !.mid = @ /\ ~rows[n].alive]]
       ELSE rows' = Append(rows,
                [state |-> "starting", since |-> Now(k), started |-> Now(k), ended |-> 0,
                 alive |-> TRUE, mid |-> FALSE, active |-> {}, clearing |-> FALSE,
                 conv |-> 0, olds |-> {}, replaced |-> 0])
    /\ UNCHANGED <<process, life, reqs, seen, signals>>

(* screen_idle on a running session, or where a prompt left the screen.    *)
ScreenIdle(k, n) ==
    LET row == rows[n]
        open == OpenOf(n, reqs)
        gone == {q \in open : q.key # Text}
    IN  /\ origin = "wrapped" /\ up /\ row.alive /\ UNCHANGED life
        /\ \/ /\ row.state = "running" /\ row.active = {}
              /\ Signal(k, n, [row EXCEPT !.state = "idle", !.since = Now(k)], reqs)
           \/ /\ row.state \in Needs /\ gone # {}
              /\ Signal(k, n, [row EXCEPT !.state = ByOpen(open \ gone, "idle"), !.since = Now(k)],
                        (reqs \ gone) \cup Closed(gone))

(* tick: no activity for staleMinutes; counted output ends that.           *)
Stale(k, n) ==
    /\ rows[n].state = "running" /\ UNCHANGED life
    /\ Signal(k, n, [rows[n] EXCEPT !.state = "stale"], reqs)

Output(k, n) ==
    /\ origin = "wrapped" /\ up /\ rows[n].alive /\ rows[n].state = "stale" /\ UNCHANGED life
    /\ Signal(k, n, [rows[n] EXCEPT !.state = "running", !.since = Now(k)], reqs)

Over(k, n) ==
    Signal(k, n, [rows[n] EXCEPT !.state = "over", !.alive = FALSE,
                                 !.since = Now(k), !.ended = Now(k)],
           (reqs \ OpenOf(n, reqs)) \cup Closed(OpenOf(n, reqs)))

(* deckd tells the exit of a PTY, or no longer knows it (lost): the k-th   *)
(* event was the last.  Nobody tells it of an observed process: pid_gone   *)
(* is handled and never sent.                                              *)
Gone(k, n) ==
    /\ origin = "wrapped" /\ rows[n].alive /\ up' = FALSE /\ last' = k
    /\ Over(k, n)

Vanish(k) ==
    /\ origin = "observed" /\ up /\ up' = FALSE /\ last' = k /\ clock' = k
    /\ UNCHANGED <<process, rows, reqs, seen, created, signals>>

(* tick: no conversation followed the SessionEnd of the last one.          *)
AliasWait(k, n) ==
    origin = "observed" /\ rows[n].alive /\ rows[n].clearing /\ UNCHANGED life /\ Over(k, n)

Next == \/ \E i \in 1..last : Apply(i)
        \/ \E k \in clock..last :
              \/ Create(k) \/ Vanish(k)
              \/ \E n \in DOMAIN rows : \/ ScreenIdle(k, n) \/ Stale(k, n) \/ Output(k, n)
                                         \/ Gone(k, n) \/ AliasWait(k, n)

Spec == Init /\ [][Next]_vars

(* Every hook is delivered in the end, and the ticks and deckd go on.      *)
FairSpec == /\ Spec
            /\ \A i \in 1..MaxEvents : WF_vars(i <= last /\ Apply(i))
            /\ \A n \in 1..MaxEvents : WF_vars(n \in DOMAIN rows /\ AliasWait(last, n))
            /\ \A n \in 1..MaxEvents : WF_vars(n \in DOMAIN rows /\ ~up /\ Gone(last, n))

-----------------------------------------------------------------------------
(* A session says it needs its owner exactly while a request of its own is *)
(* open, and says which kind; one that is over has none.  ("Impossible     *)
(* states": needs_approval or asked_you with zero open requests.)          *)
NeedsOwner ==
    /\ TypeOK
    /\ \A n \in DOMAIN rows :
        LET row == rows[n] IN
        /\ (row.alive /\ OpenOf(n, reqs) # {}) <=> row.state \in Needs
        /\ row.state = "needs_approval" <=> (row.alive /\ Permission(OpenOf(n, reqs)))
        /\ ~row.alive => OpenOf(n, reqs) = {}

(* One live session for one process, in whatever order its events come     *)
(* ("two deck sessions for one process key").                              *)
OneSession == Cardinality({n \in DOMAIN rows : rows[n].alive}) <= 1

(* Nothing the server noticed by itself is in the way: no signal, and the  *)
(* row of a spawned PTY was made before the first hook from it; and the    *)
(* process has had one session.                                            *)
Undisturbed == signals = 0 /\ created \in {0, Now(0)} /\ Len(rows) <= 1

(* What has arrived, and whether that is what the process did so far.      *)
Arrived == {s.event : s \in seen}
Whole == Arrived = 1..clock

(* The prompts shown are those that wait: one of the conversation that the *)
(* session goes by is shown to the owner if no later event of the process  *)
(* ended it, and one that an event of its own conversation answered is     *)
(* not, in whatever order the events came.                                 *)
OpenPromptsAgree ==
    /\ Undisturbed =>
        \A s \in seen :
            /\ sent[s.event].kind \in Asking /\ sent[s.event].conv = rows[s.row].conv
            /\ \A j \in Arrived : j > s.event => ~Settles(sent[j], sent[s.event])
            => \E q \in reqs : q.open /\ q.row = s.row /\ q.at = Ts(s.event)
    /\ \A q \in reqs, o, s \in seen :
        /\ q.open /\ q.key # Text /\ q.row = o.row /\ q.at = Ts(o.event)
        /\ s.row = o.row /\ s.event > o.event /\ sent[s.event].conv = sent[o.event].conv
        => ~(sent[s.event].kind = "prompt" \/ (sent[s.event].kind = "post" /\ sent[s.event].of = q.key))

(* The one session of a process found at work goes by the newest of two    *)
(* conversations it has heard of, and the agents counted as at work are    *)
(* those started in its conversation and not back, whatever order the      *)
(* hooks came in and however late the ones of the conversation before.     *)
NewestConversation ==
    /\ created = 0 /\ Len(rows) <= 1 /\ (\A i \in DOMAIN sent : sent[i].conv <= 2) =>
        \A n \in DOMAIN rows :
          rows[n].alive => rows[n].conv = Max({sent[s.event].conv : s \in {t \in seen : t.row = n}})
    /\ Whole /\ Undisturbed =>
        \A n \in DOMAIN rows, i \in Arrived :
            LET since == {sent[j] : j \in {l \in Arrived : l > i}}
                back == \E e \in since : e.kind = "back" /\ e.of = sent[i].of
            IN  /\ rows[n].alive /\ sent[i].kind = "agent" /\ sent[i].conv = rows[n].conv
                /\ ~\E e \in since : e.kind \in Starts \cup Ends
                => (sent[i].of \in rows[n].active <=> ~back)

(* A request is settled once: it never opens again, nor twice.             *)
SettledOnce ==
    [][\A q \in reqs : /\ ~q.open => q \in reqs'
                       /\ \A r \in reqs' \ reqs : r.open => <<r.row, r.key, r.at>> # <<q.row, q.key, q.at>>]_vars

(* The session of an observed process that is gone ends ("observed process *)
(* vanished").                                                             *)
VanishedIsEnded ==
    (origin = "observed" /\ ~up) ~> \A n \in DOMAIN rows : ~rows[n].alive

=============================================================================
