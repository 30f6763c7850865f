---------------------------- MODULE SessionProofs ----------------------------
(***************************************************************************)
(* Theorems about module Session, for any lives of a process of any        *)
(* length, delivered in any order beside any signals: one session lives at *)
(* a time, it needs its owner exactly while a request of its own is open,  *)
(* no request is settled twice, the prompts shown are those that wait, and *)
(* the agents counted are those at work in the newest conversation.        *)
(***************************************************************************)
EXTENDS Session, FiniteSetTheorems, WellFoundedInduction, TLAPS

(* A hook and the key, question or agent it is about.                      *)
Hook == [kind : {"prompt", "tool", "stop", "stopText", "idle", "ask", "question", "post",
                 "agent", "back"} \cup Starts \cup Ends,
         of : Keys \cup Questions \cup Agents \cup {Text}, conv : 1..MaxEvents]
About(e) ==
  /\ e.kind = "ask" => e.of \in Keys
  /\ e.kind = "question" => e.of \in Questions
  /\ e.kind = "agent" => e.of \in Agents

Resting == {"starting", "running", "stale", "idle"}

(* What a row says of its requests.                                        *)
Fits(n, row, set) ==
  /\ row \in Row /\ (row.alive <=> row.state # "over")
  /\ row.state \in Needs <=> (row.alive /\ OpenOf(n, set) # {})
  /\ row.state = "needs_approval" <=> (row.alive /\ Permission(OpenOf(n, set)))
  /\ ~row.alive => OpenOf(n, set) = {}

EventsInv ==
  /\ sent \in Seq(Hook) /\ Len(sent) <= MaxEvents /\ \A i \in 1..Len(sent) : About(sent[i])
  /\ last \in 0..Len(sent) /\ clock \in 0..last /\ created \in Time /\ signals \in 0..MaxSteps
  /\ \A s \in seen : s.event \in 1..clock /\ s.row \in 1..Len(rows)
  /\ seen \subseteq [event : Nat, row : Nat, applied : BOOLEAN]

(* Each row but the one of deckd was made for a hook.                      *)
Heard == {s.event : s \in seen}
RowsCounted == Len(rows) <= Cardinality(Heard) + (IF created = 0 THEN 0 ELSE 1)

RowsFit == \A n \in 1..Len(rows) : Fits(n, rows[n], reqs)
OneLives == \A m, n \in 1..Len(rows) : rows[m].alive /\ rows[n].alive => m = n

(* Each request was opened by a hook that its row has seen.                *)
RequestsInv ==
  /\ reqs \subseteq Request
  /\ \A q \in reqs : \E s \in seen : s.row = q.row /\ q.at = Ts(s.event)

IInv ==
  /\ rows \in Seq(Row) /\ EventsInv /\ RowsCounted /\ RowsFit /\ OneLives /\ RequestsInv

-----------------------------------------------------------------------------
(* What a step makes of the requests: those of row n are closed or opened, *)
(* and a request that is there does not come again.                        *)

Same(p, q) == p.row = q.row /\ p.key = q.key /\ p.at = q.at
New(q, old) == \A p \in old : ~Same(p, q)

Turned(n, old, new, events) ==
  /\ \A p \in old : ~p.open \/ p.row # n => p \in new
  /\ \A p \in old : \E q \in new : Same(p, q)
  /\ \A q \in new : \/ q \in old
                    \/ q \in Request /\ q.row = n /\ ~q.open /\ \E p \in old : Same(p, q)
                    \/ q \in Request /\ q.row = n /\ New(q, old) /\ \E j \in events : q.at = Ts(j)

LEMMA TurnedStays ==
  ASSUME NEW n, NEW set, NEW events
  PROVE  Turned(n, set, set, events)
  BY DEF Turned, Same

LEMMA TurnedMore ==
  ASSUME NEW n, NEW old, NEW new, NEW events, NEW more, events \subseteq more, Turned(n, old, new, events)
  PROVE  Turned(n, old, new, more)
  BY DEF Turned

LEMMA TurnedOn ==
  ASSUME NEW n, NEW X, NEW Y, NEW Z, NEW events, Turned(n, X, Y, events), Turned(n, Y, Z, events)
  PROVE  Turned(n, X, Z, events)
  <1>1. \A p \in X : ~p.open \/ p.row # n => p \in Z
    BY DEF Turned
  <1>2. \A p \in X : \E q \in Z : Same(p, q)
    <2> SUFFICES ASSUME NEW p \in X PROVE \E q \in Z : Same(p, q)
      OBVIOUS
    <2>1. PICK r \in Y : Same(p, r)
      BY DEF Turned
    <2>2. PICK q \in Z : Same(r, q)
      BY DEF Turned
    <2> QED
      BY <2>1, <2>2 DEF Same
  <1>3. ASSUME NEW q \in Z
        PROVE  \/ q \in X
               \/ q \in Request /\ q.row = n /\ ~q.open /\ \E p \in X : Same(p, q)
               \/ q \in Request /\ q.row = n /\ New(q, X) /\ \E j \in events : q.at = Ts(j)
    <2>1. CASE q \in Y
      BY <2>1 DEF Turned
    <2>2. CASE q \in Request /\ q.row = n /\ ~q.open /\ \E p \in Y : Same(p, q)
      <3>1. PICK p \in Y : Same(p, q)
        BY <2>2
      <3>2. CASE \E x \in X : Same(x, q)
        BY <2>2, <3>2
      <3>3. CASE ~\E x \in X : Same(x, q)
        <4>1. p \notin X /\ ~\E x \in X : Same(x, p)
          BY <3>1, <3>3 DEF Same
        <4>2. \E j \in events : p.at = Ts(j)
          BY <4>1 DEF Turned
        <4> QED
          BY <2>2, <3>1, <3>3, <4>2 DEF Same, New
      <3> QED
        BY <3>2, <3>3
    <2>3. CASE q \in Request /\ q.row = n /\ New(q, Y) /\ \E j \in events : q.at = Ts(j)
      <3>1. New(q, X)
        <4> SUFFICES ASSUME NEW x \in X, Same(x, q) PROVE FALSE
          BY DEF New
        <4>1. PICK y \in Y : Same(x, y)
          BY DEF Turned
        <4> QED
          BY <2>3, <4>1 DEF New, Same
      <3> QED
        BY <2>3, <3>1
    <2> QED
      BY <2>1, <2>2, <2>3 DEF Turned
  <1> QED
    BY <1>1, <1>2, <1>3 DEF Turned

-----------------------------------------------------------------------------
(* Closing and opening requests of row n.                                  *)

LEMMA RequestIs ==
  ASSUME NEW q \in Request
  PROVE  /\ q.row \in 1..MaxEvents + 1 /\ q.key \in Keys \cup Questions \cup {Text}
         /\ q.at \in Time /\ q.open \in BOOLEAN
         /\ [q EXCEPT !.open = FALSE] \in Request /\ ~[q EXCEPT !.open = FALSE].open
         /\ Same(q, [q EXCEPT !.open = FALSE]) /\ [q EXCEPT !.open = FALSE].row = q.row
  BY DEF Request, Same

LEMMA ClosingIs ==
  ASSUME NEW n, NEW set, set \subseteq Request, NEW gone, gone \subseteq OpenOf(n, set),
         NEW new, new = (set \ gone) \cup Closed(gone)
  PROVE  /\ Turned(n, set, new, {}) /\ new \subseteq Request
         /\ OpenOf(n, new) = OpenOf(n, set) \ gone
  <1>1. \A p \in gone : p \in set /\ p.row = n /\ p.open
    BY DEF OpenOf
  <1>2. \A q \in Closed(gone) : q \in Request /\ q.row = n /\ ~q.open /\ \E p \in gone : Same(p, q)
    BY <1>1, RequestIs DEF Closed
  <1>3. \A p \in gone : \E q \in Closed(gone) : Same(p, q)
    BY <1>1, RequestIs DEF Closed
  <1>4. \A p \in set : ~p.open \/ p.row # n => p \in new
    BY <1>1
  <1>5. \A p \in set : \E q \in new : Same(p, q)
    BY <1>3 DEF Same
  <1>6. \A q \in new : q \in set \/ (q \in Request /\ q.row = n /\ ~q.open /\ \E p \in set : Same(p, q))
    BY <1>1, <1>2
  <1>7. new \subseteq Request
    BY <1>2
  <1>8. OpenOf(n, new) = OpenOf(n, set) \ gone
    BY <1>2 DEF OpenOf
  <1> QED
    BY <1>4, <1>5, <1>6, <1>7, <1>8 DEF Turned

LEMMA OpeningTurns ==
  ASSUME NEW n, NEW set, set \subseteq Request, NEW opened, opened \subseteq Request, NEW events,
         \A q \in opened : q.row = n /\ q.open /\ New(q, set) /\ \E j \in events : q.at = Ts(j),
         NEW new, new = set \cup opened
  PROVE  Turned(n, set, new, events) /\ new \subseteq Request
  <1>1. \A p \in set : \E q \in new : Same(p, q)
    BY DEF Same
  <1> QED
    BY <1>1 DEF Turned

LEMMA OpeningOpens ==
  ASSUME NEW n, NEW set, NEW opened, \A q \in opened : q.row = n /\ q.open, NEW new, new = set \cup opened
  PROVE  OpenOf(n, new) = OpenOf(n, set) \cup opened
  BY DEF OpenOf

LEMMA ByOpenIs ==
  ASSUME NEW open, NEW rest \in Resting
  PROVE  /\ ByOpen(open, rest) \in States \ {"over"}
         /\ ByOpen(open, rest) \in Needs <=> open # {}
         /\ ByOpen(open, rest) = "needs_approval" <=> Permission(open)
  <1>1. Permission(open) => open # {}
    BY DEF Permission
  <1>2. CASE Permission(open)
    BY <1>1, <1>2 DEF ByOpen, States, Needs
  <1>3. CASE ~Permission(open) /\ open # {}
    BY <1>3 DEF ByOpen, States, Needs
  <1>4. CASE ~Permission(open) /\ open = {}
    BY <1>4 DEF ByOpen, States, Needs, Resting
  <1> QED
    BY <1>1, <1>2, <1>3, <1>4

-----------------------------------------------------------------------------
(* The hooks, their stamps and what they open and close.                   *)

LEMMA HookIs ==
  ASSUME EventsInv, NEW i \in 1..last
  PROVE  /\ sent[i] \in Hook /\ About(sent[i]) /\ sent[i].conv \in 1..MaxEvents
         /\ i \in Nat /\ i <= MaxEvents /\ MaxEvents \in Nat /\ Ts(i) \in Time /\ Ts(i) # 0
  <1>1. i \in 1..Len(sent) /\ Len(sent) \in Nat /\ Len(sent) <= MaxEvents
    BY DEF EventsInv
  <1>2. sent[i] \in Hook
    BY <1>1 DEF EventsInv
  <1>3. sent[i].conv \in 1..MaxEvents
    BY <1>2 DEF Hook
  <1>4. About(sent[i])
    BY <1>1 DEF EventsInv
  <1>5. i \in Nat /\ i # 0 /\ i <= MaxEvents /\ MaxEvents \in Nat
    BY <1>1, BoundsAssumption
  <1> QED
    BY <1>2, <1>3, <1>4, <1>5 DEF Time, Ts

LEMMA TimesDiffer ==
  ASSUME NEW i \in Nat, NEW j \in Nat, Ts(i) = Ts(j)
  PROVE  i = j
  BY DEF Ts

LEMMA OpenedIs ==
  ASSUME EventsInv, NEW i \in 1..last, NEW n \in 1..MaxEvents + 1, NEW row, NEW set, NEW late
  PROVE  /\ Opened(i, n, row, set, late) \subseteq Request
         /\ \A q \in Opened(i, n, row, set, late) : q.row = n /\ q.open /\ q.at = Ts(i)
         /\ late => Opened(i, n, row, set, late) = {}
  <1>1. /\ sent[i] \in Hook /\ About(sent[i]) /\ Ts(i) \in Time
    BY HookIs
  <1>2. sent[i].kind \in Asking => sent[i].of \in Keys \cup Questions
    BY <1>1 DEF About, Asking
  <1>3. \A key \in Keys \cup Questions \cup {Text} :
           [row |-> n, key |-> key, at |-> Ts(i), open |-> TRUE] \in Request
    BY <1>1 DEF Request
  <1> QED
    BY <1>2, <1>3 DEF Opened

LEMMA ClosedByIs ==
  ASSUME NEW i, NEW n, NEW set, NEW late
  PROVE  /\ ClosedBy(i, n, set, late) \subseteq OpenOf(n, set)
         /\ late /\ sent[i].kind \notin Resumed => ClosedBy(i, n, set, late) = {}
  BY DEF ClosedBy, Resumed

LEMMA RequestHookIs ==
  ASSUME EventsInv, NEW i \in 1..last, NEW n \in 1..MaxEvents + 1, NEW row, NEW set, set \subseteq Request,
         NEW late \in BOOLEAN, ~late => \A q \in set : q.at # Ts(i), NEW events, i \in events
  PROVE  /\ Turned(n, set, RequestHook(i, n, row, set, late), events)
         /\ RequestHook(i, n, row, set, late) \subseteq Request
         /\ OpenOf(n, RequestHook(i, n, row, set, late)) =
               (OpenOf(n, set) \ ClosedBy(i, n, set, late)) \cup Opened(i, n, row, set, late)
  <1> DEFINE closed == ClosedBy(i, n, set, late)
             rest == (set \ closed) \cup Closed(closed)
             opened == Opened(i, n, row, set, late)
  <1>1. closed \subseteq OpenOf(n, set)
    BY ClosedByIs
  <1>2. /\ opened \subseteq Request /\ \A q \in opened : q.row = n /\ q.open /\ q.at = Ts(i)
        /\ late => opened = {}
    BY OpenedIs
  <1>3. RequestHook(i, n, row, set, late) = rest \cup opened
    BY DEF RequestHook
  <1>7. rest = (set \ closed) \cup Closed(closed)
    OBVIOUS
  <1> HIDE DEF closed, opened, rest
  <1>4. /\ Turned(n, set, rest, {}) /\ rest \subseteq Request
        /\ OpenOf(n, rest) = OpenOf(n, set) \ closed
    BY <1>1, <1>7, ClosingIs, TurnedMore
  <1>5. \A q \in opened : New(q, rest)
    <2> SUFFICES ASSUME NEW q \in opened, NEW p \in rest, Same(p, q) PROVE FALSE
      BY DEF New
    <2>1. ~late /\ p.at = Ts(i)
      BY <1>2 DEF Same
    <2>2. p \in set \/ \E r \in closed : p = [r EXCEPT !.open = FALSE]
      BY <1>7 DEF Closed
    <2>3. CASE p \in set
      BY <2>1, <2>3
    <2>4. CASE \E r \in closed : p = [r EXCEPT !.open = FALSE]
      <3>1. PICK r \in closed : p = [r EXCEPT !.open = FALSE]
        BY <2>4
      <3>2. r \in set /\ r \in Request
        BY <1>1 DEF OpenOf
      <3>3. p.at = r.at
        BY <3>1, <3>2, RequestIs DEF Same
      <3> QED
        BY <2>1, <3>2, <3>3
    <2> QED
      BY <2>2, <2>3, <2>4
  <1> DEFINE new == RequestHook(i, n, row, set, late)
  <1>8. new = rest \cup opened
    BY <1>3
  <1> HIDE DEF new
  <1>6. Turned(n, rest, new, events) /\ new \subseteq Request
    BY <1>2, <1>4, <1>5, <1>8, OpeningTurns
  <1>9. Turned(n, set, new, events)
    BY <1>4, <1>6, TurnedOn, TurnedMore
  <1>10. OpenOf(n, new) = OpenOf(n, rest) \cup opened
    BY <1>2, <1>8, OpeningOpens
  <1> QED
    BY <1>4, <1>6, <1>9, <1>10 DEF closed, opened, new

(* What is made up for was never there.                                    *)
Heeded(n, i) == {s.event : s \in {t \in seen : t.row = n}} \cup {i}

LEMMA MissingIs ==
  ASSUME EventsInv, NEW i \in 1..last, NEW n \in 1..MaxEvents + 1, NEW row, NEW set
  PROVE  /\ Missing(i, n, row, set) \subseteq Request
         /\ \A q \in Missing(i, n, row, set) :
               q.row = n /\ q.open /\ q.key # Text /\ New(q, set) /\ \E j \in Heeded(n, i) : q.at = Ts(j)
  <1> SUFFICES ASSUME NEW q \in Missing(i, n, row, set)
               PROVE  /\ q \in Request /\ q.row = n /\ q.open /\ q.key # Text /\ New(q, set)
                      /\ \E j \in Heeded(n, i) : q.at = Ts(j)
    OBVIOUS
  <1> DEFINE known == History(n, LastOf(n, row, Starts)) \cup {i}
  <1>1. PICK j \in known :
           /\ sent[j].kind \in Asking /\ q = [row |-> n, key |-> sent[j].of, at |-> Ts(j), open |-> TRUE]
           /\ ~\E p \in set : p.row = n /\ p.key = sent[j].of /\ p.at = Ts(j)
    BY DEF Missing
  <1>2. j \in Heeded(n, i) /\ j \in 1..last
    BY DEF History, Heeded, EventsInv
  <1>3. sent[j] \in Hook /\ About(sent[j]) /\ Ts(j) \in Time
    BY <1>2, HookIs
  <1>4. sent[j].of \in Keys \cup Questions
    BY <1>1, <1>3 DEF About, Asking
  <1>5. q \in Request /\ q.row = n /\ q.open /\ q.at = Ts(j) /\ q.key = sent[j].of
    BY <1>1, <1>3, <1>4 DEF Request
  <1>6. New(q, set)
    BY <1>1, <1>5 DEF New, Same
  <1>7. q.key # Text
    BY <1>4, <1>5, KeysAssumption DEF Text
  <1> QED
    BY <1>2, <1>5, <1>6, <1>7

LEMMA WorkingIs ==
  ASSUME NEW i, NEW n, NEW row
  PROVE  Working(i, n, row) \in SUBSET Agents
  BY DEF Working

-----------------------------------------------------------------------------
(* What an event makes of the row it reaches.                              *)

LEMMA RowIs ==
  ASSUME NEW row \in Row
  PROVE  /\ row.state \in States /\ row.since \in Time /\ row.started \in Time /\ row.ended \in Time
         /\ row.alive \in BOOLEAN /\ row.mid \in BOOLEAN /\ row.active \in SUBSET Agents
         /\ row.clearing \in BOOLEAN /\ row.conv \in 0..MaxEvents /\ row.olds \in SUBSET (1..MaxEvents)
         /\ row.replaced \in Time
  BY DEF Row

LEMMA RenamedIs ==
  ASSUME NEW row \in Row, NEW conv \in 1..MaxEvents, NEW at \in Time
  PROVE  /\ Renamed(row, conv, at) \in Row
         /\ Renamed(row, conv, at).state = row.state /\ Renamed(row, conv, at).alive = row.alive
  <1> DEFINE known == \E n \in DOMAIN rows : row.conv \in rows[n].olds
             olds == row.olds \cup {row.conv}
             replaced == IF at > row.replaced THEN at ELSE row.replaced
  <1>1. row.conv \in 0..MaxEvents /\ row.olds \in SUBSET (1..MaxEvents) /\ row.replaced \in Time
    BY RowIs
  <1>2. row.conv # 0 => olds \in SUBSET (1..MaxEvents)
    BY <1>1, BoundsAssumption
  <1>3. conv \in 0..MaxEvents /\ replaced \in Time
    BY <1>1, BoundsAssumption
  <1>4. Renamed(row, conv, at) =
           IF conv = row.conv THEN row
           ELSE IF row.conv = 0 \/ known THEN [row EXCEPT !.conv = conv]
           ELSE [row EXCEPT !.conv = conv, !.olds = olds, !.replaced = replaced]
    BY DEF Renamed
  <1> HIDE DEF known, olds, replaced
  <1>5. CASE conv = row.conv
    BY <1>4, <1>5
  <1>6. CASE conv # row.conv /\ (row.conv = 0 \/ known)
    BY <1>3, <1>4, <1>6 DEF Row
  <1>7. CASE conv # row.conv /\ row.conv # 0 /\ ~known
    BY <1>2, <1>3, <1>4, <1>7 DEF Row
  <1> QED
    BY <1>5, <1>6, <1>7

LEMMA IdentifiedIs ==
  ASSUME EventsInv, NEW i \in 1..last, NEW n, NEW row \in Row, NEW set, set \subseteq Request
  PROVE  LET k == Identified(i, n, row, set) IN
         /\ k.row \in Row /\ k.row.state = row.state /\ k.row.alive = row.alive
         /\ Turned(n, set, k.reqs, {}) /\ k.reqs \subseteq Request
         /\ OpenOf(n, k.reqs) \subseteq OpenOf(n, set)
         /\ ~row.alive \/ (sent[i].kind \in Starts /\ Ts(i) >= row.since) => k.reqs = set
         /\ k.reqs # set => sent[i].kind = "restart"
  <1> DEFINE gone == {q \in OpenOf(n, set) : q.at < Ts(i)}
             left == (set \ gone) \cup Closed(gone)
             named == Renamed(row, sent[i].conv, Ts(i))
             k == Identified(i, n, row, set)
  <1>1. sent[i].conv \in 1..MaxEvents /\ Ts(i) \in Time
    BY HookIs
  <1>2. named \in Row /\ named.state = row.state /\ named.alive = row.alive
    BY <1>1, RenamedIs
  <1>3. gone \subseteq OpenOf(n, set) /\ left = (set \ gone) \cup Closed(gone)
    OBVIOUS
  <1>4. \/ k = [row |-> row, reqs |-> set]
        \/ /\ k = [row |-> [named EXCEPT !.clearing = FALSE], reqs |-> left]
           /\ row.alive /\ sent[i].kind = "restart" /\ ~(Ts(i) >= row.since)
        \/ k = [row |-> named, reqs |-> set]
    BY DEF Identified, Starts
  <1>5. OpenOf(n, set) \subseteq OpenOf(n, set) /\ Turned(n, set, set, {})
    BY TurnedStays
  <1> HIDE DEF gone, left, named, k
  <1>6. /\ Turned(n, set, left, {}) /\ left \subseteq Request
        /\ OpenOf(n, left) = OpenOf(n, set) \ gone
    BY <1>3, ClosingIs
  <1>7. CASE k = [row |-> row, reqs |-> set]
    BY <1>5, <1>7 DEF k
  <1>8. CASE /\ k = [row |-> [named EXCEPT !.clearing = FALSE], reqs |-> left]
             /\ row.alive /\ sent[i].kind = "restart" /\ ~(Ts(i) >= row.since)
    <2>1. [named EXCEPT !.clearing = FALSE] \in Row
      BY <1>2 DEF Row
    <2>2. [named EXCEPT !.clearing = FALSE].state = row.state /\ [named EXCEPT !.clearing = FALSE].alive = row.alive
      BY <1>2 DEF Row
    <2>3. k.row = [named EXCEPT !.clearing = FALSE] /\ k.reqs = left
      BY <1>8
    <2>4. /\ k.row \in Row /\ k.row.state = row.state /\ k.row.alive = row.alive
      BY <2>1, <2>2, <2>3
    <2> QED
      BY <1>6, <1>8, <2>3, <2>4 DEF k
  <1>9. CASE k = [row |-> named, reqs |-> set]
    BY <1>2, <1>5, <1>9 DEF k
  <1> QED
    BY <1>4, <1>7, <1>8, <1>9

LEMMA TurnIs ==
  ASSUME NEW e, NEW row \in Row, row.state # "over", NEW changed
  PROVE  Turn(e, row, changed) \in States \ {"over"}
  BY RowIs DEF Turn, States, Needs

(* The requests have the last word on the state.                           *)
LEMMA MovedIs ==
  ASSUME EventsInv, NEW i \in 1..last, NEW n, NEW row \in Row, row.alive, row.state # "over",
         NEW set, set \subseteq Request, NEW changed
  PROVE  LET m == Moved(i, n, row, set, changed) IN
         Fits(n, m.row, m.reqs) /\ Turned(n, set, m.reqs, {}) /\ m.reqs \subseteq Request
  <1> DEFINE e == sent[i]
             over == e.kind = "end" /\ origin = "observed"
             gone == over \/ (e.kind \in Starts /\ e.conv # row.conv)
             left == IF gone THEN (set \ OpenOf(n, set)) \cup Closed(OpenOf(n, set)) ELSE set
             turn == Turn(e, row, changed)
             rest == IF e.kind = "idle" THEN "idle" ELSE "running"
             named == IF e.kind \in Starts THEN Renamed(row, e.conv, Ts(i)) ELSE row
             quiet == IF turn \in Needs THEN rest ELSE turn
             state == IF over THEN "over" ELSE ByOpen(OpenOf(n, left), quiet)
             m == Moved(i, n, row, set, changed)
  <1>1. /\ m = [row |-> [named EXCEPT !.state = state, !.since = Ts(i),
                           !.active = IF e.kind = "restart" THEN {} ELSE @,
                           !.clearing = IF e.kind = "cleared" THEN TRUE
                                        ELSE IF e.kind \in {"restart", "end"} THEN FALSE ELSE @,
                           !.alive = ~over, !.ended = IF over THEN Ts(i) ELSE @],
                reqs |-> left]
    BY DEF Moved
  <1>2. Ts(i) \in Time /\ e.conv \in 1..MaxEvents
    BY HookIs
  <1>3. named \in Row
    BY <1>2, RenamedIs
  <1>4. quiet \in Resting
    <2>1. turn \in States \ {"over"}
      BY TurnIs
    <2> QED
      BY <2>1 DEF Resting, States, Needs
  <1>5. /\ Turned(n, set, left, {}) /\ left \subseteq Request
        /\ over => OpenOf(n, left) = {}
    <2>1. CASE gone
      <3> DEFINE shut == (set \ OpenOf(n, set)) \cup Closed(OpenOf(n, set))
      <3>1. left = shut
        BY <2>1
      <3> HIDE DEF left, shut, over, gone
      <3>2. /\ Turned(n, set, shut, {}) /\ shut \subseteq Request
            /\ OpenOf(n, shut) = OpenOf(n, set) \ OpenOf(n, set)
        BY ClosingIs DEF shut
      <3> QED
        BY <3>1, <3>2
    <2>2. CASE ~gone
      BY <2>2, TurnedStays
    <2> QED
      BY <2>1, <2>2
  <1> DEFINE open == OpenOf(n, left)
  <1>6. over \in BOOLEAN /\ state = IF over THEN "over" ELSE ByOpen(open, quiet)
    OBVIOUS
  <1> HIDE DEF quiet, left, open, named, over, state
  <1>7. /\ ByOpen(open, quiet) \in States \ {"over"}
        /\ ByOpen(open, quiet) \in Needs <=> open # {}
        /\ ByOpen(open, quiet) = "needs_approval" <=> Permission(open)
    BY <1>4, ByOpenIs
  <1>8. /\ state \in States /\ (state = "over" <=> over)
        /\ state \in Needs <=> (~over /\ open # {})
        /\ state = "needs_approval" <=> (~over /\ Permission(open))
    BY <1>6, <1>7 DEF States, Needs
  <1>9. /\ m.reqs = left /\ m.row \in Row /\ m.row.state = state /\ m.row.alive = ~over
    <2> DEFINE active == IF e.kind = "restart" THEN {} ELSE named.active
               clearing == IF e.kind = "cleared" THEN TRUE
                           ELSE IF e.kind \in {"restart", "end"} THEN FALSE ELSE named.clearing
               ended == IF over THEN Ts(i) ELSE named.ended
               alive == ~over
               new == m.row
    <2>1. active \in SUBSET Agents /\ clearing \in BOOLEAN /\ ended \in Time /\ alive \in BOOLEAN
      BY <1>2, <1>3, RowIs
    <2>2. m.reqs = left /\ new = [named EXCEPT !.state = state, !.since = Ts(i), !.active = active,
                                                !.clearing = clearing, !.alive = alive, !.ended = ended]
      BY <1>1
    <2>3. named \in Row /\ state \in States /\ Ts(i) \in Time
      BY <1>2, <1>3, <1>8
    <2> HIDE DEF active, clearing, ended, alive, new, m, e
    <2>4. new \in Row /\ new.state = state /\ new.alive = alive
      <3>2. CASE alive = TRUE
        BY <2>3, <3>2, <2>1, <2>2 DEF Row
      <3>3. CASE alive = FALSE
        BY <2>3, <3>3, <2>1, <2>2 DEF Row
      <3> QED
        BY <2>1, <3>2, <3>3
    <2> QED
      BY <2>2, <2>4 DEF alive, new
  <1> HIDE DEF m
  <1>10. Fits(n, m.row, m.reqs)
    <2>1. OpenOf(n, m.reqs) = open
      BY <1>9 DEF open
    <2>2. over => open = {}
      BY <1>5 DEF open
    <2> QED
      BY <1>6, <1>8, <1>9, <2>1, <2>2 DEF Fits
  <1> QED
    BY <1>5, <1>9, <1>10 DEF m

(* A late event reopens what was missed, and closes what it settles.       *)
LEMMA LateIs ==
  ASSUME EventsInv, NEW i \in 1..last, NEW n \in 1..MaxEvents + 1, NEW row \in Row, NEW set, set \subseteq Request
  PROVE  LET l == Late(i, n, row, set) IN
         /\ l.row.alive = row.alive /\ l.applied \in BOOLEAN
         /\ l.row \in Row
         /\ Turned(n, set, l.reqs, Heeded(n, i)) /\ l.reqs \subseteq Request
         /\ ~row.alive => l.row.state = row.state /\ l.reqs = set
         /\ row.alive =>
               \/ l.row.state = ByOpen(OpenOf(n, l.reqs), "running")
               \/ /\ l.row.state = row.state \/ (row.state \in {"idle", "stale"} /\ l.row.state = "running")
                  /\ OpenOf(n, l.reqs) \subseteq OpenOf(n, set)
                  /\ l.reqs # set => sent[i].kind \in Resumed
  <1> DEFINE events == Heeded(n, i)
             e == sent[i]
             missing == IF row.alive /\ e.kind \in Asking THEN Missing(i, n, row, set) ELSE {}
             texts == {q \in OpenOf(n, set) : q.key = Text /\
                          \E m \in missing : m.key \in Questions /\ q.at <= m.at}
             shut == (set \ texts) \cup Closed(texts)
             opened == shut \cup missing
             about == e.kind \in {"agent", "back"}
             accepted == about /\ Accepts(i, n, row)
             active == IF accepted THEN Working(i, n, row) ELSE row.active
             settles == row.alive /\ e.kind \in Resumed /\ (about => accepted)
             after == IF settles THEN RequestHook(i, n, row, opened, TRUE) ELSE opened
             woken == IF accepted /\ active # {} /\ row.state \in {"idle", "stale"}
                      THEN "running" ELSE row.state
             state == IF missing # {} THEN ByOpen(OpenOf(n, after), "running") ELSE woken
             l == Late(i, n, row, set)
  <1>1. l = [row |-> [row EXCEPT !.active = active, !.state = state], reqs |-> after,
             applied |-> accepted \/ missing # {}]
    BY DEF Late
  <1>2. /\ missing \subseteq Request
        /\ \A q \in missing : q.row = n /\ q.open /\ New(q, set) /\ \E j \in events : q.at = Ts(j)
    <2>1. missing = {} \/ missing = Missing(i, n, row, set)
      OBVIOUS
    <2> HIDE DEF missing
    <2> QED
      BY <2>1, MissingIs
  <1>3. texts \subseteq OpenOf(n, set) /\ shut = (set \ texts) \cup Closed(texts)
        /\ (missing = {} => shut = set)
    BY DEF Closed
  <1>4. active \in SUBSET Agents
    BY WorkingIs, RowIs
  <1>5. opened = shut \cup missing
    OBVIOUS
  <1>6. after = IF settles THEN RequestHook(i, n, row, opened, TRUE) ELSE opened
    OBVIOUS
  <1>7. /\ state = IF missing # {} THEN ByOpen(OpenOf(n, after), "running") ELSE woken
        /\ woken = row.state \/ (accepted /\ row.state \in {"idle", "stale"} /\ woken = "running")
    OBVIOUS
  <1>8. /\ ~row.alive => missing = {} /\ ~settles /\ ~accepted
        /\ settles => e.kind \in Resumed
    BY DEF Accepts
  <1>9. (accepted \/ missing # {}) \in BOOLEAN
    OBVIOUS
  <1>22. i \in events
    BY DEF Heeded
  <1> HIDE DEF events, missing, texts, shut, opened, active, settles, after, woken, state, accepted, about
  <1>10. Turned(n, set, shut, {}) /\ shut \subseteq Request /\ OpenOf(n, shut) = OpenOf(n, set) \ texts
    <2>1. texts \subseteq OpenOf(n, set) /\ shut = (set \ texts) \cup Closed(texts)
      BY <1>3
    <2>2. Turned(n, set, shut, {})
      BY <2>1, ClosingIs
    <2>3. shut \subseteq Request
      BY <2>1, ClosingIs
    <2>4. OpenOf(n, shut) = OpenOf(n, set) \ texts
      BY <2>1, ClosingIs
    <2> QED
      BY <2>2, <2>3, <2>4
  <1>11. \A q \in missing : New(q, shut)
    <2> SUFFICES ASSUME NEW q \in missing, NEW p \in shut, Same(p, q) PROVE FALSE
      BY DEF New
    <2>1. \E r \in set : Same(r, p)
      BY <1>10 DEF Turned, Same
    <2> QED
      BY <1>2, <2>1 DEF New, Same
  <1>12. Turned(n, shut, opened, events) /\ opened \subseteq Request
    BY <1>2, <1>5, <1>10, <1>11, OpeningTurns
  <1>13. Turned(n, opened, after, events) /\ after \subseteq Request
    <2>1. CASE settles
      BY <1>6, <1>12, <1>22, <2>1, RequestHookIs
    <2>2. CASE ~settles
      BY <1>6, <1>12, <2>2, TurnedStays
    <2> QED
      BY <2>1, <2>2
  <1>14. Turned(n, set, after, events)
    <2>1. Turned(n, set, shut, events)
      BY <1>10, TurnedMore
    <2> QED
      BY <1>12, <1>13, <2>1, TurnedOn
  <1>15. missing = {} => /\ OpenOf(n, after) \subseteq OpenOf(n, set)
                         /\ after # set => e.kind \in Resumed
    <2> SUFFICES ASSUME missing = {} PROVE /\ OpenOf(n, after) \subseteq OpenOf(n, set)
                                           /\ after # set => e.kind \in Resumed
      OBVIOUS
    <2>1. opened = set
      BY <1>3, <1>5
    <2>2. CASE settles
      <3>1. OpenOf(n, after) = (OpenOf(n, set) \ ClosedBy(i, n, set, TRUE)) \cup Opened(i, n, row, set, TRUE)
        BY <1>6, <2>1, <2>2, RequestHookIs
      <3>2. Opened(i, n, row, set, TRUE) = {}
        BY OpenedIs
      <3> QED
        BY <1>8, <2>2, <3>1, <3>2
    <2>3. CASE ~settles
      BY <1>6, <2>1, <2>3
    <2> QED
      BY <2>2, <2>3
  <1>16. ~row.alive => after = set /\ state = row.state
    BY <1>3, <1>5, <1>6, <1>7, <1>8
  <1>17. row.alive => \/ state = ByOpen(OpenOf(n, after), "running")
                      \/ /\ state = row.state \/ (row.state \in {"idle", "stale"} /\ state = "running")
                         /\ OpenOf(n, after) \subseteq OpenOf(n, set)
                         /\ after # set => e.kind \in Resumed
    BY <1>7, <1>15
  <1>18. l.reqs = after /\ l.applied = (accepted \/ missing # {})
         /\ l.row = [row EXCEPT !.active = active, !.state = state]
    BY <1>1
  <1> HIDE DEF l
  <1>19. l.row.alive = row.alive /\ l.row.state = state /\ l.row.active = active
    BY <1>18 DEF Row
  <1>20. l.row \in Row
    <2>1. state \in States
      <3>1. ByOpen(OpenOf(n, after), "running") \in States
        BY ByOpenIs DEF Resting
      <3> QED
        BY <1>16, <1>17, <3>1, RowIs DEF States
    <2> QED
      BY <1>4, <1>18, <2>1 DEF Row
  <1>21. l.applied \in BOOLEAN
    BY <1>9, <1>18
  <1> QED
    BY <1>4, <1>13, <1>14, <1>16, <1>17, <1>18, <1>19, <1>20, <1>21 DEF l, events

(* Whatever an event finds, the row it leaves fits its requests.           *)
LEMMA OutcomesIs ==
  ASSUME EventsInv, RequestsInv, NEW i \in 1..last, i \notin Heard, NEW n \in 1..MaxEvents + 1,
         Fits(n, rows[n], reqs)
  PROVE  LET o == Outcomes(i, n) IN
         /\ Fits(n, o.row, o.reqs) /\ (o.row.alive => rows[n].alive) /\ o.applied \in BOOLEAN
         /\ Turned(n, reqs, o.reqs, Heeded(n, i)) /\ o.reqs \subseteq Request
  <1> DEFINE e == sent[i]
             old == rows[n]
             known == Identified(i, n, old, reqs)
             late == IsLate(i, old)
             settled == Late(i, n, known.row, known.reqs)
             changed == settled.reqs # reqs
             about == e.kind \in {"agent", "back"}
             accepted == Accepts(i, n, known.row)
             met == IF about /\ accepted
                    THEN [known.row EXCEPT !.active = Working(i, n, known.row)] ELSE known.row
             hooked == RequestHook(i, n, met, known.reqs, FALSE)
             moved == Moved(i, n, met, hooked, hooked # known.reqs)
             final == IF changed /\ settled.row.state \in Needs /\ e.kind \in Resumed \cup Starts
                      THEN ByOpen(OpenOf(n, settled.reqs), "running") ELSE settled.row.state
             o == Outcomes(i, n)
  <1>1. reqs \subseteq Request /\ old \in Row /\ i \in Heeded(n, i)
    BY DEF RequestsInv, Fits, Heeded
  <1>2. /\ known.row \in Row /\ known.row.state = old.state /\ known.row.alive = old.alive
        /\ Turned(n, reqs, known.reqs, {}) /\ known.reqs \subseteq Request
        /\ OpenOf(n, known.reqs) \subseteq OpenOf(n, reqs)
        /\ ~old.alive \/ (e.kind \in Starts /\ Ts(i) >= old.since) => known.reqs = reqs
        /\ known.reqs # reqs => e.kind = "restart"
    BY <1>1, IdentifiedIs
  <1>3. CASE late
    <2>1. o = [settled EXCEPT !.row.state = final]
      BY <1>3 DEF Outcomes
    <2>2. /\ settled.row.alive = old.alive /\ settled.applied \in BOOLEAN
          /\ settled.row \in Row
          /\ Turned(n, known.reqs, settled.reqs, Heeded(n, i)) /\ settled.reqs \subseteq Request
          /\ ~old.alive => settled.row.state = old.state /\ settled.reqs = known.reqs
          /\ old.alive =>
               \/ settled.row.state = ByOpen(OpenOf(n, settled.reqs), "running")
               \/ /\ settled.row.state = old.state \/ (old.state \in {"idle", "stale"} /\ settled.row.state = "running")
                  /\ OpenOf(n, settled.reqs) \subseteq OpenOf(n, known.reqs)
                  /\ settled.reqs # known.reqs => e.kind \in Resumed
      <3> HIDE DEF known
      <3> QED
        BY <1>2, LateIs
    <2>3. o.reqs = settled.reqs /\ o.applied = settled.applied
          /\ o.row = [settled.row EXCEPT !.state = final]
      <3>1. settled = [row |-> settled.row, reqs |-> settled.reqs, applied |-> settled.applied]
        BY DEF Late
      <3> QED
        BY <2>1, <3>1
    <2>4. Turned(n, reqs, settled.reqs, Heeded(n, i))
      BY <1>2, <2>2, TurnedOn, TurnedMore
    <2> DEFINE open == OpenOf(n, settled.reqs)
               was == OpenOf(n, reqs)
    <2>5. /\ ByOpen(open, "running") \in States \ {"over"}
          /\ ByOpen(open, "running") \in Needs <=> open # {}
          /\ ByOpen(open, "running") = "needs_approval" <=> Permission(open)
      BY ByOpenIs DEF Resting
    <2>6. /\ old.alive <=> old.state # "over"
          /\ old.state \in Needs <=> (old.alive /\ was # {})
          /\ old.state = "needs_approval" <=> (old.alive /\ Permission(was))
          /\ ~old.alive => was = {}
      BY DEF Fits
    <2>7. /\ final \in States /\ (final = "over" <=> ~old.alive)
          /\ final \in Needs <=> (old.alive /\ open # {})
          /\ final = "needs_approval" <=> (old.alive /\ Permission(open))
          /\ ~old.alive => open = {}
      <3>1. CASE ~old.alive
        <4>1. settled.reqs = reqs /\ settled.row.state = old.state /\ old.state = "over"
          BY <1>2, <2>2, <2>6, <3>1
        <4>2. final = "over" /\ open = {}
          BY <2>6, <3>1, <4>1 DEF Needs
        <4> QED
          BY <3>1, <4>2 DEF States, Needs
      <3>2. CASE old.alive /\ settled.row.state = ByOpen(open, "running")
        <4>1. final = ByOpen(open, "running")
          BY <3>2
        <4> HIDE DEF final, open
        <4> QED
          BY <2>5, <3>2, <4>1 DEF States, Needs
      <3>3. CASE /\ old.alive
                 /\ settled.row.state = old.state
                      \/ (old.state \in {"idle", "stale"} /\ settled.row.state = "running")
                 /\ open \subseteq OpenOf(n, known.reqs)
                 /\ settled.reqs # known.reqs => e.kind \in Resumed
        <4>1. open \subseteq was
          BY <1>2, <3>3
        <4>2. settled.reqs # reqs => e.kind \in Resumed \cup Starts
          BY <1>2, <3>3 DEF Starts
        <4>3. old.state \in States \ {"over"}
          BY <1>1, <2>6, <3>3, RowIs
        <4>4. CASE open = was
          <5>1. /\ settled.row.state \in States \ {"over"}
                /\ settled.row.state \in Needs <=> open # {}
                /\ settled.row.state = "needs_approval" <=> Permission(open)
            BY <2>6, <3>3, <4>3, <4>4 DEF States, Needs
          <5>2. final = settled.row.state \/ final = ByOpen(open, "running")
            OBVIOUS
          <5> HIDE DEF final, open, settled
          <5> QED
            BY <2>5, <3>3, <5>1, <5>2 DEF States, Needs
        <4>5. CASE open # was
          <5>1. was # {} /\ settled.reqs # reqs
            BY <4>1, <4>5
          <5>2. old.state \in Needs /\ settled.row.state = old.state
            BY <2>6, <3>3, <5>1 DEF Needs
          <5>3. final = ByOpen(open, "running")
            BY <4>2, <5>1, <5>2
          <5> HIDE DEF final, open, settled
          <5> QED
            BY <2>5, <3>3, <5>3 DEF States, Needs
        <4> QED
          BY <4>4, <4>5
      <3> HIDE DEF open, final, settled, known
      <3> QED
        BY <2>2, <3>1, <3>2, <3>3 DEF open
    <2>8. o.row \in Row /\ o.row.state = final /\ o.row.alive = old.alive
      <3>1. settled.row \in Row /\ settled.row.alive = old.alive /\ final \in States
        BY <2>2, <2>7
      <3>2. o.row = [settled.row EXCEPT !.state = final]
        BY <2>3
      <3> HIDE DEF settled, final, o
      <3> QED
        BY <3>1, <3>2 DEF Row
    <2> HIDE DEF final, settled, o
    <2>9. OpenOf(n, o.reqs) = open
      BY <2>3
    <2> HIDE DEF open
    <2>10. Fits(n, o.row, o.reqs)
      BY <2>7, <2>8, <2>9 DEF Fits
    <2> QED
      BY <2>2, <2>3, <2>4, <2>8, <2>10 DEF o
  <1>4. CASE ~late
    <2>1. old.alive /\ Ts(i) >= old.since
      <3>1. old.since \in Nat /\ Ts(i) \in Nat
        BY <1>1, RowIs, HookIs DEF Time
      <3> QED
        BY <1>4, <3>1 DEF IsLate
    <2>2. met \in Row /\ met.state = old.state /\ met.alive = old.alive
      <3>1. Working(i, n, known.row) \in SUBSET Agents
        BY WorkingIs
      <3> HIDE DEF known, accepted, about
      <3>2. CASE met = known.row
        BY <1>2, <3>2
      <3>3. CASE met = [known.row EXCEPT !.active = Working(i, n, known.row)]
        BY <1>2, <3>1, <3>3 DEF Row
      <3> QED
        BY <3>2, <3>3
    <2>3. CASE (about /\ ~accepted) \/ Ignores(i, met, known.reqs, n)
      <3>1. o = [row |-> met, reqs |-> known.reqs, applied |-> ~about \/ accepted]
        BY <1>4, <2>3 DEF Outcomes
      <3>2. known.reqs = reqs
        <4>1. CASE e.kind \in Starts
          BY <1>2, <2>1, <4>1
        <4>2. CASE e.kind \notin Starts
          BY <1>2, <4>2 DEF Starts
        <4> QED
          BY <4>1, <4>2
      <3>3. Fits(n, met, reqs)
        <4> HIDE DEF met, known
        <4> QED
          BY <2>2 DEF Fits
      <3>4. Turned(n, reqs, reqs, Heeded(n, i))
        BY TurnedStays
      <3>5. (~about \/ accepted) \in BOOLEAN
        OBVIOUS
      <3> HIDE DEF met, known, o, about, accepted
      <3>6. o.row = met /\ o.reqs = reqs /\ o.applied = (~about \/ accepted)
        BY <3>1, <3>2
      <3> QED
        BY <1>1, <2>2, <3>3, <3>4, <3>5, <3>6 DEF o
    <2>4. CASE ~((about /\ ~accepted) \/ Ignores(i, met, known.reqs, n))
      <3>1. o = [row |-> moved.row, reqs |-> moved.reqs, applied |-> TRUE]
        BY <1>4, <2>4 DEF Outcomes
      <3>2. \A q \in known.reqs : q.at # Ts(i)
        <4> SUFFICES ASSUME NEW q \in known.reqs, q.at = Ts(i) PROVE FALSE
          OBVIOUS
        <4>1. \E p \in reqs : Same(p, q)
          BY <1>2 DEF Turned, Same
        <4>2. PICK p \in reqs : p.at = q.at
          BY <4>1 DEF Same
        <4>3. PICK s \in seen : p.at = Ts(s.event)
          BY <4>2 DEF RequestsInv
        <4>4. s.event \in Nat /\ i \in Nat
          BY <4>3, HookIs DEF EventsInv
        <4> QED
          BY <4>2, <4>3, <4>4, TimesDiffer DEF Heard
      <3>3. Turned(n, known.reqs, hooked, Heeded(n, i)) /\ hooked \subseteq Request
        <4> HIDE DEF known, met
        <4> QED
          BY <1>1, <1>2, <3>2, RequestHookIs
      <3>4. met.alive /\ met.state # "over"
        BY <2>1, <2>2 DEF Fits
      <3> DEFINE more == (hooked # known.reqs)
      <3> HIDE DEF known, met, hooked, more
      <3>5. Fits(n, moved.row, moved.reqs) /\ Turned(n, hooked, moved.reqs, {}) /\ moved.reqs \subseteq Request
        BY <2>2, <3>3, <3>4, MovedIs DEF more
      <3> HIDE DEF moved, o
      <3>6. Turned(n, reqs, moved.reqs, Heeded(n, i))
        <4>1. Turned(n, reqs, known.reqs, Heeded(n, i)) /\ Turned(n, hooked, moved.reqs, Heeded(n, i))
          BY <1>2, <3>5, TurnedMore
        <4> QED
          BY <3>3, <4>1, TurnedOn
      <3>7. o.row = moved.row /\ o.reqs = moved.reqs /\ o.applied = TRUE
        BY <3>1
      <3> QED
        BY <2>1, <3>5, <3>6, <3>7 DEF o
    <2> QED
      BY <2>3, <2>4
  <1> QED
    BY <1>3, <1>4

-----------------------------------------------------------------------------
(* The session an event is for.                                            *)

LEMMA GreatestIs ==
  ASSUME NEW n \in Nat, NEW S \in SUBSET (0..n), S # {}
  PROVE  \E m \in S : \A y \in S : y <= m
  <1> DEFINE R == OpToRel(<, Nat)
             above == {u \in Nat : \A y \in S : y <= u}
  <1>1. IsWellFoundedOn(R, Nat)
    BY NatLessThanWellFounded
  <1>2. above \subseteq Nat /\ n \in above
    OBVIOUS
  <1>3. PICK m \in above : \A u \in above : ~ (<<u, m>> \in R)
    <2> HIDE DEF R, above
    <2> QED
      BY <1>1, <1>2, WFMin
  <1>4. \A u \in above : ~(u < m)
    BY <1>2, <1>3 DEF OpToRel
  <1>5. m \in S
    <2> SUFFICES ASSUME m \notin S PROVE FALSE
      OBVIOUS
    <2>1. m \in Nat /\ \A y \in S : y \in Nat /\ y < m
      OBVIOUS
    <2>2. m # 0
      <3>1. PICK y \in S : TRUE
        OBVIOUS
      <3> QED
        BY <2>1, <3>1
    <2>3. m - 1 \in above
      BY <2>1, <2>2
    <2> QED
      BY <1>4, <2>1, <2>2, <2>3
  <1> QED
    BY <1>5

LEMMA ResolveIs ==
  ASSUME IInv, NEW i \in 1..last
  PROVE  /\ Resolve(i) \subseteq 1..Len(rows)
         /\ Resolve(i) = {} => \A n \in 1..Len(rows) : ~rows[n].alive
  <1> DEFINE before == {s \in seen : Ts(s.event) <= Ts(i) /\ rows[s.row].since > Ts(i)}
             past == {n \in DOMAIN rows : /\ ~rows[n].alive /\ rows[n].started <= Ts(i)
                                          /\ rows[n].ended >= Ts(i)}
             live == {n \in DOMAIN rows : rows[n].alive}
             latest == CHOOSE s \in before : \A o \in before : o.event <= s.event
             newest == CHOOSE n \in past : \A m \in past : rows[m].started <= rows[n].started
  <1>1. Resolve(i) = IF before # {} THEN {latest.row} ELSE IF past # {} THEN {newest} ELSE live
    BY DEF Resolve
  <1>2. DOMAIN rows = 1..Len(rows) /\ \A n \in 1..Len(rows) : rows[n] \in Row
    BY DEF IInv
  <1>3. /\ clock \in Nat /\ MaxEvents \in Nat
        /\ \A s \in seen : s.event \in 1..clock /\ s.row \in 1..Len(rows)
    BY BoundsAssumption DEF IInv, EventsInv
  <1>4. before # {} => latest \in before
    <2> DEFINE S == {s.event : s \in before}
    <2> SUFFICES ASSUME before # {} PROVE \E s \in before : \A o \in before : o.event <= s.event
      OBVIOUS
    <2>1. S \in SUBSET (0..clock) /\ S # {}
      BY <1>3
    <2>2. \A s \in before : s.event \in S
      OBVIOUS
    <2>3. \A y \in S : \E s \in before : s.event = y
      OBVIOUS
    <2> HIDE DEF S, before
    <2>4. PICK m \in S : \A y \in S : y <= m
      BY <1>3, <2>1, GreatestIs
    <2> QED
      BY <2>2, <2>3, <2>4
  <1>5. past # {} => newest \in past
    <2> DEFINE S == {rows[n].started : n \in past}
    <2> SUFFICES ASSUME past # {} PROVE \E n \in past : \A m \in past : rows[m].started <= rows[n].started
      OBVIOUS
    <2>1. S \in SUBSET (0..2 * MaxEvents + 1) /\ S # {} /\ 2 * MaxEvents + 1 \in Nat
      <3>1. \A n \in past : rows[n].started \in Time
        BY <1>2, RowIs
      <3>2. S \subseteq Time /\ S # {}
        BY <3>1
      <3> HIDE DEF S, past
      <3> QED
        BY <1>3, <3>2 DEF Time
    <2>2. \A n \in past : rows[n].started \in S
      OBVIOUS
    <2>3. \A y \in S : \E n \in past : rows[n].started = y
      OBVIOUS
    <2> HIDE DEF S, past
    <2>4. PICK m \in S : \A y \in S : y <= m
      BY <2>1, GreatestIs
    <2> QED
      BY <2>2, <2>3, <2>4
  <1>6. before \subseteq seen /\ past \subseteq DOMAIN rows /\ live \subseteq DOMAIN rows
    OBVIOUS
  <1>7. live = {} => \A n \in 1..Len(rows) : ~rows[n].alive
    BY <1>2
  <1> HIDE DEF before, past, live, latest, newest
  <1>8. CASE before # {}
    <2>1. latest \in seen
      BY <1>4, <1>6, <1>8
    <2>2. latest.row \in 1..Len(rows) /\ Resolve(i) = {latest.row}
      BY <1>1, <1>3, <1>8, <2>1
    <2> QED
      BY <2>2
  <1>9. CASE before = {} /\ past # {}
    BY <1>1, <1>2, <1>5, <1>6, <1>9
  <1>10. CASE before = {} /\ past = {}
    BY <1>1, <1>2, <1>6, <1>7, <1>10
  <1> QED
    BY <1>8, <1>9, <1>10

-----------------------------------------------------------------------------
(* A step that moves row n, closes and opens requests of row n, and keeps  *)
(* the other rows and their requests.                                      *)

Steady == \E n, events : Turned(n, reqs, reqs', events)

LEMMA OthersFit ==
  ASSUME NEW n, NEW old, NEW new, NEW events, Turned(n, old, new, events), NEW m, m # n, NEW row,
         Fits(m, row, old)
  PROVE  Fits(m, row, new)
  <1>1. OpenOf(m, new) = OpenOf(m, old)
    <2>1. \A q \in new : q.row = m => q \in old
      BY DEF Turned
    <2>2. \A q \in old : q.row = m => q \in new
      BY DEF Turned
    <2> QED
      BY <2>1, <2>2 DEF OpenOf
  <1> QED
    BY <1>1 DEF Fits

LEMMA RowTakes ==
  ASSUME IInv, NEW n \in 1..Len(rows), NEW row, NEW set, set \subseteq Request, NEW events,
         Fits(n, row, set), row.alive => rows[n].alive, Turned(n, reqs, set, events),
         rows' = [rows EXCEPT ![n] = row], reqs' = set,
         seen \subseteq seen', \A j \in events : \E s \in seen' : s.event = j /\ s.row = n
  PROVE  rows' \in Seq(Row) /\ Len(rows') = Len(rows) /\ RowsFit' /\ OneLives' /\ RequestsInv' /\ Steady
  <1>1. rows \in Seq(Row) /\ row \in Row
    BY DEF IInv, Fits
  <1>2. rows' \in Seq(Row) /\ Len(rows') = Len(rows)
    BY <1>1
  <1>3. \A m \in 1..Len(rows) : rows'[m] = IF m = n THEN row ELSE rows[m]
    BY <1>1
  <1>4. ASSUME NEW m \in 1..Len(rows) PROVE Fits(m, rows'[m], reqs')
    <2>1. CASE m = n
      BY <1>3, <2>1
    <2>2. CASE m # n
      <3>1. Fits(m, rows[m], reqs)
        BY DEF IInv, RowsFit
      <3> QED
        BY <1>3, <2>2, <3>1, OthersFit
    <2> QED
      BY <2>1, <2>2
  <1>5. RowsFit'
    BY <1>2, <1>4 DEF RowsFit
  <1>6. OneLives'
    BY <1>2, <1>3 DEF IInv, OneLives
  <1>7. RequestsInv'
    <2> SUFFICES ASSUME NEW q \in set PROVE \E s \in seen' : s.row = q.row /\ q.at = Ts(s.event)
      BY DEF RequestsInv
    <2>1. ASSUME NEW p \in reqs, Same(p, q) PROVE \E s \in seen' : s.row = q.row /\ q.at = Ts(s.event)
      BY <2>1 DEF IInv, RequestsInv, Same
    <2>2. CASE \E p \in reqs : Same(p, q)
      BY <2>1, <2>2
    <2>3. CASE q.row = n /\ \E j \in events : q.at = Ts(j)
      BY <2>3
    <2> QED
      BY <2>2, <2>3 DEF Turned, Same
  <1> QED
    BY <1>2, <1>5, <1>6, <1>7 DEF Steady

-----------------------------------------------------------------------------
(* How many rows there are.                                                *)

LEMMA HeardIs ==
  ASSUME IInv
  PROVE  /\ Heard \subseteq 1..last /\ IsFiniteSet(Heard) /\ Cardinality(Heard) \in Nat
         /\ Cardinality(Heard) <= last
         /\ last \in Nat /\ last <= MaxEvents /\ MaxEvents \in Nat /\ Len(rows) \in Nat
  <1>1. last \in Nat /\ last <= MaxEvents /\ MaxEvents \in Nat /\ clock \in Nat /\ clock <= last
    BY BoundsAssumption DEF IInv, EventsInv
  <1>2. Heard \subseteq 1..last
    <2>1. \A s \in seen : s.event \in 1..clock
      BY DEF IInv, EventsInv
    <2> QED
      BY <1>1, <2>1 DEF Heard
  <1>3. IsFiniteSet(1..last) /\ Cardinality(1..last) = IF 1 > last THEN 0 ELSE last - 1 + 1
    BY <1>1, FS_Interval
  <1>4. IsFiniteSet(Heard) /\ Cardinality(Heard) <= Cardinality(1..last)
    BY <1>2, <1>3, FS_Subset
  <1>5. Cardinality(Heard) \in Nat
    BY <1>4, FS_CardinalityType
  <1>6. Len(rows) \in Nat
    BY DEF IInv
  <1> QED
    BY <1>1, <1>2, <1>3, <1>4, <1>5, <1>6

LEMMA HeardGrows ==
  ASSUME IInv, NEW i \in 1..last, i \notin Heard, Heard' = Heard \cup {i}
  PROVE  Cardinality(Heard') = Cardinality(Heard) + 1 /\ Cardinality(Heard') <= MaxEvents
  <1>1. Cardinality(Heard \cup {i}) = Cardinality(Heard) + 1
    BY HeardIs, FS_AddElement
  <1>2. IsFiniteSet(1..last) /\ Cardinality(1..last) = IF 1 > last THEN 0 ELSE last - 1 + 1
    <2>1. last \in Nat
      BY HeardIs
    <2> QED
      BY <2>1, FS_Interval
  <1>3. Cardinality(Heard \cup {i}) <= Cardinality(1..last)
    BY <1>2, HeardIs, FS_Subset
  <1> QED
    BY <1>1, <1>2, <1>3, HeardIs

LEMMA RowsBounded ==
  ASSUME IInv, NEW n \in 1..Len(rows)
  PROVE  n \in 1..MaxEvents + 1 /\ Fits(n, rows[n], reqs) /\ rows[n] \in Row
  <1>1. Len(rows) <= MaxEvents + 1
    BY HeardIs DEF IInv, RowsCounted
  <1> QED
    BY <1>1, HeardIs DEF IInv, RowsFit, Fits

-----------------------------------------------------------------------------
(* The events.                                                             *)

LEMMA AppliedKeepsEvents ==
  ASSUME IInv, NEW i \in 1..last, NEW n \in 1..Len(rows'), NEW applied \in BOOLEAN,
         Len(rows) <= Len(rows'), rows' \in Seq(Row),
         seen' = seen \cup {[event |-> i, row |-> n, applied |-> applied]},
         clock' = IF i > clock THEN i ELSE clock, UNCHANGED <<process, life, created, signals>>
  PROVE  EventsInv' /\ Heard' = Heard \cup {i}
  <1>1. UNCHANGED <<sent, last, created, signals>>
    BY DEF process, life
  <1>2. i \in Nat /\ clock \in Nat /\ clock <= last /\ last \in Nat /\ i <= last /\ Len(rows) \in Nat /\ Len(rows') \in Nat
    BY HeardIs DEF IInv, EventsInv
  <1>3. clock' \in 0..last /\ i \in 1..clock' /\ clock <= clock'
    BY <1>2
  <1>4. ASSUME NEW s \in seen' PROVE s.event \in 1..clock' /\ s.row \in 1..Len(rows')
    <2>1. CASE s \in seen
      <3>1. s.event \in 1..clock /\ s.row \in 1..Len(rows)
        BY <2>1 DEF IInv, EventsInv
      <3> QED
        BY <1>2, <1>3, <3>1
    <2>2. CASE s = [event |-> i, row |-> n, applied |-> applied]
      BY <1>3, <2>2
    <2> QED
      BY <2>1, <2>2
  <1>5. seen' \subseteq [event : Nat, row : Nat, applied : BOOLEAN]
    <2>1. [event |-> i, row |-> n, applied |-> applied] \in [event : Nat, row : Nat, applied : BOOLEAN]
      BY <1>2
    <2> QED
      BY <2>1 DEF IInv, EventsInv
  <1>6. EventsInv'
    BY <1>1, <1>3, <1>4, <1>5 DEF IInv, EventsInv, Time
  <1>7. Heard' = Heard \cup {i}
    <2> DEFINE s == [event |-> i, row |-> n, applied |-> applied]
    <2>1. s.event = i /\ seen' = seen \cup {s}
      OBVIOUS
    <2> HIDE DEF s
    <2> QED
      BY <2>1 DEF Heard
  <1> QED
    BY <1>6, <1>7

LEMMA KnownKeeps ==
  ASSUME IInv, NEW i \in 1..last, i \notin Heard, NEW n \in Resolve(i), Known(i, n),
         clock' = IF i > clock THEN i ELSE clock, UNCHANGED <<process, life, created, signals>>
  PROVE  IInv' /\ Steady
  <1> DEFINE o == Outcomes(i, n)
             row == o.row
             set == o.reqs
             applied == o.applied
  <1>1. n \in 1..Len(rows)
    BY ResolveIs
  <1>2. n \in 1..MaxEvents + 1 /\ Fits(n, rows[n], reqs)
    BY <1>1, RowsBounded
  <1>3. /\ Fits(n, row, set) /\ (row.alive => rows[n].alive) /\ applied \in BOOLEAN
        /\ Turned(n, reqs, set, Heeded(n, i)) /\ set \subseteq Request
    BY <1>2, OutcomesIs DEF IInv
  <1>4. /\ rows' = [rows EXCEPT ![n] = row] /\ reqs' = set
        /\ seen' = seen \cup {[event |-> i, row |-> n, applied |-> applied]}
    BY DEF Known, Record
  <1> HIDE DEF o, row, set, applied
  <1>5. \A j \in Heeded(n, i) : \E s \in seen' : s.event = j /\ s.row = n
    <2> DEFINE s == [event |-> i, row |-> n, applied |-> applied]
    <2>1. s.event = i /\ s.row = n /\ seen' = seen \cup {s}
      BY <1>4
    <2> HIDE DEF s
    <2>2. \A t \in seen : t \in seen'
      BY <2>1
    <2> QED
      BY <2>1, <2>2 DEF Heeded
  <1>6. rows' \in Seq(Row) /\ Len(rows') = Len(rows) /\ RowsFit' /\ OneLives' /\ RequestsInv' /\ Steady
    <2> DEFINE events == Heeded(n, i)
    <2>1. Turned(n, reqs, set, events) /\ \A j \in events : \E s \in seen' : s.event = j /\ s.row = n
      BY <1>3, <1>5
    <2>2. seen \subseteq seen'
      BY <1>4
    <2>3. Fits(n, row, set) /\ (row.alive => rows[n].alive) /\ set \subseteq Request
      BY <1>3
    <2>4. rows' = [rows EXCEPT ![n] = row] /\ reqs' = set
      BY <1>4
    <2> HIDE DEF events
    <2> QED
      BY <1>1, <2>1, <2>2, <2>3, <2>4, RowTakes
  <1>7. EventsInv' /\ Heard' = Heard \cup {i}
    <2>1. n \in 1..Len(rows') /\ Len(rows) <= Len(rows')
      BY <1>1, <1>6, HeardIs
    <2> QED
      BY <1>3, <1>4, <1>6, <2>1, AppliedKeepsEvents
  <1>8. RowsCounted'
    <2>1. Cardinality(Heard') = Cardinality(Heard) + 1 /\ Cardinality(Heard) \in Nat /\ Len(rows) \in Nat
      BY <1>7, HeardIs, HeardGrows
    <2>2. created' = created /\ Len(rows) <= Cardinality(Heard) + (IF created = 0 THEN 0 ELSE 1)
      BY DEF IInv, RowsCounted
    <2> QED
      BY <1>6, <2>1, <2>2 DEF RowsCounted
  <1> QED
    BY <1>6, <1>7, <1>8 DEF IInv

-----------------------------------------------------------------------------
(* Rows that are made.                                                     *)

LEMMA NoneYet ==
  ASSUME IInv
  PROVE  OpenOf(Len(rows) + 1, reqs) = {}
  <1>1. \A q \in reqs : q.row \in 1..Len(rows)
    BY DEF IInv, RequestsInv, EventsInv
  <1> QED
    BY <1>1, HeardIs DEF OpenOf

LEMMA RowComes ==
  ASSUME IInv, \A m \in 1..Len(rows) : ~rows[m].alive, NEW n, n = Len(rows) + 1, NEW row,
         NEW set \in SUBSET Request, NEW events, Fits(n, row, set), Turned(n, reqs, set, events),
         rows' = Append(rows, row), reqs' = set,
         seen \subseteq seen', \A j \in events : \E s \in seen' : s.event = j /\ s.row = n
  PROVE  rows' \in Seq(Row) /\ Len(rows') = n /\ RowsFit' /\ OneLives' /\ RequestsInv' /\ Steady
  <1>1. rows \in Seq(Row) /\ row \in Row /\ Len(rows) \in Nat
    BY DEF IInv, Fits
  <1>2. rows' \in Seq(Row) /\ Len(rows') = n
    BY <1>1
  <1>3. \A m \in 1..n : rows'[m] = IF m = n THEN row ELSE rows[m]
    BY <1>1
  <1>4. ASSUME NEW m \in 1..n PROVE Fits(m, rows'[m], reqs')
    <2>1. CASE m = n
      BY <1>3, <2>1
    <2>2. CASE m # n
      <3>1. m \in 1..Len(rows)
        BY <1>1, <2>2
      <3>2. Fits(m, rows[m], reqs)
        BY <3>1 DEF IInv, RowsFit
      <3> QED
        BY <1>3, <2>2, <3>2, OthersFit
    <2> QED
      BY <2>1, <2>2
  <1>5. RowsFit'
    BY <1>2, <1>4 DEF RowsFit
  <1>6. \A m \in 1..n : rows'[m].alive => m = n
    <2> SUFFICES ASSUME NEW m \in 1..n, m # n PROVE ~rows'[m].alive
      OBVIOUS
    <2>1. m \in 1..Len(rows)
      BY <1>1
    <2> QED
      BY <1>3, <2>1
  <1>7. OneLives'
    BY <1>2, <1>6 DEF OneLives
  <1>8. RequestsInv'
    <2> SUFFICES ASSUME NEW q \in set PROVE \E s \in seen' : s.row = q.row /\ q.at = Ts(s.event)
      BY DEF RequestsInv
    <2>1. ASSUME NEW p \in reqs, Same(p, q) PROVE \E s \in seen' : s.row = q.row /\ q.at = Ts(s.event)
      BY <2>1 DEF IInv, RequestsInv, Same
    <2>2. CASE \E p \in reqs : Same(p, q)
      BY <2>1, <2>2
    <2>3. CASE q.row = n /\ \E j \in events : q.at = Ts(j)
      BY <2>3
    <2> QED
      BY <2>2, <2>3 DEF Turned, Same
  <1> QED
    BY <1>2, <1>5, <1>7, <1>8 DEF Steady

(* A session that is found says what its first hook says.                  *)
LEMMA DiscoveredIs ==
  ASSUME EventsInv, NEW i \in 1..last
  PROVE  /\ Discovered(i) \in Row /\ Discovered(i).alive = TRUE
         /\ Discovered(i).state = CASE sent[i].kind \in Starts \cup {"stop", "stopText", "idle"} -> "idle"
                                    [] sent[i].kind = "ask" -> "needs_approval"
                                    [] sent[i].kind = "question" -> "asked_you"
                                    [] OTHER -> "running"
  <1> DEFINE state == CASE sent[i].kind \in Starts \cup {"stop", "stopText", "idle"} -> "idle"
                        [] sent[i].kind = "ask" -> "needs_approval"
                        [] sent[i].kind = "question" -> "asked_you"
                        [] OTHER -> "running"
             mid == sent[i].kind \notin Starts
             conv == sent[i].conv
             row == Discovered(i)
  <1>1. row = [state |-> state, since |-> Ts(i), started |-> Ts(i), ended |-> 0, alive |-> TRUE,
               mid |-> mid, active |-> {}, clearing |-> FALSE, conv |-> conv, olds |-> {}, replaced |-> 0]
    BY DEF Discovered
  <1>2. state \in States /\ mid \in BOOLEAN
    BY DEF States, Needs, Starts
  <1>3. Ts(i) \in Time /\ conv \in 0..MaxEvents /\ 0 \in Time
    BY HookIs, BoundsAssumption DEF Time
  <1> HIDE DEF state, mid, conv, row
  <1>4. row \in Row
    BY <1>1, <1>2, <1>3 DEF Row
  <1>5. row.alive = TRUE /\ row.state = state
    BY <1>1
  <1> QED
    BY <1>4, <1>5 DEF row, state

LEMMA FoundFits ==
  ASSUME IInv, NEW i \in 1..last, i \notin Heard, sent[i].kind \notin Ends,
         NEW n \in 1..MaxEvents + 1, n = Len(rows) + 1, NEW row \in Row,
         row.alive = TRUE, row.state = Discovered(i).state,
         NEW set, set = RequestHook(i, n, row, reqs, FALSE)
  PROVE  Fits(n, row, set) /\ Turned(n, reqs, set, {i}) /\ set \subseteq Request
  <1> DEFINE kind == sent[i].kind
             opened == Opened(i, n, row, reqs, FALSE)
  <1>1. sent[i] \in Hook /\ About(sent[i]) /\ EventsInv
    BY HookIs DEF IInv
  <1>2. OpenOf(n, reqs) = {}
    BY NoneYet
  <1>3. \A q \in reqs : q.at # Ts(i)
    <2> SUFFICES ASSUME NEW q \in reqs, q.at = Ts(i) PROVE FALSE
      OBVIOUS
    <2>1. PICK s \in seen : q.at = Ts(s.event)
      BY DEF IInv, RequestsInv
    <2>2. s.event \in Nat /\ i \in Nat
      BY HookIs DEF IInv, EventsInv
    <2> QED
      BY <2>1, <2>2, TimesDiffer DEF Heard
  <1>4. Turned(n, reqs, set, {i}) /\ set \subseteq Request
        /\ OpenOf(n, set) = (OpenOf(n, reqs) \ ClosedBy(i, n, reqs, FALSE)) \cup opened
    <2>1. reqs \subseteq Request /\ i \in {i}
      BY DEF IInv, RequestsInv
    <2>2. Turned(n, reqs, set, {i})
      BY <1>1, <1>3, <2>1, RequestHookIs
    <2>3. set \subseteq Request
      BY <1>1, <1>3, <2>1, RequestHookIs
    <2>4. OpenOf(n, set) = (OpenOf(n, reqs) \ ClosedBy(i, n, reqs, FALSE)) \cup opened
      BY <1>1, <1>3, <2>1, RequestHookIs
    <2> QED
      BY <2>2, <2>3, <2>4
  <1>5. OpenOf(n, set) = opened
    BY <1>2, <1>4
  <1>6. row.state = CASE kind \in Starts \cup {"stop", "stopText", "idle"} -> "idle"
                      [] kind = "ask" -> "needs_approval"
                      [] kind = "question" -> "asked_you"
                      [] OTHER -> "running"
    BY <1>1, DiscoveredIs
  <1>7. opened = IF kind \in Asking THEN {[row |-> n, key |-> sent[i].of, at |-> Ts(i), open |-> TRUE]} ELSE {}
    <2>1. kind = "stopText" => row.state = "idle"
      BY <1>6 DEF Starts
    <2> QED
      BY <2>1 DEF Opened, Asking
  <1>8. kind = "ask" => sent[i].of \in Keys
    BY <1>1 DEF About
  <1>9. kind = "question" => sent[i].of \notin Keys
    BY <1>1, KeysAssumption DEF About
  <1>10. row.state = "needs_approval" <=> Permission(opened)
    <2> DEFINE q == [row |-> n, key |-> sent[i].of, at |-> Ts(i), open |-> TRUE]
    <2>4. q.key = sent[i].of /\ (kind \in Asking => opened = {q})
      BY <1>7
    <2> HIDE DEF q, opened
    <2>1. CASE kind = "ask"
      <3>1. row.state = "needs_approval" /\ opened = {q}
        BY <1>6, <2>1, <2>4 DEF Asking, Starts
      <3> QED
        BY <1>8, <2>1, <2>4, <3>1 DEF Permission
    <2>2. CASE kind = "question"
      <3>1. row.state = "asked_you" /\ opened = {q}
        BY <1>6, <2>2, <2>4 DEF Asking, Starts
      <3> QED
        BY <1>9, <2>2, <2>4, <3>1 DEF Permission
    <2>3. CASE kind \notin Asking
      <3>1. opened = {} /\ row.state \in {"idle", "running"}
        BY <1>6, <1>7, <2>3 DEF Asking
      <3> QED
        BY <3>1 DEF Permission
    <2> QED
      BY <2>1, <2>2, <2>3 DEF Asking
  <1>11. row.state \in Needs <=> opened # {}
    <2>1. CASE kind \in Asking
      BY <1>6, <1>7, <2>1 DEF Asking, Needs, Starts
    <2>2. CASE kind \notin Asking
      <3>1. opened = {} /\ row.state \in {"idle", "running"}
        BY <1>6, <1>7, <2>2 DEF Asking
      <3> QED
        BY <3>1 DEF Needs
    <2> QED
      BY <2>1, <2>2
  <1>12. row.state # "over"
    BY <1>6
  <1> HIDE DEF opened, kind
  <1> QED
    BY <1>4, <1>5, <1>10, <1>11, <1>12 DEF Fits

LEMMA UnknownKeeps ==
  ASSUME IInv, NEW i \in 1..last, i \notin Heard, Resolve(i) = {}, Unknown(i),
         clock' = IF i > clock THEN i ELSE clock, UNCHANGED <<process, life, created, signals>>
  PROVE  IInv' /\ Steady
  <1> DEFINE n == Len(rows) + 1
             new == Discovered(i)
             row == IF sent[i].kind = "agent" THEN [new EXCEPT !.active = {sent[i].of}] ELSE new
             set == RequestHook(i, n, row, reqs, FALSE)
             s == [event |-> i, row |-> n, applied |-> TRUE]
  <1>1. sent[i].kind \notin Ends /\ rows' = Append(rows, row) /\ reqs' = set /\ seen' = seen \cup {s}
    BY DEF Unknown
  <1>2. \A m \in 1..Len(rows) : ~rows[m].alive
    BY ResolveIs
  <1>3. row \in Row /\ row.alive = TRUE /\ row.state = Discovered(i).state
    <2>1. new \in Row /\ new.alive = TRUE /\ (sent[i].kind = "agent" => {sent[i].of} \in SUBSET Agents)
      BY DiscoveredIs, HookIs DEF IInv, About
    <2> HIDE DEF new
    <2>2. CASE sent[i].kind = "agent"
      <3>1. row = [new EXCEPT !.active = {sent[i].of}]
        BY <2>2
      <3> HIDE DEF row
      <3> QED
        BY <2>1, <2>2, <3>1 DEF Row, new
    <2>3. CASE sent[i].kind # "agent"
      BY <2>1, <2>3 DEF new
    <2> QED
      BY <2>2, <2>3
  <1>4. s.event = i /\ s.row = n /\ n \in Nat /\ Len(rows) \in Nat
    BY HeardIs
  <1>5. Heard' = Heard \cup {i}
    <2> HIDE DEF s
    <2> QED
      BY <1>1, <1>4 DEF Heard
  <1>6. Cardinality(Heard') = Cardinality(Heard) + 1 /\ Cardinality(Heard') <= MaxEvents /\ Cardinality(Heard) \in Nat
    BY <1>5, HeardIs, HeardGrows
  <1>7. created' = created /\ Len(rows) <= Cardinality(Heard) + (IF created = 0 THEN 0 ELSE 1)
    BY DEF IInv, RowsCounted
  <1>8. n \in 1..MaxEvents + 1
    BY <1>4, <1>6, <1>7, HeardIs
  <1>9. n = Len(rows) + 1 /\ set = RequestHook(i, n, row, reqs, FALSE)
    OBVIOUS
  <1> HIDE DEF row, set, n
  <1>10. Fits(n, row, set) /\ Turned(n, reqs, set, {i}) /\ set \subseteq Request
    BY <1>1, <1>3, <1>8, <1>9, FoundFits
  <1>11. seen \subseteq seen' /\ \A j \in {i} : \E t \in seen' : t.event = j /\ t.row = n
    <2> HIDE DEF s
    <2> QED
      BY <1>1, <1>4
  <1>12. rows' \in Seq(Row) /\ Len(rows') = n /\ RowsFit' /\ OneLives' /\ RequestsInv' /\ Steady
    <2> DEFINE events == {i}
    <2>1. Turned(n, reqs, set, events) /\ \A j \in events : \E t \in seen' : t.event = j /\ t.row = n
      BY <1>10, <1>11
    <2>2. seen \subseteq seen' /\ Fits(n, row, set) /\ set \subseteq Request
      BY <1>10, <1>11
    <2>3. rows' = Append(rows, row) /\ reqs' = set
      BY <1>1
    <2> HIDE DEF events, s
    <2>4. n = Len(rows) + 1
      BY <1>9
    <2>5. set \in SUBSET Request /\ \A j \in events : \E t \in seen' : t.event = j /\ t.row = n
      BY <2>1, <2>2
    <2> QED
      BY <1>2, <2>1, <2>2, <2>3, <2>4, <2>5, RowComes, SMTT(60)
  <1>13. EventsInv'
    <2>1. n \in 1..Len(rows') /\ Len(rows) <= Len(rows')
      BY <1>4, <1>8, <1>9, <1>12
    <2> QED
      BY <1>1, <1>12, <2>1, AppliedKeepsEvents
  <1>14. RowsCounted'
    BY <1>4, <1>6, <1>7, <1>9, <1>12 DEF RowsCounted
  <1> QED
    BY <1>12, <1>13, <1>14 DEF IInv

(* projector.create joins the row a hook has made, or makes the first.     *)
LEMMA CreateKeeps ==
  ASSUME IInv, NEW k \in clock..last, Create(k)
  PROVE  IInv' /\ Steady
  <1> DEFINE fresh == [state |-> "starting", since |-> Now(k), started |-> Now(k), ended |-> 0,
                       alive |-> TRUE, mid |-> FALSE, active |-> {}, clearing |-> FALSE,
                       conv |-> 0, olds |-> {}, replaced |-> 0]
             n == Len(rows) + 1
  <1>1. /\ UNCHANGED <<sent, last, reqs, seen, signals>> /\ clock' = k /\ created = 0 /\ created' = Now(k)
    BY DEF Create, process, life
  <1>2. /\ clock \in Nat /\ k \in 0..last /\ clock <= k /\ k <= MaxEvents
        /\ Now(k) \in Time /\ Now(k) # 0 /\ 0 \in Time /\ Len(rows) \in Nat
    BY HeardIs DEF IInv, EventsInv, Time, Now
  <1>3. EventsInv /\ RowsCounted /\ Heard' = Heard /\ Cardinality(Heard) \in Nat
    BY <1>1, HeardIs DEF IInv, Heard
  <1>4. \A s \in seen : s.event \in 1..k /\ s.row \in 1..Len(rows)
    BY <1>2, <1>3 DEF EventsInv
  <1>5. CASE \E m \in DOMAIN rows : rows[m].alive
    <2>1. rows' = [m \in DOMAIN rows |-> [rows[m] EXCEPT !.mid = @ /\ ~rows[m].alive]]
      BY <1>5 DEF Create
    <2>2. rows \in Seq(Row) /\ DOMAIN rows = 1..Len(rows)
      BY DEF IInv
    <2>3. ASSUME NEW m \in 1..Len(rows)
          PROVE  rows'[m] \in Row /\ rows'[m].state = rows[m].state /\ rows'[m].alive = rows[m].alive
      <3> DEFINE row == rows[m]
                 mid == row.mid /\ ~row.alive
                 new == rows'[m]
      <3>1. row \in Row /\ mid \in BOOLEAN /\ new = [row EXCEPT !.mid = mid]
        BY <2>1, <2>2
      <3> HIDE DEF row, mid, new
      <3>4. new \in Row /\ new.state = row.state /\ new.alive = row.alive
        <4>1. new \in Row
          <5>1. CASE mid = TRUE
            <6>1. new = [row EXCEPT !.mid = TRUE]
              BY <3>1, <5>1
            <6> QED
              BY <3>1, <6>1 DEF Row
          <5>2. CASE mid = FALSE
            <6>1. new = [row EXCEPT !.mid = FALSE]
              BY <3>1, <5>2
            <6> QED
              BY <3>1, <6>1 DEF Row
          <5> QED
            BY <3>1, <5>1, <5>2
        <4>2. new.state = row.state /\ new.alive = row.alive
          BY <3>1 DEF Row
        <4> QED
          BY <4>1, <4>2
      <3> QED
        BY <3>4 DEF new, row
    <2>4. rows' \in Seq(Row) /\ Len(rows') = Len(rows)
      <3> DEFINE row(m) == [rows[m] EXCEPT !.mid = @ /\ ~rows[m].alive]
      <3>1. rows' = [m \in 1..Len(rows) |-> row(m)]
        BY <2>1, <2>2
      <3>2. \A m \in 1..Len(rows) : row(m) \in Row
        BY <2>3, <3>1
      <3>3. Len(rows) \in Nat
        BY <1>2
      <3> HIDE DEF row
      <3> QED
        BY <3>1, <3>2, <3>3
    <2>5. RowsFit'
      <3>1. ASSUME NEW m \in 1..Len(rows) PROVE Fits(m, rows'[m], reqs')
        <4>1. Fits(m, rows[m], reqs)
          BY DEF IInv, RowsFit
        <4> QED
          BY <1>1, <2>3, <4>1 DEF Fits
      <3> QED
        BY <2>4, <3>1 DEF RowsFit
    <2>6. OneLives'
      BY <2>3, <2>4 DEF IInv, OneLives
    <2>7. EventsInv'
      BY <1>1, <1>2, <1>3, <1>4, <2>4 DEF EventsInv
    <2>8. RowsCounted'
      BY <1>1, <1>2, <1>3, <2>4 DEF RowsCounted
    <2>9. RequestsInv' /\ Steady
      BY <1>1, TurnedStays DEF IInv, RequestsInv, Steady
    <2> QED
      BY <2>4, <2>5, <2>6, <2>7, <2>8, <2>9 DEF IInv
  <1>6. CASE ~\E m \in DOMAIN rows : rows[m].alive
    <2>1. rows' = Append(rows, fresh)
      BY <1>6 DEF Create
    <2>2. \A m \in 1..Len(rows) : ~rows[m].alive
      BY <1>6 DEF IInv
    <2>3. fresh \in Row /\ fresh.alive = TRUE /\ fresh.state = "starting"
      BY <1>2, HeardIs DEF Row, States
    <2> HIDE DEF fresh
    <2>4. OpenOf(n, reqs) = {}
      BY NoneYet
    <2>5. Fits(n, fresh, reqs)
      BY <2>3, <2>4 DEF Fits, Needs, Permission
    <2>6. Turned(n, reqs, reqs, {}) /\ reqs \in SUBSET Request
      BY TurnedStays DEF IInv, RequestsInv
    <2>10. n = Len(rows) + 1
      OBVIOUS
    <2> HIDE DEF n
    <2>7. rows' \in Seq(Row) /\ Len(rows') = n /\ RowsFit' /\ OneLives' /\ RequestsInv' /\ Steady
      <3> DEFINE events == {}
      <3>1. Turned(n, reqs, reqs, events) /\ \A j \in events : \E s \in seen' : s.event = j /\ s.row = n
        BY <2>6
      <3>2. seen \subseteq seen' /\ reqs' = reqs
        BY <1>1
      <3> HIDE DEF events
      <3> QED
        BY <2>1, <2>2, <2>5, <2>6, <2>10, <3>1, <3>2, RowComes, SMTT(60)
    <2>8. EventsInv'
      BY <1>1, <1>2, <1>3, <1>4, <2>7, <2>10 DEF EventsInv
    <2>9. RowsCounted'
      BY <1>1, <1>2, <1>3, <2>7, <2>10 DEF RowsCounted
    <2> QED
      BY <2>7, <2>8, <2>9 DEF IInv
  <1> QED
    BY <1>5, <1>6

-----------------------------------------------------------------------------
(* What the server notices by itself.                                      *)

LEMMA SignalKeeps ==
  ASSUME IInv, NEW k \in clock..last, NEW n \in 1..Len(rows), NEW row, NEW set \in SUBSET Request,
         Signal(k, n, row, set), last' \in {last, k},
         Fits(n, row, set), row.alive => rows[n].alive, Turned(n, reqs, set, {})
  PROVE  IInv' /\ Steady
  <1>1. /\ UNCHANGED <<sent, seen, created>> /\ clock' = k /\ signals' = signals + 1
        /\ Len(sent) + signals < MaxSteps /\ rows' = [rows EXCEPT ![n] = row] /\ reqs' = set
    BY DEF Signal, process
  <1>2. clock \in Nat /\ k \in 0..last' /\ clock <= k /\ last' \in 0..Len(sent) /\ Len(rows) \in Nat
    BY HeardIs DEF IInv, EventsInv
  <1>3. EventsInv /\ RowsCounted /\ Heard' = Heard
    BY <1>1 DEF IInv, Heard
  <1>4. rows' \in Seq(Row) /\ Len(rows') = Len(rows) /\ RowsFit' /\ OneLives' /\ RequestsInv' /\ Steady
    <2> DEFINE events == {}
    <2>1. Turned(n, reqs, set, events) /\ \A j \in events : \E s \in seen' : s.event = j /\ s.row = n
      OBVIOUS
    <2>2. seen \subseteq seen' /\ set \subseteq Request
      BY <1>1
    <2> HIDE DEF events
    <2> QED
      BY <1>1, <2>1, <2>2, RowTakes
  <1>5. signals' \in 0..MaxSteps
    <2>1. Len(sent) \in Nat /\ signals \in Nat /\ MaxSteps \in Nat
      BY <1>3, BoundsAssumption DEF EventsInv
    <2> QED
      BY <1>1, <2>1
  <1>6. \A s \in seen : s.event \in 1..k /\ s.row \in 1..Len(rows)
    BY <1>2, <1>3 DEF EventsInv
  <1>7. EventsInv'
    BY <1>1, <1>2, <1>3, <1>4, <1>5, <1>6 DEF EventsInv
  <1>8. RowsCounted'
    BY <1>1, <1>3, <1>4 DEF RowsCounted
  <1> QED
    BY <1>4, <1>7, <1>8 DEF IInv

LEMMA NowIs ==
  ASSUME IInv, NEW k \in clock..last
  PROVE  Now(k) \in Time
  <1>1. clock \in Nat
    BY DEF IInv, EventsInv
  <1>2. last \in Nat /\ last <= MaxEvents /\ MaxEvents \in Nat
    BY HeardIs
  <1> QED
    BY <1>1, <1>2 DEF Time, Now

LEMMA RequestsTyped ==
  ASSUME IInv
  PROVE  reqs \in SUBSET Request
  BY DEF IInv, RequestsInv

(* A row that says something else of the requests it has.                  *)
LEMMA SaidFits ==
  ASSUME NEW n, NEW row \in Row, NEW set, Fits(n, row, set), row.state \in Resting,
         NEW new \in Row, new.state \in Resting, new.alive = row.alive
  PROVE  Fits(n, new, set)
  <1>1. row.alive /\ OpenOf(n, set) = {} /\ ~Permission(OpenOf(n, set))
    BY DEF Fits, Resting, Needs
  <1>2. new.state # "over" /\ new.state \notin Needs /\ new.state # "needs_approval"
    BY DEF Resting, Needs
  <1> QED
    BY <1>1, <1>2 DEF Fits

LEMMA OverKeeps ==
  ASSUME IInv, NEW k \in clock..last, NEW n \in 1..Len(rows), Over(k, n), last' \in {last, k}
  PROVE  IInv' /\ Steady
  <1> DEFINE row == [rows[n] EXCEPT !.state = "over", !.alive = FALSE, !.since = Now(k), !.ended = Now(k)]
             gone == OpenOf(n, reqs)
             set == (reqs \ gone) \cup Closed(gone)
  <1>1. Signal(k, n, row, set)
    BY DEF Over
  <1>2. rows[n] \in Row /\ reqs \subseteq Request /\ Now(k) \in Time
    BY RowsBounded, RequestsTyped, NowIs
  <1>3. row \in Row /\ row.alive = FALSE /\ row.state = "over"
    BY <1>2 DEF Row, States
  <1>4. gone \subseteq OpenOf(n, reqs) /\ set = (reqs \ gone) \cup Closed(gone) /\ gone = OpenOf(n, reqs)
    OBVIOUS
  <1> HIDE DEF row, gone, set
  <1>5. Turned(n, reqs, set, {}) /\ set \in SUBSET Request
    BY <1>2, <1>4, ClosingIs
  <1>6. OpenOf(n, set) = {}
    BY <1>2, <1>4, ClosingIs
  <1>7. Fits(n, row, set)
    BY <1>3, <1>6 DEF Fits, Needs
  <1> QED
    BY <1>1, <1>3, <1>5, <1>7, SignalKeeps

LEMMA ScreenIdleKeeps ==
  ASSUME IInv, NEW k \in clock..last, NEW n \in 1..Len(rows), ScreenIdle(k, n)
  PROVE  IInv' /\ Steady
  <1> DEFINE row == rows[n]
             open == OpenOf(n, reqs)
             gone == {q \in open : q.key # Text}
             set == (reqs \ gone) \cup Closed(gone)
             state == ByOpen(open \ gone, "idle")
  <1>1. row \in Row /\ Fits(n, row, reqs) /\ reqs \in SUBSET Request /\ Now(k) \in Time
    BY RowsBounded, RequestsTyped, NowIs
  <1>2. row.alive /\ last' \in {last, k}
    BY DEF ScreenIdle, life
  <1>3. CASE row.state = "running" /\ Signal(k, n, [row EXCEPT !.state = "idle", !.since = Now(k)], reqs)
    <2> DEFINE new == [row EXCEPT !.state = "idle", !.since = Now(k)]
    <2>1. Fits(n, new, reqs)
      <3>1. new = [row EXCEPT !.state = "idle", !.since = Now(k)] /\ row.state \in Resting
        BY <1>3 DEF Resting
      <3> HIDE DEF row, new
      <3>2. new \in Row
        BY <1>1, <3>1 DEF Row, States
      <3>3. new.state = "idle" /\ new.alive = row.alive
        BY <1>1, <3>1 DEF Row
      <3> QED
        BY <1>1, <3>1, <3>2, <3>3, SaidFits DEF Resting
    <2>2. Turned(n, reqs, reqs, {})
      BY TurnedStays
    <2>3. Signal(k, n, new, reqs)
      BY <1>3
    <2> HIDE DEF new
    <2> QED
      BY <1>1, <1>2, <2>1, <2>2, <2>3, SignalKeeps
  <1>4. CASE /\ row.state \in Needs
             /\ Signal(k, n, [row EXCEPT !.state = state, !.since = Now(k)], set)
    <2> DEFINE new == [row EXCEPT !.state = state, !.since = Now(k)]
    <2>1. gone \subseteq OpenOf(n, reqs) /\ set = (reqs \ gone) \cup Closed(gone)
      OBVIOUS
    <2>2. Signal(k, n, new, set) /\ new = [row EXCEPT !.state = state, !.since = Now(k)]
      BY <1>4
    <2>3. /\ state \in States \ {"over"}
          /\ state \in Needs <=> open \ gone # {}
          /\ state = "needs_approval" <=> Permission(open \ gone)
      BY ByOpenIs DEF Resting
    <2> HIDE DEF gone, set, new, state, row
    <2>4. Turned(n, reqs, set, {}) /\ set \in SUBSET Request
      BY <1>1, <2>1, ClosingIs
    <2>5. OpenOf(n, set) = open \ gone
      BY <1>1, <2>1, ClosingIs
    <2>6. new \in Row /\ new.state = state /\ new.alive = row.alive
      BY <1>1, <2>2, <2>3 DEF Row
    <2>7. Fits(n, new, set)
      BY <1>2, <2>3, <2>5, <2>6 DEF Fits, row
    <2> QED
      BY <1>2, <2>2, <2>4, <2>7, SignalKeeps DEF row
  <1> QED
    BY <1>3, <1>4 DEF ScreenIdle

LEMMA StaleKeeps ==
  ASSUME IInv, NEW k \in clock..last, NEW n \in 1..Len(rows), Stale(k, n)
  PROVE  IInv' /\ Steady
  <1> DEFINE row == rows[n]
             new == [row EXCEPT !.state = "stale"]
  <1>1. row \in Row /\ Fits(n, row, reqs) /\ reqs \in SUBSET Request /\ 0 \in Time
    BY RowsBounded, BoundsAssumption DEF IInv, RequestsInv, Time
  <1>2. row.state = "running" /\ last' \in {last, k} /\ Signal(k, n, new, reqs)
    BY DEF Stale, life
  <1>3. Fits(n, new, reqs) /\ new.alive = row.alive
    <2>1. new = [row EXCEPT !.state = "stale"] /\ row.state \in Resting
      BY <1>2 DEF Resting
    <2> HIDE DEF row, new
    <2>2. new \in Row
      BY <1>1, <2>1 DEF Row, States
    <2>3. new.state = "stale" /\ new.alive = row.alive
      BY <1>1, <2>1 DEF Row
    <2> QED
      BY <1>1, <2>1, <2>2, <2>3, SaidFits DEF Resting
  <1>4. Turned(n, reqs, reqs, {})
    BY TurnedStays
  <1> HIDE DEF new
  <1> QED
    BY <1>1, <1>2, <1>3, <1>4, SignalKeeps

LEMMA OutputKeeps ==
  ASSUME IInv, NEW k \in clock..last, NEW n \in 1..Len(rows), Output(k, n)
  PROVE  IInv' /\ Steady
  <1> DEFINE row == rows[n]
             new == [row EXCEPT !.state = "running", !.since = Now(k)]
  <1>1. row \in Row /\ Fits(n, row, reqs) /\ reqs \in SUBSET Request /\ Now(k) \in Time
    BY RowsBounded, RequestsTyped, NowIs
  <1>2. row.state = "stale" /\ last' \in {last, k} /\ Signal(k, n, new, reqs)
    BY DEF Output, life
  <1>3. Fits(n, new, reqs) /\ new.alive = row.alive
    <2>1. new = [row EXCEPT !.state = "running", !.since = Now(k)] /\ row.state \in Resting
      BY <1>2 DEF Resting
    <2> HIDE DEF row, new
    <2>2. new \in Row
      BY <1>1, <2>1 DEF Row, States
    <2>3. new.state = "running" /\ new.alive = row.alive
      BY <1>1, <2>1 DEF Row
    <2> QED
      BY <1>1, <2>1, <2>2, <2>3, SaidFits DEF Resting
  <1>4. Turned(n, reqs, reqs, {})
    BY TurnedStays
  <1> HIDE DEF new
  <1> QED
    BY <1>1, <1>2, <1>3, <1>4, SignalKeeps

LEMMA VanishKeeps ==
  ASSUME IInv, NEW k \in clock..last, Vanish(k)
  PROVE  IInv' /\ Steady
  <1>1. UNCHANGED <<sent, rows, reqs, seen, created, signals>> /\ clock' = k /\ last' = k
    BY DEF Vanish, process
  <1>2. clock \in Nat /\ clock <= k /\ last' \in 0..Len(sent) /\ k \in 0..last' /\ EventsInv
    BY <1>1, HeardIs DEF IInv, EventsInv
  <1>3. \A s \in seen : s.event \in 1..k /\ s.row \in 1..Len(rows)
    BY <1>2 DEF EventsInv
  <1>4. EventsInv'
    BY <1>1, <1>2, <1>3 DEF EventsInv
  <1>5. rows' \in Seq(Row) /\ RowsCounted' /\ RowsFit' /\ OneLives' /\ RequestsInv'
    BY <1>1 DEF IInv, RowsCounted, Heard, RowsFit, OneLives, RequestsInv
  <1>6. Steady
    BY <1>1, TurnedStays DEF Steady
  <1> QED
    BY <1>4, <1>5, <1>6 DEF IInv

LEMMA NextKeeps ==
  ASSUME IInv, [Next]_vars
  PROVE  IInv' /\ Steady
  <1>1. CASE UNCHANGED vars
    <2>1. UNCHANGED <<sent, last, clock, rows, reqs, seen, created, signals>>
      BY <1>1 DEF vars
    <2>2. IInv'
      BY <2>1 DEF IInv, EventsInv, RowsCounted, Heard, RowsFit, OneLives, RequestsInv
    <2>3. Steady
      BY <2>1, TurnedStays DEF Steady
    <2> QED
      BY <2>2, <2>3
  <1>2. ASSUME NEW i \in 1..last, Apply(i) PROVE IInv' /\ Steady
    <2>1. /\ i \notin Heard /\ clock' = IF i > clock THEN i ELSE clock
          /\ UNCHANGED <<process, life, created, signals>>
      BY <1>2 DEF Apply, Heard
    <2>2. CASE Resolve(i) = {} /\ Unknown(i)
      BY <2>1, <2>2, UnknownKeeps
    <2>3. CASE \E n \in Resolve(i) : Known(i, n)
      BY <2>1, <2>3, KnownKeeps
    <2> QED
      BY <1>2, <2>2, <2>3 DEF Apply
  <1>3. DOMAIN rows = 1..Len(rows)
    BY DEF IInv
  <1>4. ASSUME NEW k \in clock..last, NEW n \in 1..Len(rows),
               ScreenIdle(k, n) \/ Stale(k, n) \/ Output(k, n) \/ Gone(k, n) \/ AliasWait(k, n)
        PROVE  IInv' /\ Steady
    <2>1. CASE ScreenIdle(k, n)
      BY <2>1, ScreenIdleKeeps
    <2>2. CASE Stale(k, n)
      BY <2>2, StaleKeeps
    <2>3. CASE Output(k, n)
      BY <2>3, OutputKeeps
    <2>4. CASE Gone(k, n)
      BY <2>4, OverKeeps DEF Gone
    <2>5. CASE AliasWait(k, n)
      BY <2>5, OverKeeps DEF AliasWait, life
    <2> QED
      BY <1>4, <2>1, <2>2, <2>3, <2>4, <2>5
  <1> QED
    BY <1>1, <1>2, <1>3, <1>4, CreateKeeps, VanishKeeps DEF Next

-----------------------------------------------------------------------------
(* The lives of a process.                                                 *)

LEMMA KindIs ==
  ASSUME NEW m \in Kinds
  PROVE  /\ m.kind \in {"prompt", "tool", "stop", "stopText", "idle", "ask", "question", "post",
                        "agent", "back"} \cup Starts \cup Ends
         /\ m.of \in Keys \cup Questions \cup Agents \cup {Text}
         /\ m.kind = "ask" => m.of \in Keys
         /\ m.kind = "question" => m.of \in Questions
         /\ m.kind = "agent" => m.of \in Agents
  <1>1. CASE m \in [kind : {"prompt", "tool", "stop", "stopText", "idle"} \cup Starts \cup Ends, of : {Text}]
    BY <1>1 DEF Starts, Ends
  <1>2. CASE m \in [kind : {"ask"}, of : Keys]
    BY <1>2
  <1>3. CASE m \in [kind : {"question"}, of : Questions]
    BY <1>3
  <1>4. CASE m \in [kind : {"post"}, of : Keys \cup Questions]
    BY <1>4
  <1>5. CASE m \in [kind : {"agent", "back"}, of : Agents]
    BY <1>5
  <1> QED
    BY <1>1, <1>2, <1>3, <1>4, <1>5 DEF Kinds

(* A conversation is one of the process, since the first one is no restart.*)
LEMMA ConvIs ==
  ASSUME NEW n \in 1..MaxEvents, NEW moves \in [1..n -> Kinds], Legal(moves), NEW i \in 1..n
  PROVE  Conv(moves, i) \in 1..MaxEvents
  <1> DEFINE again == {j \in 1..i : moves[j].kind = "restart"}
  <1>1. i \in Nat /\ n \in Nat /\ i <= MaxEvents /\ MaxEvents \in Nat
    BY BoundsAssumption
  <1>2. moves[1].kind # "restart"
    <2> SUFFICES ASSUME moves[1].kind = "restart" PROVE FALSE
      OBVIOUS
    <2>1. 1 \in DOMAIN moves
      BY <1>1
    <2> QED
      BY <2>1 DEF Legal, Asking
  <1>3. again \in SUBSET (2..i)
    BY <1>1, <1>2
  <1>4. IsFiniteSet(2..i) /\ Cardinality(2..i) = IF 2 > i THEN 0 ELSE i - 2 + 1
    BY <1>1, FS_Interval
  <1> HIDE DEF again
  <1>5. IsFiniteSet(again) /\ Cardinality(again) <= Cardinality(2..i)
    BY <1>3, <1>4, FS_Subset
  <1>6. Cardinality(again) \in Nat
    BY <1>5, FS_CardinalityType
  <1>7. Conv(moves, i) = 1 + Cardinality(again)
    BY DEF Conv, again
  <1> QED
    BY <1>1, <1>4, <1>5, <1>6, <1>7

LEMMA InitIInv ==
  ASSUME Init
  PROVE  IInv
  <1>1. /\ last = Len(sent) /\ clock = 0 /\ rows = <<>> /\ reqs = {} /\ seen = {}
        /\ created = 0 /\ signals = 0
    BY DEF Init
  <1>2. PICK moves \in Lives :
           sent = [i \in DOMAIN moves |-> [kind |-> moves[i].kind, of |-> moves[i].of,
                                          conv |-> Conv(moves, i)]]
    BY DEF Init
  <1>3. PICK n \in 1..MaxEvents : moves \in [1..n -> Kinds] /\ Legal(moves)
    BY DEF Lives
  <1>4. n \in Nat /\ n <= MaxEvents /\ MaxEvents \in Nat /\ MaxSteps \in Nat /\ 0 \in Time
    BY BoundsAssumption DEF Time
  <1> DEFINE hook(i) == [kind |-> moves[i].kind, of |-> moves[i].of, conv |-> Conv(moves, i)]
  <1>5. ASSUME NEW i \in 1..n PROVE hook(i) \in Hook /\ About(hook(i))
    <2>1. moves[i] \in Kinds /\ Conv(moves, i) \in 1..MaxEvents
      BY <1>3, ConvIs
    <2> QED
      BY <2>1, KindIs DEF Hook, About
  <1>6. sent = [i \in 1..n |-> hook(i)]
    BY <1>2, <1>3
  <1>7. sent \in Seq(Hook) /\ Len(sent) = n /\ \A i \in 1..n : About(sent[i])
    <2> HIDE DEF hook
    <2> QED
      BY <1>4, <1>5, <1>6
  <1>8. EventsInv
    BY <1>1, <1>4, <1>7 DEF EventsInv
  <1>9. rows \in Seq(Row) /\ Len(rows) = 0
    BY <1>1
  <1>10. RowsCounted
    <2>1. Heard = {}
      BY <1>1 DEF Heard
    <2> QED
      BY <1>1, <1>9, <2>1, FS_EmptySet DEF RowsCounted
  <1>11. RowsFit /\ OneLives /\ RequestsInv
    BY <1>1, <1>9 DEF RowsFit, OneLives, RequestsInv
  <1> QED
    BY <1>8, <1>9, <1>10, <1>11 DEF IInv

-----------------------------------------------------------------------------

(* What the theorems below all follow from: each row and its requests      *)
(* agree, whatever the order of the hooks and of the server's own steps.   *)
THEOREM SessionInvariant == Spec => []IInv
  <1>1. IInv /\ [Next]_vars => IInv'
    BY NextKeeps
  <1> QED
    BY InitIInv, <1>1, PTL DEF Spec

(* A session needs its owner exactly while a request of its own is open,   *)
(* needs_approval exactly while a permission is, and one that is over has  *)
(* none (applyHooks, requestHook and the signals).                         *)
THEOREM OwnerIsNeeded == Spec => []NeedsOwner
  <1>1. ASSUME IInv PROVE NeedsOwner
    <2>1. rows \in Seq(Row) /\ DOMAIN rows = 1..Len(rows) /\ EventsInv
      BY <1>1 DEF IInv
    <2>2. \A n \in 1..Len(rows) : Fits(n, rows[n], reqs)
      BY <1>1 DEF IInv, RowsFit
    <2>3. ASSUME NEW s \in seen PROVE s \in [event : 1..last, row : DOMAIN rows, applied : BOOLEAN]
      <3>1. s \in [event : Nat, row : Nat, applied : BOOLEAN] /\ s.event \in 1..clock /\ s.row \in 1..Len(rows)
        BY <2>1 DEF EventsInv
      <3>2. s.event \in 1..last
        BY <1>1, <2>1, <3>1, HeardIs DEF Heard
      <3> QED
        BY <2>1, <3>1, <3>2
    <2>4. clock <= last /\ last <= Len(sent) /\ created \in Time /\ signals \in 0..MaxSteps /\ reqs \subseteq Request
      BY <1>1, <2>1 DEF EventsInv, IInv, RequestsInv
    <2>5. TypeOK
      BY <2>1, <2>2, <2>3, <2>4 DEF TypeOK, Fits
    <2> QED
      BY <2>1, <2>2, <2>5 DEF NeedsOwner, Fits
  <1> QED
    BY SessionInvariant, <1>1, PTL

(* One process has one live session, however its hooks and the row that    *)
(* deckd makes for it race (resolveSession and projector.create).          *)
THEOREM SessionIsOne == Spec => []OneSession
  <1>1. ASSUME IInv PROVE OneSession
    <2> DEFINE live == {n \in DOMAIN rows : rows[n].alive}
    <2>1. DOMAIN rows = 1..Len(rows)
      BY <1>1 DEF IInv
    <2>2. \A m, n \in live : m = n
      BY <1>1, <2>1 DEF IInv, OneLives
    <2>3. OneSession <=> Cardinality(live) <= 1
      BY DEF OneSession
    <2> HIDE DEF live
    <2>4. CASE live = {}
      BY <2>3, <2>4, FS_EmptySet
    <2>5. CASE live # {}
      <3>1. PICK n \in live : TRUE
        BY <2>5
      <3>2. live = {} \cup {n}
        BY <2>2, <3>1
      <3>3. Cardinality({} \cup {n}) = 0 + 1
        <4>1. IsFiniteSet({}) /\ Cardinality({}) = 0 /\ n \notin {}
          BY FS_EmptySet
        <4> QED
          BY <4>1, FS_AddElement
      <3> QED
        BY <2>3, <3>2, <3>3
    <2> QED
      BY <2>4, <2>5
  <1> QED
    BY SessionInvariant, <1>1, PTL

(* A request that was closed stays closed and no step makes it again:      *)
(* neither a late hook nor one that is made up for (requestHook and        *)
(* reconcileRequestOpenings).                                              *)
THEOREM SettledForGood == Spec => SettledOnce
  <1> DEFINE Once == \A q \in reqs :
                        /\ ~q.open => q \in reqs'
                        /\ \A r \in reqs' \ reqs : r.open => <<r.row, r.key, r.at>> # <<q.row, q.key, q.at>>
  <1>1. ASSUME IInv, [Next]_vars PROVE Once
    <2>1. PICK n, events : Turned(n, reqs, reqs', events)
      BY <1>1, NextKeeps DEF Steady
    <2> SUFFICES ASSUME NEW q \in reqs
                 PROVE  /\ ~q.open => q \in reqs'
                        /\ \A r \in reqs' \ reqs : r.open => <<r.row, r.key, r.at>> # <<q.row, q.key, q.at>>
      OBVIOUS
    <2>2. ~q.open => q \in reqs'
      BY <2>1 DEF Turned
    <2>3. ASSUME NEW r \in reqs' \ reqs, r.open PROVE ~Same(q, r)
      BY <2>1, <2>3 DEF Turned, New
    <2> QED
      BY <2>2, <2>3 DEF Same
  <1>2. Spec => [][Once]_vars
    BY SessionInvariant, <1>1, PTL DEF Spec
  <1> QED
    BY <1>2 DEF SettledOnce

-----------------------------------------------------------------------------
(* The names, the prompts and the agents of a session that lives.          *)

(* The stamp that a session's name has stood from.                         *)
Floor(row) == IF row.olds = {} THEN row.started ELSE row.replaced
Told(n) == {s \in seen : s.row = n}

(* A session goes by another conversation.                                 *)
SameNames(a, b) == a.conv = b.conv /\ a.olds = b.olds /\ a.replaced = b.replaced
Aliased(row) == row.conv = 0 \/ \E n \in DOMAIN rows : row.conv \in rows[n].olds
TakesName(new, row, conv, at) ==
  /\ new.conv = conv /\ conv # row.conv
  /\ \/ Aliased(row) /\ new.olds = row.olds /\ new.replaced = row.replaced
     \/ /\ row.conv # 0 /\ new.olds = row.olds \cup {row.conv}
        /\ new.replaced = IF at > row.replaced THEN at ELSE row.replaced
SameBirth(a, b) == a.started = b.started /\ a.mid = b.mid

LEMMA RenamedNames ==
  ASSUME NEW row \in Row, NEW conv \in 1..MaxEvents, NEW at \in Time
  PROVE  LET new == Renamed(row, conv, at) IN
         /\ SameBirth(new, row) /\ new.since = row.since /\ new.clearing = row.clearing
         /\ new.active = row.active /\ new.alive = row.alive
         /\ conv = row.conv => SameNames(new, row)
         /\ conv # row.conv => TakesName(new, row, conv, at)
  <1> DEFINE known == \E n \in DOMAIN rows : row.conv \in rows[n].olds
             olds == row.olds \cup {row.conv}
             replaced == IF at > row.replaced THEN at ELSE row.replaced
             new == Renamed(row, conv, at)
  <1>1. new = IF conv = row.conv THEN row
              ELSE IF row.conv = 0 \/ known THEN [row EXCEPT !.conv = conv]
              ELSE [row EXCEPT !.conv = conv, !.olds = olds, !.replaced = replaced]
    BY DEF Renamed
  <1>2. known <=> \E n \in DOMAIN rows : row.conv \in rows[n].olds
    OBVIOUS
  <1>3. olds = row.olds \cup {row.conv} /\ replaced = IF at > row.replaced THEN at ELSE row.replaced
    OBVIOUS
  <1> HIDE DEF known, olds, replaced, new
  <1>4. CASE conv = row.conv
    BY <1>1, <1>4 DEF SameBirth, SameNames, new
  <1>5. CASE conv # row.conv /\ (row.conv = 0 \/ known)
    <2>1. new = [row EXCEPT !.conv = conv]
      BY <1>1, <1>5
    <2>2. /\ SameBirth(new, row) /\ new.since = row.since /\ new.clearing = row.clearing
          /\ new.active = row.active /\ new.alive = row.alive
          /\ new.conv = conv /\ new.olds = row.olds /\ new.replaced = row.replaced
      BY <2>1 DEF Row, SameBirth
    <2> QED
      BY <1>2, <1>5, <2>2 DEF TakesName, Aliased, new
  <1>6. CASE conv # row.conv /\ row.conv # 0 /\ ~known
    <2>1. new = [row EXCEPT !.conv = conv, !.olds = olds, !.replaced = replaced]
      BY <1>1, <1>6
    <2>2. /\ SameBirth(new, row) /\ new.since = row.since /\ new.clearing = row.clearing
          /\ new.active = row.active /\ new.alive = row.alive
          /\ new.conv = conv /\ new.olds = olds /\ new.replaced = replaced
      BY <2>1 DEF Row, SameBirth
    <2> QED
      BY <1>3, <1>6, <2>2 DEF TakesName, new
  <1> QED
    BY <1>4, <1>5, <1>6

(* What keeps an event from naming the session.                            *)
EndsOf(n) == {Ts(j) : j \in {l \in Applied(n) : sent[l].kind \in Ends}}
Unnamed(i, n, row) ==
  \/ sent[i].conv \in row.olds
  \/ Ts(i) < Floor(row)
  \/ /\ sent[i].kind = "restart" /\ row.clearing
     /\ EndsOf(n) = {} \/ Ts(i) < Max(EndsOf(n))

Names(i, n, row, new) ==
  /\ new \in Row
  /\ SameBirth(new, row) /\ new.since = row.since /\ new.alive = row.alive
  /\ new.active = row.active /\ (new.clearing => row.clearing)
  /\ \/ SameNames(new, row) /\ (sent[i].conv = row.conv \/ Unnamed(i, n, row))
     \/ SameNames(new, row) /\ sent[i].kind \in Starts /\ Ts(i) >= row.since
     \/ /\ TakesName(new, row, sent[i].conv, Ts(i))
        /\ Ts(i) >= Floor(row) /\ sent[i].conv \notin row.olds

LEMMA IdentifiedRow ==
  ASSUME EventsInv, NEW i \in 1..last, NEW n, NEW row \in Row, row.alive = TRUE, NEW set
  PROVE  Names(i, n, row, Identified(i, n, row, set).row)
  <1> DEFINE new == Identified(i, n, row, set).row
             e == sent[i]
             ends == EndsOf(n)
             restart == e.kind = "restart" /\ row.clearing
             gone == {q \in OpenOf(n, set) : q.at < Ts(i)}
             named == Renamed(row, e.conv, Ts(i))
             stays == \/ ~row.alive \/ Obsolete(i, row)
                      \/ e.kind \in Starts /\ Ts(i) >= row.since
                      \/ restart /\ (ends = {} \/ Ts(i) < Max(ends))
                      \/ e.conv # row.conv /\ (Ts(i) < Floor(row) \/ e.conv \in row.olds)
  <1>1. e.conv \in 1..MaxEvents /\ Ts(i) \in Time
    BY HookIs
  <1>2. /\ named \in Row /\ SameBirth(named, row) /\ named.since = row.since /\ named.clearing = row.clearing
        /\ named.active = row.active /\ named.alive = row.alive
        /\ e.conv = row.conv => SameNames(named, row)
        /\ e.conv # row.conv => TakesName(named, row, e.conv, Ts(i))
    BY <1>1, RenamedIs, RenamedNames
  <1>3. new = IF stays THEN row ELSE IF restart THEN [named EXCEPT !.clearing = FALSE] ELSE named
    BY DEF Identified, Floor, EndsOf
  <1> HIDE DEF new
  <1>4. CASE stays
    <2>1. new = row
      BY <1>3, <1>4
    <2>2. \/ sent[i].conv = row.conv \/ Unnamed(i, n, row)
          \/ sent[i].kind \in Starts /\ Ts(i) >= row.since
      BY <1>4 DEF Unnamed, Obsolete
    <2> QED
      BY <2>1, <2>2 DEF SameBirth, SameNames, Names, new
  <1>5. CASE ~stays
    <2>1. e.conv # row.conv => ~(Ts(i) < Floor(row)) /\ e.conv \notin row.olds
      BY <1>5
    <2>2. Floor(row) \in Nat /\ Ts(i) \in Nat
      BY <1>1, RowIs DEF Floor, Time
    <2>3. new = [named EXCEPT !.clearing = FALSE] \/ new = named
      BY <1>3, <1>5
    <2> HIDE DEF named, stays, restart, e
    <2>4. /\ new \in Row /\ SameBirth(new, named) /\ new.since = named.since /\ (new.clearing => named.clearing)
          /\ new.active = named.active /\ new.alive = named.alive /\ SameNames(new, named)
      <3>1. CASE new = named
        BY <1>2, <3>1 DEF SameBirth, SameNames
      <3>2. CASE new = [named EXCEPT !.clearing = FALSE]
        <4>1. new \in Row
          <5>1. named \in Row
            BY <1>2
          <5> QED
            BY <3>2, <5>1 DEF Row
        <4>2. new.clearing = FALSE
          BY <1>2, <3>2 DEF Row
        <4>3. SameBirth(new, named) /\ new.since = named.since /\ new.active = named.active
          BY <1>2, <3>2 DEF Row, SameBirth
        <4>4. new.alive = named.alive /\ SameNames(new, named)
          BY <1>2, <3>2 DEF Row, SameNames
        <4> QED
          BY <4>1, <4>2, <4>3, <4>4
      <3> QED
        BY <2>3, <3>1, <3>2
    <2>5. CASE e.conv = row.conv
      BY <1>2, <2>4, <2>5 DEF SameBirth, SameNames, e, Names, new
    <2>6. CASE e.conv # row.conv
      <3>1. TakesName(new, row, e.conv, Ts(i))
        BY <1>2, <2>4, <2>6 DEF TakesName, SameNames
      <3> QED
        BY <1>2, <2>1, <2>2, <2>4, <2>6, <3>1 DEF SameBirth, e, Names, new
    <2> QED
      BY <2>5, <2>6
  <1> QED
    BY <1>4, <1>5 DEF new

LEMMA LateRow ==
  ASSUME NEW i, NEW n, NEW row \in Row, NEW set, NEW l, l = Late(i, n, row, set)
  PROVE  /\ SameBirth(l.row, row) /\ l.row.since = row.since /\ l.row.alive = row.alive
         /\ l.row.clearing = row.clearing /\ SameNames(l.row, row)
         /\ LET accepted == sent[i].kind \in {"agent", "back"} /\ Accepts(i, n, row) IN
            /\ l.row.active = IF accepted THEN Working(i, n, row) ELSE row.active
            /\ accepted => l.applied
            /\ l.applied => accepted \/ (row.alive /\ sent[i].kind \in Asking)
  <1> DEFINE e == sent[i]
             accepted == e.kind \in {"agent", "back"} /\ Accepts(i, n, row)
             active == IF accepted THEN Working(i, n, row) ELSE row.active
  <1>1. PICK state, missing, after :
           /\ l = [row |-> [row EXCEPT !.active = active, !.state = state], reqs |-> after,
                   applied |-> accepted \/ missing # {}]
           /\ missing # {} => row.alive /\ e.kind \in Asking
    BY ZenonT(60) DEF Late
  <1>2. l.row = [row EXCEPT !.active = active, !.state = state] /\ l.applied = (accepted \/ missing # {})
    BY <1>1
  <1>3. accepted => l.applied
    BY <1>2
  <1>4. l.applied => accepted \/ (row.alive /\ e.kind \in Asking)
    BY <1>1, <1>2
  <1>5. active = IF accepted THEN Working(i, n, row) ELSE row.active
    OBVIOUS
  <1> DEFINE new == l.row
  <1> HIDE DEF active, accepted, new
  <1>6. /\ SameBirth(new, row) /\ new.since = row.since /\ new.alive = row.alive
        /\ new.clearing = row.clearing /\ SameNames(new, row) /\ new.active = active
    <2>1. new = [row EXCEPT !.active = active, !.state = state]
      BY <1>2 DEF new
    <2> QED
      BY <2>1 DEF Row, SameBirth, SameNames
  <1> QED
    BY <1>3, <1>4, <1>5, <1>6 DEF accepted, new

LEMMA MovedRow ==
  ASSUME EventsInv, NEW i \in 1..last, NEW n, NEW row \in Row, NEW set, NEW changed, NEW new,
         new = Moved(i, n, row, set, changed).row
  PROVE  /\ SameBirth(new, row) /\ new.since = Ts(i)
         /\ ~new.alive => sent[i].kind = "end"
         /\ new.active = IF sent[i].kind = "restart" THEN {} ELSE row.active
         /\ new.clearing => row.clearing \/ sent[i].kind = "cleared"
         /\ \/ SameNames(new, row) /\ (sent[i].kind \in Starts => sent[i].conv = row.conv)
            \/ sent[i].kind \in Starts /\ TakesName(new, row, sent[i].conv, Ts(i))
  <1> DEFINE e == sent[i]
             over == e.kind = "end" /\ origin = "observed"
             named == IF e.kind \in Starts THEN Renamed(row, e.conv, Ts(i)) ELSE row
             active == IF e.kind = "restart" THEN {} ELSE named.active
             clearing == IF e.kind = "cleared" THEN TRUE
                         ELSE IF e.kind \in {"restart", "end"} THEN FALSE ELSE named.clearing
             ended == IF over THEN Ts(i) ELSE named.ended
             alive == ~over
  <1>1. e.conv \in 1..MaxEvents /\ Ts(i) \in Time
    BY HookIs
  <1>2. PICK state : new = [named EXCEPT !.state = state, !.since = Ts(i), !.active = active,
                                         !.clearing = clearing, !.alive = alive, !.ended = ended]
    BY ZenonT(60) DEF Moved
  <1>3. named \in Row /\ SameBirth(named, row) /\ named.active = row.active /\ named.clearing = row.clearing
    BY <1>1, RenamedIs, RenamedNames DEF SameBirth
  <1>4. \/ SameNames(named, row) /\ (e.kind \in Starts => e.conv = row.conv)
        \/ e.kind \in Starts /\ TakesName(named, row, e.conv, Ts(i))
    BY <1>1, RenamedNames DEF SameNames
  <1>5. ~alive => e.kind = "end"
    OBVIOUS
  <1>6. clearing => named.clearing \/ e.kind = "cleared"
    OBVIOUS
  <1>7. active = IF e.kind = "restart" THEN {} ELSE named.active
    OBVIOUS
  <1> HIDE DEF e, over, named, active, clearing, ended, alive
  <1>8. SameBirth(new, named) /\ new.since = Ts(i) /\ new.active = active /\ SameNames(new, named)
    <2>1. named \in Row
      BY <1>3
    <2> QED
      BY <1>2, <2>1 DEF Row, SameBirth, SameNames
  <1>9. new.clearing = clearing /\ new.alive = alive
    <2>1. named \in Row
      BY <1>3
    <2> QED
      BY <1>2, <2>1 DEF Row
  <1>10. /\ \/ SameNames(new, row) /\ (e.kind \in Starts => e.conv = row.conv)
            \/ e.kind \in Starts /\ TakesName(new, row, e.conv, Ts(i))
    BY <1>4, <1>8 DEF SameNames, TakesName
  <1>11. SameBirth(new, row)
    BY <1>3, <1>8 DEF SameBirth
  <1>12. ~new.alive => e.kind = "end"
    BY <1>5, <1>9
  <1>13. new.active = IF e.kind = "restart" THEN {} ELSE row.active
    BY <1>3, <1>7, <1>8
  <1>14. new.clearing => row.clearing \/ e.kind = "cleared"
    BY <1>3, <1>6, <1>9
  <1> QED
    BY <1>8, <1>10, <1>11, <1>12, <1>13, <1>14 DEF e

(* What agents are counted by.                                             *)
Bound(n, row) == LastOf(n, row, Starts \cup Ends)

LEMMA BirthCounts ==
  ASSUME NEW i, NEW n, NEW a, NEW b, SameBirth(a, b)
  PROVE  /\ Bound(n, a) = Bound(n, b) /\ LastOf(n, a, Starts) = LastOf(n, b, Starts)
         /\ Working(i, n, a) = Working(i, n, b)
  <1>1. LastOf(n, a, Starts \cup Ends) = LastOf(n, b, Starts \cup Ends) /\ LastOf(n, a, Starts) = LastOf(n, b, Starts)
    BY DEF LastOf, SameBirth
  <1> HIDE DEF LastOf
  <1>2. Working(i, n, a) = Working(i, n, b)
    BY <1>1 DEF Working
  <1> QED
    BY <1>1, <1>2 DEF Bound

OfAgents(i) == sent[i].kind \in {"agent", "back"}

(* What an event makes of the row of a session that lives.                 *)
Moves(i, n, old, new, applied) ==
  /\ SameBirth(new, old)
  /\ \/ new.since = old.since
     \/ new.since = Ts(i) /\ Ts(i) >= old.since
  /\ ~new.alive => sent[i].kind = "end"
  /\ \/ SameNames(new, old) /\ (sent[i].conv = old.conv \/ Unnamed(i, n, old))
     \/ /\ TakesName(new, old, sent[i].conv, Ts(i)) /\ sent[i].conv \notin old.olds
        /\ Ts(i) >= Floor(old) \/ (sent[i].kind \in Starts /\ Ts(i) >= old.since)
  /\ new.clearing => old.clearing \/ (sent[i].kind = "cleared" /\ applied)
  /\ sent[i].kind \in Asking \cup {"prompt", "post"} => Ts(i) <= new.since
  /\ OfAgents(i) /\ applied => /\ Ts(i) <= new.since /\ Ts(i) >= Bound(n, old)
                               /\ new.active = Working(i, n, old)
  /\ OfAgents(i) /\ ~applied => /\ new.active = old.active
                                /\ sent[i].conv # new.conv \/ ~(Ts(i) >= Bound(n, old))
  /\ ~OfAgents(i) => new.active = old.active \/ (sent[i].kind = "restart" /\ applied)
  /\ applied /\ sent[i].kind \in Starts \cup Ends => Ts(i) >= old.since

LEMMA OutcomeRow ==
  ASSUME EventsInv, NEW i \in 1..last, NEW n \in 1..MaxEvents + 1, NEW old \in Row, old = rows[n], old.alive = TRUE,
         reqs \subseteq Request, NEW o, o = Outcomes(i, n)
  PROVE  Moves(i, n, old, o.row, o.applied)
  <1> DEFINE e == sent[i]
             k == Identified(i, n, old, reqs)
             late == IsLate(i, old)
             l == Late(i, n, k.row, k.reqs)
             about == e.kind \in {"agent", "back"}
             accepted == Accepts(i, n, k.row)
             counted == Working(i, n, k.row)
             met == IF about /\ accepted THEN [k.row EXCEPT !.active = counted] ELSE k.row
             hooked == RequestHook(i, n, met, k.reqs, FALSE)
             changed == (hooked # k.reqs)
             m == Moved(i, n, met, hooked, changed)
             named == /\ TakesName(k.row, old, e.conv, Ts(i)) /\ Ts(i) >= Floor(old) /\ e.conv \notin old.olds
  <1>1. Ts(i) \in Nat /\ old.since \in Nat
    BY HookIs, RowIs DEF Time
  <1>2. /\ k.row \in Row
        /\ SameBirth(k.row, old) /\ k.row.since = old.since /\ k.row.alive = old.alive
        /\ k.row.active = old.active /\ (k.row.clearing => old.clearing)
        /\ \/ SameNames(k.row, old) /\ (e.conv = old.conv \/ Unnamed(i, n, old))
           \/ SameNames(k.row, old) /\ e.kind \in Starts /\ Ts(i) >= old.since
           \/ named
    <2>1. Names(i, n, old, k.row)
      BY IdentifiedRow
    <2> HIDE DEF k
    <2> QED
      BY <2>1 DEF Names
  <1>3. k.reqs \subseteq Request
    BY IdentifiedIs
  <1>4. Working(i, n, k.row) = Working(i, n, old) /\ Bound(n, k.row) = Bound(n, old)
    <2> HIDE DEF k
    <2> QED
      BY <1>2, BirthCounts
  <1>5. accepted <=> e.conv = k.row.conv /\ Ts(i) >= Bound(n, old)
    BY <1>2, <1>4 DEF Accepts, Bound
  <1>6. late <=> Obsolete(i, old) \/ Ts(i) < old.since
    BY DEF IsLate
  <1>7. about <=> OfAgents(i)
    BY DEF OfAgents
  <1>8. e.kind \in Starts \cup Ends \cup Asking \cup {"prompt", "post"} => ~about
    BY DEF Starts, Ends, Asking
  <1>9. k.row \in Row /\ counted \in SUBSET Agents
    BY <1>2, WorkingIs
  <1> HIDE DEF named
  <1>10. CASE late
    <2>1. PICK final : o = [l EXCEPT !.row.state = final]
      BY <1>10 DEF Outcomes
    <2>2. l = [row |-> l.row, reqs |-> l.reqs, applied |-> l.applied]
      BY DEF Late
    <2>3. o.row = [l.row EXCEPT !.state = final] /\ o.applied = l.applied
      BY <2>1, <2>2
    <2>4. /\ SameBirth(l.row, k.row) /\ l.row.since = k.row.since /\ l.row.alive = k.row.alive
          /\ l.row.clearing = k.row.clearing /\ SameNames(l.row, k.row)
          /\ l.row.active = IF about /\ accepted THEN Working(i, n, k.row) ELSE k.row.active
          /\ about /\ accepted => l.applied
          /\ l.applied => (about /\ accepted) \/ (k.row.alive /\ e.kind \in Asking)
      <3> HIDE DEF k
      <3> QED
        BY <1>9, LateRow
    <2>5. l.row \in Row
      <3> HIDE DEF k
      <3> QED
        BY <1>3, <1>9, LateIs
    <2> DEFINE a == l.row
               b == o.row
    <2>6. /\ SameBirth(b, a) /\ b.since = a.since /\ b.alive = a.alive
          /\ b.clearing = a.clearing /\ SameNames(b, a) /\ b.active = a.active
      <3>1. b = [a EXCEPT !.state = final] /\ a \in Row
        BY <2>3, <2>5
      <3> HIDE DEF a, b
      <3> QED
        BY <3>1 DEF Row, SameBirth, SameNames
    <2> HIDE DEF k, l, late, about, accepted, counted, met, hooked, changed, m
    <2>7. SameBirth(o.row, old) /\ o.row.since = old.since /\ o.row.alive = old.alive
      BY <1>2, <2>4, <2>6 DEF SameBirth
    <2>8. SameNames(o.row, k.row)
      BY <2>4, <2>6 DEF SameNames
    <2>9. \/ SameNames(o.row, old) /\ (e.conv = old.conv \/ Unnamed(i, n, old))
          \/ /\ TakesName(o.row, old, e.conv, Ts(i)) /\ e.conv \notin old.olds /\ Ts(i) >= Floor(old)
      <3>1. CASE SameNames(k.row, old) /\ (e.conv = old.conv \/ Unnamed(i, n, old))
        BY <2>8, <3>1 DEF SameNames
      <3>2. CASE SameNames(k.row, old) /\ e.kind \in Starts /\ Ts(i) >= old.since
        <4>1. Obsolete(i, old)
          BY <1>1, <1>6, <1>10, <3>2
        <4> QED
          BY <2>8, <3>2, <4>1 DEF SameNames, Obsolete, Unnamed
      <3>3. CASE named
        BY <2>8, <3>3 DEF SameNames, TakesName, named
      <3> QED
        BY <1>2, <3>1, <3>2, <3>3
    <2>10. o.row.clearing => old.clearing
      BY <1>2, <2>4, <2>6
    <2>11. e.kind \notin Starts => Ts(i) < old.since
      BY <1>6, <1>10 DEF Obsolete
    <2>12. e.kind \in Asking \cup {"prompt", "post"} => Ts(i) <= o.row.since
      BY <1>1, <2>7, <2>11 DEF Asking, Starts
    <2>13. about /\ o.applied => /\ Ts(i) <= o.row.since /\ Ts(i) >= Bound(n, old)
                                 /\ o.row.active = Working(i, n, old)
      <3> SUFFICES ASSUME about, o.applied PROVE /\ Ts(i) <= o.row.since /\ Ts(i) >= Bound(n, old)
                                                 /\ o.row.active = Working(i, n, old)
        OBVIOUS
      <3>1. accepted
        BY <1>8, <2>3, <2>4
      <3>2. e.kind \notin Starts
        BY <1>8
      <3> QED
        BY <1>1, <1>4, <1>5, <2>4, <2>6, <2>7, <2>11, <3>1, <3>2
    <2>14. about /\ ~o.applied => /\ o.row.active = old.active
                                  /\ e.conv # o.row.conv \/ ~(Ts(i) >= Bound(n, old))
      <3> SUFFICES ASSUME about, ~o.applied PROVE /\ o.row.active = old.active
                                                  /\ e.conv # o.row.conv \/ ~(Ts(i) >= Bound(n, old))
        OBVIOUS
      <3>1. ~accepted
        BY <2>3, <2>4
      <3> QED
        BY <1>2, <1>5, <2>4, <2>6, <2>8, <3>1 DEF SameNames
    <2>15. ~about => o.row.active = old.active
      BY <1>2, <2>4, <2>6
    <2>16. o.applied => e.kind \notin Starts \cup Ends
      BY <1>8, <2>3, <2>4 DEF Starts, Ends, Asking
    <2> QED
      BY <1>7, <2>7, <2>9, <2>10, <2>12, <2>13, <2>14, <2>15, <2>16 DEF Moves
  <1>11. CASE ~late
    <2>1. Ts(i) >= old.since /\ ~Obsolete(i, old)
      BY <1>1, <1>6, <1>11
    <2>2. met \in Row /\ SameBirth(met, k.row) /\ SameNames(met, k.row)
          /\ met.since = k.row.since /\ met.alive = k.row.alive /\ met.clearing = k.row.clearing
          /\ met.active = IF about /\ accepted THEN counted ELSE k.row.active
      <3> DEFINE row == k.row
      <3>1. CASE about /\ accepted
        <4>1. met = [row EXCEPT !.active = counted] /\ row \in Row /\ counted \in SUBSET Agents
          BY <1>9, <3>1
        <4> HIDE DEF met, row, counted
        <4> QED
          BY <3>1, <4>1 DEF Row, SameBirth, SameNames, row
      <3>2. CASE ~(about /\ accepted)
        <4>1. met = k.row
          BY <3>2
        <4> HIDE DEF met, k
        <4> QED
          BY <1>9, <3>2, <4>1 DEF SameBirth, SameNames
      <3> QED
        BY <3>1, <3>2
    <2>3. /\ SameBirth(met, old) /\ met.since = old.since /\ met.alive = old.alive
          /\ met.clearing => old.clearing
      BY <1>2, <2>2 DEF SameBirth
    <2>4. \/ SameNames(met, old) /\ (e.conv = old.conv \/ Unnamed(i, n, old))
          \/ SameNames(met, old) /\ e.kind \in Starts
          \/ TakesName(met, old, e.conv, Ts(i)) /\ Ts(i) >= Floor(old) /\ e.conv \notin old.olds
      BY <1>2, <2>2 DEF SameNames, TakesName, named
    <2>5. CASE (about /\ ~accepted) \/ Ignores(i, met, k.reqs, n)
      <3>1. o.row = met /\ o.applied = (~about \/ accepted)
        BY <1>11, <2>5 DEF Outcomes
      <3>2. e.kind \in {"agent", "back", "stop", "stopText", "idle"}
        BY <2>5 DEF Ignores
      <3>3. about => ~accepted /\ ~o.applied
        BY <2>5, <3>1 DEF Ignores
      <3> HIDE DEF k, l, late, accepted, counted, met, hooked, changed, m
      <3>4. about => o.row.active = old.active /\ (e.conv # o.row.conv \/ ~(Ts(i) >= Bound(n, old)))
        BY <1>2, <1>5, <2>2, <3>1, <3>3 DEF SameNames
      <3>5. ~about => o.row.active = old.active
        BY <1>2, <2>2, <3>1
      <3>6. e.kind \notin Starts \cup Ends \cup Asking \cup {"prompt", "post"}
        BY <3>2 DEF Starts, Ends, Asking
      <3> HIDE DEF e, about
      <3> QED
        BY <1>7, <2>3, <2>4, <3>1, <3>3, <3>4, <3>5, <3>6 DEF e, Moves
    <2>6. CASE ~((about /\ ~accepted) \/ Ignores(i, met, k.reqs, n))
      <3>1. o.row = m.row /\ o.applied = TRUE
        BY <1>11, <2>6 DEF Outcomes
      <3>2. about => accepted
        BY <2>6
      <3> HIDE DEF k, l, late, accepted, counted, met, hooked, changed
      <3>3. /\ SameBirth(m.row, met) /\ m.row.since = Ts(i)
            /\ ~m.row.alive => sent[i].kind = "end"
            /\ m.row.active = IF sent[i].kind = "restart" THEN {} ELSE met.active
            /\ m.row.clearing => met.clearing \/ sent[i].kind = "cleared"
            /\ \/ SameNames(m.row, met) /\ (sent[i].kind \in Starts => sent[i].conv = met.conv)
               \/ sent[i].kind \in Starts /\ TakesName(m.row, met, sent[i].conv, Ts(i))
        BY <2>2, MovedRow
      <3> HIDE DEF m
      <3>4. SameBirth(o.row, old) /\ o.row.since = Ts(i) /\ Ts(i) >= old.since
        BY <2>1, <2>3, <3>1, <3>3 DEF SameBirth
      <3>5. \/ SameNames(o.row, old) /\ (e.conv = old.conv \/ Unnamed(i, n, old))
            \/ /\ TakesName(o.row, old, e.conv, Ts(i)) /\ e.conv \notin old.olds
               /\ Ts(i) >= Floor(old) \/ (e.kind \in Starts /\ Ts(i) >= old.since)
        <4>1. CASE e.kind \in Starts
          <5>1. e.conv \notin old.olds
            BY <2>1, <4>1 DEF Obsolete
          <5>2. CASE SameNames(met, old)
            BY <2>1, <3>1, <3>3, <4>1, <5>1, <5>2 DEF SameNames, TakesName, Aliased
          <5>3. CASE TakesName(met, old, e.conv, Ts(i)) /\ Ts(i) >= Floor(old) /\ e.conv \notin old.olds
            <6>1. SameNames(m.row, met)
              BY <3>3, <5>3 DEF TakesName
            <6> QED
              BY <3>1, <5>3, <6>1 DEF TakesName, SameNames
          <5> QED
            BY <2>4, <5>2, <5>3
        <4>2. CASE e.kind \notin Starts
          <5>1. SameNames(o.row, met)
            BY <3>1, <3>3, <4>2
          <5> QED
            BY <2>4, <4>2, <5>1 DEF SameNames, TakesName
        <4> QED
          BY <4>1, <4>2
      <3>6. about => Ts(i) <= o.row.since /\ Ts(i) >= Bound(n, old) /\ o.row.active = Working(i, n, old)
        <4> SUFFICES ASSUME about
                     PROVE  Ts(i) <= o.row.since /\ Ts(i) >= Bound(n, old) /\ o.row.active = Working(i, n, old)
          OBVIOUS
        <4>1. accepted /\ e.kind # "restart"
          BY <3>2
        <4>2. o.row.active = met.active
          BY <3>1, <3>3, <4>1
        <4>3. met.active = counted
          BY <2>2, <4>1
        <4> QED
          BY <1>1, <1>4, <1>5, <3>4, <4>1, <4>2, <4>3 DEF counted
      <3>7. ~about => o.row.active = old.active \/ e.kind = "restart"
        BY <1>2, <2>2, <3>1, <3>3
      <3>8. o.row.clearing => old.clearing \/ e.kind = "cleared"
        BY <2>3, <3>1, <3>3
      <3>9. o.applied = TRUE /\ (~o.row.alive => e.kind = "end") /\ Ts(i) <= o.row.since
        BY <1>1, <3>1, <3>3
      <3> HIDE DEF e, about
      <3> QED
        BY <1>7, <2>1, <3>4, <3>5, <3>6, <3>7, <3>8, <3>9 DEF e, Moves
    <2> QED
      BY <2>5, <2>6
  <1> QED
    BY <1>10, <1>11

-----------------------------------------------------------------------------
(* What an event makes of the prompts that are open.                       *)

Answers(i, q) ==
  q.at <= Ts(i) /\ (sent[i].kind = "prompt" \/ (sent[i].kind = "post" /\ sent[i].of = q.key))

LEMMA IdentifiedReqs ==
  ASSUME EventsInv, NEW i \in 1..last, NEW n, NEW row, NEW set, set \subseteq Request
  PROVE  \A q \in OpenOf(n, set) : \/ q \in OpenOf(n, Identified(i, n, row, set).reqs)
                                   \/ sent[i].kind = "restart" /\ q.at < Ts(i)
  <1> DEFINE gone == {q \in OpenOf(n, set) : q.at < Ts(i)}
             left == (set \ gone) \cup Closed(gone)
             k == Identified(i, n, row, set)
  <1>1. \/ k.reqs = set
        \/ k.reqs = left /\ sent[i].kind = "restart"
    BY DEF Identified
  <1>2. gone \subseteq OpenOf(n, set) /\ left = (set \ gone) \cup Closed(gone)
        /\ \A q \in gone : q.at < Ts(i)
    OBVIOUS
  <1> HIDE DEF gone, left, k
  <1>3. OpenOf(n, left) = OpenOf(n, set) \ gone
    BY <1>2, ClosingIs
  <1> QED
    BY <1>1, <1>2, <1>3 DEF k

(* What a late event leaves open: what was open, and what is made up for.  *)
LateLeaves(i, n, row, set, new) ==
  /\ \A q \in OpenOf(n, new) : \/ q \in OpenOf(n, set) /\ ~Answers(i, q)
                               \/ sent[i].kind \in Asking /\ q \in Missing(i, n, row, set)
  /\ \A q \in OpenOf(n, set) : q \in OpenOf(n, new) \/ q.key = Text \/ Answers(i, q)
  /\ sent[i].kind \in Asking => Missing(i, n, row, set) \subseteq OpenOf(n, new)

LEMMA LateReqs ==
  ASSUME EventsInv, NEW i \in 1..last, NEW n \in 1..MaxEvents + 1, NEW row \in Row, row.alive = TRUE,
         NEW set, set \subseteq Request
  PROVE  LateLeaves(i, n, row, set, Late(i, n, row, set).reqs)
  <1> DEFINE e == sent[i]
             missing == IF row.alive /\ e.kind \in Asking THEN Missing(i, n, row, set) ELSE {}
             texts == {q \in OpenOf(n, set) : q.key = Text /\
                          \E m \in missing : m.key \in Questions /\ q.at <= m.at}
             shut == (set \ texts) \cup Closed(texts)
             opened == shut \cup missing
             about == e.kind \in {"agent", "back"}
             accepted == about /\ Accepts(i, n, row)
             settles == row.alive /\ e.kind \in Resumed /\ (about => accepted)
             after == IF settles THEN RequestHook(i, n, row, opened, TRUE) ELSE opened
             new == Late(i, n, row, set).reqs
             closed == ClosedBy(i, n, opened, TRUE)
  <1>1. new = after
    BY DEF Late
  <1>2. /\ missing = IF e.kind \in Asking THEN Missing(i, n, row, set) ELSE {}
        /\ texts \subseteq OpenOf(n, set) /\ \A q \in texts : q.key = Text
        /\ shut = (set \ texts) \cup Closed(texts) /\ opened = shut \cup missing
        /\ after = IF settles THEN RequestHook(i, n, row, opened, TRUE) ELSE opened
    OBVIOUS
  <1>3. e.kind \in {"prompt", "post"} => settles
    BY DEF Resumed
  <1>4. \A q \in opened : q \in closed => q.key = Text \/ Answers(i, q)
    BY DEF ClosedBy, Answers
  <1>5. \A q \in OpenOf(n, opened) : Answers(i, q) => q \in closed
    BY DEF ClosedBy, Answers, Resumed
  <1>6. \A q \in missing : q \in Request /\ q.row = n /\ q.open /\ q.key # Text
    <2>1. missing = {} \/ missing = Missing(i, n, row, set)
      OBVIOUS
    <2> HIDE DEF missing
    <2> QED
      BY <2>1, MissingIs
  <1>7. closed \subseteq OpenOf(n, opened)
    BY ClosedByIs
  <1>13. closed = ClosedBy(i, n, opened, TRUE)
    OBVIOUS
  <1> HIDE DEF missing, texts, shut, opened, settles, after, new, closed
  <1>8. shut \subseteq Request /\ OpenOf(n, shut) = OpenOf(n, set) \ texts
    <2>1. OpenOf(n, shut) = OpenOf(n, set) \ texts
      BY <1>2, ClosingIs
    <2>2. shut \subseteq Request
      BY <1>2, ClosingIs
    <2> QED
      BY <2>1, <2>2
  <1>9. opened \subseteq Request /\ OpenOf(n, opened) = (OpenOf(n, set) \ texts) \cup missing
    <2>1. OpenOf(n, opened) = OpenOf(n, shut) \cup missing
      <3>1. opened = shut \cup missing /\ \A q \in missing : q.row = n /\ q.open
        BY <1>2, <1>6
      <3> QED
        BY <3>1, OpeningOpens
    <2> QED
      BY <1>2, <1>6, <1>8, <2>1
  <1>10. OpenOf(n, new) = IF settles THEN OpenOf(n, opened) \ closed ELSE OpenOf(n, opened)
    <2>1. CASE settles
      <3>1. OpenOf(n, RequestHook(i, n, row, opened, TRUE)) = (OpenOf(n, opened) \ closed) \cup Opened(i, n, row, opened, TRUE)
        BY <1>9, <1>13, RequestHookIs
      <3>2. Opened(i, n, row, opened, TRUE) = {}
        BY OpenedIs
      <3> QED
        BY <1>1, <1>2, <2>1, <3>1, <3>2
    <2>2. CASE ~settles
      BY <1>1, <1>2, <2>2
    <2> QED
      BY <2>1, <2>2
  <1>11. \A q \in OpenOf(n, new) : q \in OpenOf(n, opened) /\ ~Answers(i, q)
    BY <1>3, <1>5, <1>10 DEF Answers
  <1>12. \A q \in OpenOf(n, opened) : q \in OpenOf(n, new) \/ q.key = Text \/ Answers(i, q)
    BY <1>4, <1>10 DEF OpenOf
  <1>14. ASSUME NEW q \in OpenOf(n, new)
         PROVE  \/ q \in OpenOf(n, set) /\ ~Answers(i, q)
                \/ sent[i].kind \in Asking /\ q \in Missing(i, n, row, set)
    BY <1>2, <1>9, <1>11
  <1>15. ASSUME NEW q \in OpenOf(n, set) PROVE q \in OpenOf(n, new) \/ q.key = Text \/ Answers(i, q)
    BY <1>2, <1>9, <1>12
  <1>16. ASSUME sent[i].kind \in Asking, NEW q \in Missing(i, n, row, set) PROVE q \in OpenOf(n, new)
    <2>1. q \in missing /\ q.key # Text
      BY <1>2, <1>6, <1>16
    <2>2. ~Answers(i, q)
      BY <1>16 DEF Answers, Asking
    <2> QED
      BY <1>9, <1>12, <2>1, <2>2
  <1> QED
    BY <1>14, <1>15, <1>16 DEF LateLeaves, new

(* What an event that is not late leaves open.                             *)
Leaves(i, n, row, set, new) ==
  /\ \A q \in OpenOf(n, new) : (q \in OpenOf(n, set) /\ ~Answers(i, q)) \/ q.at = Ts(i)
  /\ \A q \in OpenOf(n, set) : \/ q \in OpenOf(n, new) \/ q.key = Text \/ Answers(i, q)
                               \/ sent[i].kind \in Starts \cup {"idle", "end"}
  /\ sent[i].kind \in Asking =>
        \E q \in OpenOf(n, new) : q.at = Ts(i) /\ q.key = sent[i].of

LEMMA MovedReqs ==
  ASSUME EventsInv, NEW i \in 1..last, NEW n \in 1..MaxEvents + 1, NEW row, NEW met, NEW set, set \subseteq Request,
         \A q \in set : q.at # Ts(i), NEW changed
  PROVE  Leaves(i, n, row, set, Moved(i, n, row, RequestHook(i, n, met, set, FALSE), changed).reqs)
  <1> DEFINE e == sent[i]
             hooked == RequestHook(i, n, met, set, FALSE)
             over == e.kind = "end" /\ origin = "observed"
             gone == over \/ (e.kind \in Starts /\ e.conv # row.conv)
             closed == ClosedBy(i, n, set, FALSE)
             opened == Opened(i, n, met, set, FALSE)
             open == OpenOf(n, hooked)
             left == IF gone THEN (hooked \ open) \cup Closed(open) ELSE hooked
             new == Moved(i, n, row, hooked, changed).reqs
  <1>1. new = left
    BY DEF Moved
  <1>2. hooked \subseteq Request /\ open = (OpenOf(n, set) \ closed) \cup opened
    <2>1. i \in {i}
      OBVIOUS
    <2>2. open = (OpenOf(n, set) \ closed) \cup opened
      BY <2>1, RequestHookIs
    <2>3. RequestHook(i, n, met, set, FALSE) \subseteq Request
      BY <2>1, RequestHookIs
    <2> QED
      BY <2>2, <2>3
  <1>3. OpenOf(n, left) = IF gone THEN {} ELSE open
    <2>1. CASE gone
      <3> DEFINE shut == (hooked \ open) \cup Closed(open)
      <3>1. left = shut /\ open \subseteq OpenOf(n, hooked) /\ shut = (hooked \ open) \cup Closed(open)
        BY <2>1
      <3>2. OpenOf(n, shut) = OpenOf(n, hooked) \ open
        <4>1. hooked \subseteq Request /\ open \subseteq OpenOf(n, hooked) /\ shut = (hooked \ open) \cup Closed(open)
          BY <1>2
        <4> HIDE DEF shut, open, hooked
        <4> QED
          BY <4>1, ClosingIs
      <3> QED
        BY <2>1, <3>1, <3>2
    <2>2. CASE ~gone
      BY <2>2
    <2> QED
      BY <2>1, <2>2
  <1>4. gone => e.kind \in Starts \cup {"end"}
    OBVIOUS
  <1>5. /\ \A q \in OpenOf(n, set) : Answers(i, q) => q \in closed
        /\ \A q \in closed : q.key = Text \/ Answers(i, q) \/ e.kind = "idle"
    BY DEF ClosedBy, Answers
  <1>6. \A q \in opened : q.at = Ts(i)
    <2> DEFINE late == FALSE
    <2> HIDE DEF late
    <2>1. \A q \in Opened(i, n, met, set, late) : q.row = n /\ q.open /\ q.at = Ts(i)
      BY OpenedIs
    <2> QED
      BY <2>1 DEF late
  <1>7. e.kind \in Asking => \E q \in opened : q.at = Ts(i) /\ q.key = e.of
    <2> DEFINE q == [row |-> n, key |-> e.of, at |-> Ts(i), open |-> TRUE]
    <2>1. e.kind \in Asking => q \in opened
      BY DEF Opened
    <2>2. q.at = Ts(i) /\ q.key = e.of
      OBVIOUS
    <2> QED
      BY <2>1, <2>2
  <1> HIDE DEF new, left, gone, over, closed, opened, open, hooked
  <1>8. ASSUME NEW q \in OpenOf(n, new) PROVE (q \in OpenOf(n, set) /\ ~Answers(i, q)) \/ q.at = Ts(i)
    BY <1>1, <1>2, <1>3, <1>5, <1>6
  <1>9. ASSUME NEW q \in OpenOf(n, set)
        PROVE  \/ q \in OpenOf(n, new) \/ q.key = Text \/ Answers(i, q)
               \/ e.kind \in Starts \cup {"idle", "end"}
    BY <1>1, <1>2, <1>3, <1>4, <1>5
  <1>10. e.kind \in Asking => \E q \in OpenOf(n, new) : q.at = Ts(i) /\ q.key = e.of
    BY <1>1, <1>2, <1>3, <1>4, <1>7 DEF Asking, Starts
  <1> QED
    BY <1>8, <1>9, <1>10 DEF Leaves, new, hooked

LEMMA AppliedIs ==
  ASSUME EventsInv, NEW n
  PROVE  Applied(n) \subseteq 1..last /\ \A j \in Applied(n) : \E s \in Told(n) : s.event = j /\ s.applied
  <1>1. clock \in Nat /\ last \in Nat /\ clock <= last
    BY DEF EventsInv
  <1>2. \A s \in seen : s.event \in 1..clock
    BY DEF EventsInv
  <1> QED
    BY <1>1, <1>2 DEF Applied, Told

(* The greatest of a set of stamps is one of them.                         *)
LEMMA MaxIs ==
  ASSUME NEW S \in SUBSET Time, S # {}
  PROVE  Max(S) \in S /\ \A t \in S : t <= Max(S)
  <1>1. 2 * MaxEvents + 1 \in Nat /\ S \in SUBSET (0..2 * MaxEvents + 1)
    BY BoundsAssumption DEF Time
  <1>2. PICK m \in S : \A t \in S : t <= m
    BY <1>1, GreatestIs
  <1>3. \A t \in S : m >= t
    BY <1>1, <1>2
  <1>4. \E x \in S : \A t \in S : x >= t
    BY <1>3
  <1>5. Max(S) \in S /\ \A t \in S : Max(S) >= t
    BY <1>4 DEF Max
  <1> QED
    BY <1>1, <1>5

LEMMA LastOfIs ==
  ASSUME EventsInv, NEW n, NEW row \in Row, NEW kinds
  PROVE  /\ LastOf(n, row, kinds) \in Time
         /\ \A j \in Applied(n) : sent[j].kind \in kinds => Ts(j) <= LastOf(n, row, kinds)
         /\ \/ LastOf(n, row, kinds) = IF row.mid THEN 0 ELSE row.started
            \/ \E j \in Applied(n) : sent[j].kind \in kinds /\ LastOf(n, row, kinds) = Ts(j)
  <1> DEFINE S == {IF row.mid THEN 0 ELSE row.started} \cup {Ts(i) : i \in {j \in Applied(n) : sent[j].kind \in kinds}}
  <1>1. S \in SUBSET Time /\ S # {}
    <2>1. \A j \in Applied(n) : Ts(j) \in Time
      BY AppliedIs, HookIs
    <2>2. row.started \in Time /\ 0 \in Time
      BY RowIs, BoundsAssumption DEF Time
    <2> QED
      BY <2>1, <2>2
  <1>2. LastOf(n, row, kinds) = Max(S)
    BY DEF LastOf
  <1>3. Max(S) \in S /\ \A t \in S : t <= Max(S)
    <2> HIDE DEF S
    <2> QED
      BY <1>1, MaxIs
  <1> DEFINE m == Max(S)
  <1>4. m \in S /\ (\A t \in S : t <= m) /\ LastOf(n, row, kinds) = m
    BY <1>2, <1>3
  <1> HIDE DEF m
  <1> QED
    BY <1>1, <1>4

(* The events that row n is told of, with event i.                         *)
Hears(n, i) == {s.event : s \in Told(n)} \cup {i}

(* A prompt that is made up for is one that nothing known has settled.     *)
MadeUp(i, n, q) ==
  \E j \in Hears(n, i) :
    /\ q.at = Ts(j) /\ q.key = sent[j].of
    /\ \A l \in Hears(n, i) : l > j /\ sent[l].conv = sent[j].conv => ~Settles(sent[l], sent[j])

LEMMA MissingMadeUp ==
  ASSUME EventsInv, NEW i \in 1..last, NEW n, NEW row \in Row, NEW set, NEW q \in Missing(i, n, row, set)
  PROVE  MadeUp(i, n, q)
  <1> DEFINE from == LastOf(n, row, Starts)
             known == {j \in History(n, from) \cup {i} : sent[j].conv = row.conv}
  <1>1. /\ ~(Ts(i) < from) /\ sent[i].conv = row.conv
        /\ \E j \in known : /\ \A l \in known : l > j => ~Settles(sent[l], sent[j])
                            /\ q = [row |-> n, key |-> sent[j].of, at |-> Ts(j), open |-> TRUE]
    BY DEF Missing
  <1>2. PICK j \in known : /\ \A l \in known : l > j => ~Settles(sent[l], sent[j])
                           /\ q = [row |-> n, key |-> sent[j].of, at |-> Ts(j), open |-> TRUE]
    BY <1>1
  <1>3. j \in Hears(n, i) /\ sent[j].conv = row.conv /\ (j = i \/ Ts(j) >= from)
    BY DEF Hears, Told, History
  <1>4. q.at = Ts(j) /\ q.key = sent[j].of
    BY <1>2
  <1>5. ASSUME NEW l \in Hears(n, i), l > j, sent[l].conv = sent[j].conv
        PROVE  ~Settles(sent[l], sent[j])
    <2>1. CASE l = i
      BY <1>2, <1>3, <1>5, <2>1
    <2>2. CASE l # i
      <3>1. PICK s \in seen : s.row = n /\ s.event = l
        BY <1>5, <2>2 DEF Hears, Told
      <3>2. Ts(l) >= from
        <4> DEFINE kinds == Starts
                   at == LastOf(n, row, kinds)
        <4> HIDE DEF kinds
        <4>1. at \in Time
          BY LastOfIs
        <4> HIDE DEF at
        <4>2. at \in Nat /\ i \in Nat
          BY <4>1, HookIs DEF Time
        <4>3. l \in Nat /\ j \in Nat
          BY <1>3, <3>1, <4>2 DEF EventsInv, Hears, Told
        <4>4. at = from
          BY DEF at, kinds
        <4> HIDE DEF from
        <4>5. ~(Ts(i) < at) /\ (j = i \/ Ts(j) >= at)
          BY <1>1, <1>3, <4>4
        <4>6. Ts(j) >= at
          BY <4>2, <4>3, <4>5 DEF Ts
        <4> QED
          BY <1>5, <4>2, <4>3, <4>4, <4>6 DEF Ts
      <3>3. l \in History(n, from)
        BY <3>1, <3>2 DEF History
      <3>4. l \in known
        BY <1>3, <1>5, <3>3
      <3> QED
        BY <1>2, <1>5, <3>4
    <2> QED
      BY <2>1, <2>2
  <1> QED
    BY <1>3, <1>4, <1>5 DEF MadeUp

LEMMA MissingOpens ==
  ASSUME EventsInv, NEW i \in 1..last, NEW n, NEW row, NEW set, \A q \in set : q.at # Ts(i),
         sent[i].kind \in Asking
  PROVE  \/ \E q \in Missing(i, n, row, set) : q.at = Ts(i) /\ q.key = sent[i].of
         \/ sent[i].conv # row.conv
         \/ Ts(i) < LastOf(n, row, Starts)
         \/ \E l \in Hears(n, i) : l > i /\ Settles(sent[l], sent[i])
  <1> DEFINE from == LastOf(n, row, Starts)
             known == {j \in History(n, from) \cup {i} : sent[j].conv = row.conv}
             q == [row |-> n, key |-> sent[i].of, at |-> Ts(i), open |-> TRUE]
  <1> SUFFICES ASSUME sent[i].conv = row.conv, ~(Ts(i) < from),
                      \A l \in Hears(n, i) : l > i => ~Settles(sent[l], sent[i])
               PROVE  q \in Missing(i, n, row, set) /\ q.at = Ts(i) /\ q.key = sent[i].of
    OBVIOUS
  <1>1. known \subseteq Hears(n, i)
    BY DEF History, Hears, Told
  <1>2. i \in known
    OBVIOUS
  <1>3. ~\E p \in set : p.row = n /\ p.key = sent[i].of /\ p.at = Ts(i)
    OBVIOUS
  <1> DEFINE waiting == {j \in known : /\ sent[j].kind \in Asking
                                       /\ \A l \in known : l > j => ~Settles(sent[l], sent[j])}
             made == {[row |-> n, key |-> sent[j].of, at |-> Ts(j), open |-> TRUE] :
                        j \in {w \in waiting : ~\E p \in set :
                                 p.row = n /\ p.key = sent[w].of /\ p.at = Ts(w)}}
  <1>4. i \in waiting
    BY <1>1, <1>2
  <1>5. q \in made
    BY <1>3, <1>4
  <1>6. Missing(i, n, row, set) = made
    BY DEF Missing
  <1> QED
    BY <1>5, <1>6

(* What an event makes of the prompts of the session it reaches.           *)
Prompts(i, n, old, o) ==
  /\ \A q \in OpenOf(n, o.reqs) : \/ q \in OpenOf(n, reqs) /\ ~Answers(i, q)
                                  \/ q.at = Ts(i) /\ Ts(i) >= old.since
                                  \/ MadeUp(i, n, q)
  /\ \A q \in OpenOf(n, reqs) : \/ q.key = Text \/ q \in OpenOf(n, o.reqs) \/ Answers(i, q)
                                \/ sent[i].kind = "restart" /\ q.at < Ts(i)
                                \/ sent[i].kind \in Starts \cup {"idle"} /\ Ts(i) >= old.since
                                \/ sent[i].kind = "end"
  /\ sent[i].kind \in Asking =>
        \/ \E q \in OpenOf(n, o.reqs) : q.at = Ts(i) /\ q.key = sent[i].of
        \/ sent[i].conv # o.row.conv
        \/ Ts(i) < LastOf(n, old, Starts)
        \/ \E l \in Hears(n, i) : l > i /\ Settles(sent[l], sent[i])

(* No request is older than the event it was opened by.                    *)
LEMMA NotYet ==
  ASSUME EventsInv, RequestsInv, NEW i \in 1..last, i \notin Heard, NEW set, NEW n, NEW events,
         events \subseteq Heard, Turned(n, reqs, set, events)
  PROVE  \A q \in set : q.at # Ts(i)
  <1> SUFFICES ASSUME NEW q \in set, q.at = Ts(i) PROVE FALSE
    OBVIOUS
  <1>1. \E j \in Heard : q.at = Ts(j)
    <2>1. CASE \E p \in reqs : p.at = q.at
      BY <2>1 DEF RequestsInv, Heard
    <2>2. CASE \E j \in events : q.at = Ts(j)
      BY <2>2
    <2> QED
      BY <2>1, <2>2 DEF Turned, Same
  <1>2. PICK j \in Heard : q.at = Ts(j)
    BY <1>1
  <1>3. j \in Nat /\ i \in Nat
    BY <1>2 DEF EventsInv, Heard
  <1> QED
    BY <1>2, <1>3, TimesDiffer

LEMMA OutcomeReqs ==
  ASSUME EventsInv, RequestsInv, NEW i \in 1..last, i \notin Heard, NEW n \in 1..MaxEvents + 1,
         NEW old \in Row, old = rows[n], old.alive = TRUE, NEW o, o = Outcomes(i, n)
  PROVE  Prompts(i, n, old, o)
  <1> DEFINE e == sent[i]
             k == Identified(i, n, old, reqs)
             kr == k.row
             ks == k.reqs
             late == IsLate(i, old)
             l == Late(i, n, kr, ks)
             about == e.kind \in {"agent", "back"}
             accepted == Accepts(i, n, kr)
             met == IF about /\ accepted THEN [kr EXCEPT !.active = Working(i, n, kr)] ELSE kr
             hooked == RequestHook(i, n, met, ks, FALSE)
             changed == (hooked # ks)
             m == Moved(i, n, met, hooked, changed)
  <1>1. Ts(i) \in Nat /\ old.since \in Nat /\ reqs \subseteq Request
    BY HookIs, RowIs DEF Time, RequestsInv
  <1>2. kr \in Row /\ SameBirth(kr, old) /\ kr.alive = old.alive
    <2>1. Names(i, n, old, k.row)
      BY IdentifiedRow
    <2> HIDE DEF k
    <2> QED
      BY <2>1 DEF Names
  <1>3. /\ ks \subseteq Request /\ Turned(n, reqs, ks, {}) /\ OpenOf(n, ks) \subseteq OpenOf(n, reqs)
        /\ ks # reqs => e.kind = "restart"
    <2>1. ks \subseteq Request /\ Turned(n, reqs, ks, {}) /\ OpenOf(n, ks) \subseteq OpenOf(n, reqs)
      BY <1>1, IdentifiedIs
    <2>2. k.reqs = reqs \/ e.kind = "restart"
      BY <1>1 DEF Identified
    <2> QED
      BY <2>1, <2>2
  <1>4. \A q \in OpenOf(n, reqs) : q \in OpenOf(n, ks) \/ (e.kind = "restart" /\ q.at < Ts(i))
    BY <1>1, IdentifiedReqs
  <1>5. \A q \in ks : q.at # Ts(i)
    <2> DEFINE events == {}
    <2>1. Turned(n, reqs, ks, events) /\ events \subseteq Heard
      BY <1>3
    <2> HIDE DEF events, ks
    <2> QED
      BY <2>1, NotYet
  <1>6. late <=> Obsolete(i, old) \/ Ts(i) < old.since
    BY DEF IsLate
  <1>7. LastOf(n, kr, Starts) = LastOf(n, old, Starts)
    <2> HIDE DEF kr
    <2> QED
      BY <1>2, BirthCounts
  <1>8. CASE late
    <2>1. PICK final : o = [l EXCEPT !.row.state = final]
      BY <1>8 DEF Outcomes
    <2>2. l = [row |-> l.row, reqs |-> l.reqs, applied |-> l.applied]
      BY DEF Late
    <2>3. o.row = [l.row EXCEPT !.state = final] /\ o.reqs = l.reqs
      BY <2>1, <2>2
    <2>4. LateLeaves(i, n, kr, ks, l.reqs)
      <3> HIDE DEF kr, ks
      <3> QED
        BY <1>2, <1>3, LateReqs
    <2>5. l.row \in Row /\ SameNames(l.row, kr)
      <3> HIDE DEF kr, ks
      <3>1. l.row \in Row
        BY <1>2, <1>3, LateIs
      <3>2. SameNames(l.row, kr)
        BY <1>2, LateRow
      <3> QED
        BY <3>1, <3>2
    <2>6. o.row.conv = kr.conv
      <3> DEFINE a == l.row
      <3>1. o.row = [a EXCEPT !.state = final] /\ a \in Row /\ a.conv = kr.conv
        BY <2>3, <2>5 DEF SameNames
      <3> HIDE DEF a, kr
      <3> QED
        BY <3>1 DEF Row
    <2>7. ASSUME NEW q \in Missing(i, n, kr, ks) PROVE MadeUp(i, n, q)
      <3> HIDE DEF kr, ks
      <3> QED
        BY <1>2, MissingMadeUp
    <2>8. e.kind \in Asking => \/ \E q \in Missing(i, n, kr, ks) : q.at = Ts(i) /\ q.key = e.of
                               \/ e.conv # kr.conv
                               \/ Ts(i) < LastOf(n, kr, Starts)
                               \/ \E j \in Hears(n, i) : j > i /\ Settles(sent[j], e)
      <3> HIDE DEF kr, ks
      <3> QED
        BY <1>5, MissingOpens
    <2> HIDE DEF k, kr, ks, l, late, met, hooked, changed, m, accepted
    <2>9. \A q \in OpenOf(n, o.reqs) : (q \in OpenOf(n, reqs) /\ ~Answers(i, q)) \/ MadeUp(i, n, q)
      BY <1>3, <2>3, <2>4, <2>7 DEF LateLeaves
    <2>10. \A q \in OpenOf(n, reqs) : \/ q.key = Text \/ q \in OpenOf(n, o.reqs) \/ Answers(i, q)
                                      \/ e.kind = "restart" /\ q.at < Ts(i)
      BY <1>4, <2>3, <2>4 DEF LateLeaves
    <2>11. e.kind \in Asking =>
              \/ \E q \in OpenOf(n, o.reqs) : q.at = Ts(i) /\ q.key = e.of
              \/ e.conv # o.row.conv
              \/ Ts(i) < LastOf(n, old, Starts)
              \/ \E j \in Hears(n, i) : j > i /\ Settles(sent[j], e)
      BY <1>7, <2>3, <2>4, <2>6, <2>8 DEF LateLeaves
    <2> QED
      BY <2>9, <2>10, <2>11 DEF Prompts
  <1>9. CASE ~late
    <2>1. Ts(i) >= old.since
      BY <1>1, <1>6, <1>9
    <2>2. CASE (about /\ ~accepted) \/ Ignores(i, met, ks, n)
      <3>1. o.reqs = ks
        BY <1>9, <2>2 DEF Outcomes
      <3>2. e.kind \in {"agent", "back", "stop", "stopText", "idle"}
        BY <2>2 DEF Ignores
      <3>3. o.reqs = reqs
        BY <1>3, <3>1, <3>2
      <3>4. e.kind \notin Asking /\ \A q \in reqs : ~Answers(i, q)
        BY <3>2 DEF Answers, Asking
      <3> HIDE DEF k, kr, ks, l, late, met, hooked, changed, m, accepted
      <3> QED
        BY <3>3, <3>4 DEF Prompts, OpenOf
    <2>3. CASE ~((about /\ ~accepted) \/ Ignores(i, met, ks, n))
      <3>1. o.reqs = m.reqs
        BY <1>9, <2>3 DEF Outcomes
      <3> HIDE DEF k, kr, ks, l, late, met, accepted
      <3>2. Leaves(i, n, met, ks, Moved(i, n, met, RequestHook(i, n, met, ks, FALSE), changed).reqs)
        <4> HIDE DEF changed
        <4> QED
          BY <1>3, <1>5, MovedReqs
      <3>3. Leaves(i, n, met, ks, o.reqs)
        BY <3>1, <3>2
      <3> HIDE DEF hooked, changed, m
      <3>4. \A q \in OpenOf(n, o.reqs) : (q \in OpenOf(n, reqs) /\ ~Answers(i, q)) \/ q.at = Ts(i)
        BY <1>3, <3>3 DEF Leaves
      <3>5. \A q \in OpenOf(n, reqs) : \/ q.key = Text \/ q \in OpenOf(n, o.reqs) \/ Answers(i, q)
                                       \/ e.kind = "restart" /\ q.at < Ts(i)
                                       \/ e.kind \in Starts \cup {"idle", "end"}
        BY <1>4, <3>3 DEF Leaves
      <3>6. e.kind \in Asking => \E q \in OpenOf(n, o.reqs) : q.at = Ts(i) /\ q.key = e.of
        BY <3>3 DEF Leaves
      <3> QED
        BY <2>1, <3>4, <3>5, <3>6 DEF Prompts
    <2> QED
      BY <2>2, <2>3
  <1> QED
    BY <1>8, <1>9

-----------------------------------------------------------------------------
(* The order of a life.                                                    *)

LifeInv ==
  /\ \A i, j \in 1..Len(sent) : i <= j => sent[i].conv <= sent[j].conv
  /\ \A i, j \in 1..Len(sent) : i < j /\ sent[i].conv # sent[j].conv =>
        \E r \in i + 1..j : sent[r].kind = "restart"
  /\ \A i \in 1..Len(sent) : /\ sent[i].kind = "start" => i = 1
                             /\ sent[i].kind = "end" => i = Len(sent)
  /\ \A i, j \in 1..Len(sent) :
        sent[i].kind = "agent" /\ sent[j].kind = "agent" /\ sent[i].of = sent[j].of => i = j

LEMMA ConvGrows ==
  ASSUME NEW n \in Nat, NEW moves, NEW i \in 1..n, NEW j \in 1..n, i <= j
  PROVE  /\ Conv(moves, i) <= Conv(moves, j)
         /\ Conv(moves, i) # Conv(moves, j) => \E r \in i + 1..j : moves[r].kind = "restart"
  <1> DEFINE A == {r \in 1..i : moves[r].kind = "restart"}
             B == {r \in 1..j : moves[r].kind = "restart"}
  <1>1. A \subseteq B /\ B \subseteq 1..j
    OBVIOUS
  <1>2. IsFiniteSet(1..j)
    <2>1. 1 \in Int /\ j \in Int
      OBVIOUS
    <2> QED
      BY <2>1, FS_Interval
  <1>3. Conv(moves, i) = 1 + Cardinality(A) /\ Conv(moves, j) = 1 + Cardinality(B)
    BY DEF Conv
  <1>4. (~\E r \in i + 1..j : moves[r].kind = "restart") => A = B
    OBVIOUS
  <1> HIDE DEF A, B
  <1>5. IsFiniteSet(B)
    BY <1>1, <1>2, FS_Subset
  <1>6. IsFiniteSet(A) /\ Cardinality(A) <= Cardinality(B)
    BY <1>1, <1>5, FS_Subset
  <1>7. Cardinality(A) \in Nat /\ Cardinality(B) \in Nat
    BY <1>5, <1>6, FS_CardinalityType
  <1> QED
    BY <1>3, <1>4, <1>6, <1>7

LEMMA LegalIs ==
  ASSUME NEW n \in Nat, NEW moves, DOMAIN moves = 1..n, Len(moves) = n, Legal(moves), NEW i \in 1..n
  PROVE  /\ moves[i].kind = "start" => i = 1
         /\ moves[i].kind = "end" => i = n
         /\ moves[i].kind = "agent" =>
               \A j \in 1..i - 1 : ~(moves[j].kind = "agent" /\ moves[j].of = moves[i].of)
  <1>1. moves[i].kind = "start" => i = 1
    BY DEF Legal, Asking
  <1>2. moves[i].kind = "end" => i = n
    BY DEF Legal, Asking
  <1>3. moves[i].kind = "agent" =>
               \A j \in 1..i - 1 : ~(moves[j].kind = "agent" /\ moves[j].of = moves[i].of)
    BY DEF Legal, Asking
  <1> QED
    BY <1>1, <1>2, <1>3

LEMMA InitLife ==
  ASSUME Init
  PROVE  LifeInv
  <1>1. PICK moves \in Lives :
           sent = [i \in DOMAIN moves |-> [kind |-> moves[i].kind, of |-> moves[i].of,
                                          conv |-> Conv(moves, i)]]
    BY DEF Init
  <1>2. PICK n \in 1..MaxEvents : moves \in [1..n -> Kinds] /\ Legal(moves)
    BY DEF Lives
  <1>3. n \in Nat /\ DOMAIN moves = 1..n
    BY <1>2, BoundsAssumption
  <1>4. Len(moves) = n
    BY <1>2, <1>3
  <1> DEFINE conv(i) == Conv(moves, i)
  <1>5. sent = [i \in 1..n |-> [kind |-> moves[i].kind, of |-> moves[i].of, conv |-> conv(i)]]
    BY <1>1, <1>3
  <1> HIDE DEF conv
  <1>6. Len(sent) = n /\ \A i \in 1..n : sent[i].kind = moves[i].kind /\ sent[i].of = moves[i].of /\ sent[i].conv = conv(i)
    BY <1>3, <1>5
  <1>7. \A i, j \in 1..n : i <= j => /\ conv(i) <= conv(j)
                                     /\ conv(i) # conv(j) => \E r \in i + 1..j : moves[r].kind = "restart"
    BY <1>3, ConvGrows DEF conv
  <1>8. \A i \in 1..n : /\ moves[i].kind = "start" => i = 1
                        /\ moves[i].kind = "end" => i = n
                        /\ moves[i].kind = "agent" =>
                              \A j \in 1..i - 1 : ~(moves[j].kind = "agent" /\ moves[j].of = moves[i].of)
    BY <1>2, <1>3, <1>4, LegalIs
  <1>9. \A i, j \in 1..Len(sent) : i <= j => sent[i].conv <= sent[j].conv
    BY <1>6, <1>7
  <1>10. ASSUME NEW i \in 1..n, NEW j \in 1..n, i < j, sent[i].conv # sent[j].conv
         PROVE  \E r \in i + 1..j : sent[r].kind = "restart"
    <2>1. conv(i) # conv(j) /\ i <= j
      BY <1>3, <1>6, <1>10
    <2>2. PICK r \in i + 1..j : moves[r].kind = "restart"
      BY <1>7, <2>1
    <2>3. r \in 1..n
      BY <1>3
    <2> QED
      BY <1>6, <2>2, <2>3
  <1>11. \A i \in 1..n : (sent[i].kind = "start" => i = 1) /\ (sent[i].kind = "end" => i = Len(sent))
    BY <1>6, <1>8
  <1>12. ASSUME NEW i \in 1..n, NEW j \in 1..n, sent[i].kind = "agent", sent[j].kind = "agent", sent[i].of = sent[j].of
         PROVE  i = j
    <2>1. CASE i < j
      <3>1. i \in 1..j - 1
        BY <1>3, <2>1
      <3> QED
        BY <1>6, <1>8, <1>12, <3>1
    <2>2. CASE j < i
      <3>1. j \in 1..i - 1
        BY <1>3, <2>2
      <3> QED
        BY <1>6, <1>8, <1>12, <3>1
    <2> QED
      BY <1>3, <2>1, <2>2
  <1> QED
    BY <1>6, <1>9, <1>10, <1>11, <1>12 DEF LifeInv

-----------------------------------------------------------------------------
(* A set of tellings, each of an event.                                    *)
Tells(T) == \A s \in T : s.event \in 1..last

(* What has moved the clock of a session.                                  *)
Clocking(s) ==
  \/ sent[s.event].kind \in Asking \cup {"prompt", "post"}
  \/ OfAgents(s.event) /\ s.applied
Clocked(row, T) ==
  /\ row.started <= row.since
  /\ \A s \in T : Clocking(s) => Ts(s.event) <= row.since

LEMMA ClockedMoves ==
  ASSUME EventsInv, NEW i \in 1..last, NEW n, NEW old \in Row, NEW new \in Row, NEW applied,
         Moves(i, n, old, new, applied), NEW T, Tells(T), Clocked(old, T),
         NEW t, t.event = i, t.applied = applied
  PROVE  Clocked(new, T \cup {t}) /\ new.since >= old.since
  <1>1. Ts(i) \in Nat /\ old.since \in Nat /\ new.since \in Nat /\ old.started \in Nat /\ new.started = old.started
    BY HookIs, RowIs DEF Time, Moves, SameBirth
  <1>2. new.since >= old.since
    BY <1>1 DEF Moves
  <1>3. \A s \in T : Ts(s.event) \in Nat
    BY HookIs DEF Tells, Time
  <1>4. ASSUME NEW s \in T, Clocking(s) PROVE Ts(s.event) <= new.since
    <2>1. Ts(s.event) <= old.since
      BY <1>4 DEF Clocked
    <2> QED
      BY <1>1, <1>2, <1>3, <2>1
  <1>5. Clocking(t) => Ts(t.event) <= new.since
    BY DEF Clocking, Moves
  <1>6. new.started <= new.since
    BY <1>1, <1>2 DEF Clocked
  <1> QED
    BY <1>2, <1>4, <1>5, <1>6 DEF Clocked

(* Where the name of the one session of a process comes from.              *)
Named(row, T) ==
  /\ row.conv \notin row.olds
  /\ row.olds = {} => row.replaced = 0
  /\ row.conv = 0 => row.olds = {}
  /\ \/ Floor(row) = Now(0)
     \/ \E s \in T : Ts(s.event) = Floor(row) /\ sent[s.event].conv \in row.olds \cup {row.conv}
  /\ Floor(row) >= row.started
  /\ ~row.mid => \/ row.started = Now(0)
                 \/ \E s \in T : s.applied /\ sent[s.event].kind \in Starts /\ Ts(s.event) = row.started

(* What an event makes of the name.                                        *)
Renames(i, old, new) ==
  /\ Floor(new) >= Floor(old) /\ old.olds \subseteq new.olds
  /\ \/ SameNames(new, old) /\ Floor(new) = Floor(old)
     \/ new.conv = sent[i].conv /\ sent[i].conv \notin old.olds \cup {old.conv}

LEMMA NamedMoves ==
  ASSUME EventsInv, NEW i \in 1..last, NEW n, NEW old \in Row, NEW new \in Row, NEW applied,
         Moves(i, n, old, new, applied), NEW T, Tells(T), Clocked(old, T), Named(old, T),
         Aliased(old) => old.conv = 0 \/ old.conv \in old.olds,
         NEW t, t.event = i, t.applied = applied
  PROVE  Named(new, T \cup {t}) /\ Renames(i, old, new)
  <1> DEFINE e == sent[i]
             B == T \cup {t}
  <1>1. Ts(i) \in Nat /\ Ts(i) # 0 /\ old.since \in Nat /\ old.started \in Nat /\ new.started = old.started /\ new.mid = old.mid
        /\ old.replaced \in Nat /\ new.replaced \in Nat /\ Floor(old) \in Nat /\ e.conv \in 1..MaxEvents
    BY HookIs, RowIs DEF Time, Moves, SameBirth, Floor
  <1>2. Floor(old) >= old.started /\ old.started <= old.since
    BY DEF Named, Clocked
  <1>3. new.mid = old.mid /\ new.started = old.started =>
          (~new.mid => \/ new.started = Now(0)
                       \/ \E s \in B : s.applied /\ sent[s.event].kind \in Starts /\ Ts(s.event) = new.started)
    BY DEF Named
  <1>4. CASE SameNames(new, old)
    <2>1. Floor(new) = Floor(old) /\ new.conv = old.conv /\ new.olds = old.olds /\ new.replaced = old.replaced
      BY <1>1, <1>4 DEF SameNames, Floor
    <2>2. \/ Floor(new) = Now(0)
          \/ \E s \in B : Ts(s.event) = Floor(new) /\ sent[s.event].conv \in new.olds \cup {new.conv}
      BY <2>1 DEF Named
    <2>3. Named(new, B)
      BY <1>1, <1>2, <1>3, <2>1, <2>2 DEF Named
    <2> QED
      BY <1>1, <1>4, <2>1, <2>3 DEF Renames
  <1>5. CASE ~SameNames(new, old)
    <2>1. /\ TakesName(new, old, e.conv, Ts(i)) /\ e.conv \notin old.olds
          /\ Ts(i) >= Floor(old) \/ Ts(i) >= old.since
      BY <1>5 DEF Moves
    <2>2. Ts(i) >= old.started /\ new.conv = e.conv /\ e.conv # old.conv
      BY <1>1, <1>2, <2>1 DEF TakesName
    <2>3. CASE old.conv = 0
      <3>1. old.olds = {} /\ new.olds = {} /\ new.replaced = 0 /\ old.replaced = 0
        BY <2>1, <2>3 DEF Named, TakesName
      <3>2. Floor(new) = old.started /\ Floor(old) = old.started
        BY <1>1, <3>1 DEF Floor
      <3>3. \A s \in T : sent[s.event].conv \in 1..MaxEvents
        BY HookIs DEF Tells
      <3>4. Floor(old) = Now(0)
        BY <2>3, <3>1, <3>3 DEF Named
      <3>5. new.conv \notin new.olds /\ new.conv # 0
        BY <1>1, <2>2, <3>1
      <3>6. Named(new, B)
        BY <1>1, <1>3, <3>1, <3>2, <3>4, <3>5 DEF Named
      <3> QED
        BY <1>1, <2>1, <2>2, <3>1, <3>2, <3>6 DEF Renames
    <2>4. CASE old.conv # 0
      <3>1. ~Aliased(old)
        BY <2>4 DEF Named
      <3>2. new.olds = old.olds \cup {old.conv} /\ new.replaced = IF Ts(i) > old.replaced THEN Ts(i) ELSE old.replaced
        BY <2>1, <3>1 DEF TakesName
      <3>3. Floor(new) = new.replaced /\ new.olds # {}
        BY <3>2 DEF Floor
      <3>4. CASE Ts(i) > old.replaced
        <4>1. Floor(new) = Ts(i) /\ Ts(t.event) = Floor(new) /\ sent[t.event].conv = new.conv
          BY <2>2, <3>2, <3>3, <3>4
        <4>2. Floor(new) >= Floor(old)
          BY <1>1, <2>2, <3>4, <4>1 DEF Floor
        <4>3. Floor(new) >= new.started
          BY <1>1, <2>2, <4>1
        <4>4. Named(new, B)
          BY <1>1, <1>3, <2>1, <2>2, <3>2, <3>3, <4>1, <4>3 DEF Named
        <4> QED
          BY <2>1, <2>2, <3>2, <4>2, <4>4 DEF Renames
      <3>5. CASE ~(Ts(i) > old.replaced)
        <4>1. old.replaced # 0 /\ old.olds # {}
          BY <1>1, <3>5 DEF Named
        <4>2. Floor(old) = old.replaced /\ Floor(new) = old.replaced
          BY <3>2, <3>3, <3>5, <4>1 DEF Floor
        <4>3. \/ Floor(new) = Now(0)
              \/ \E s \in B : Ts(s.event) = Floor(new) /\ sent[s.event].conv \in new.olds
          BY <3>2, <4>2 DEF Named
        <4>4. Named(new, B)
          BY <1>1, <1>2, <1>3, <2>1, <2>2, <3>2, <3>3, <4>2, <4>3 DEF Named
        <4> QED
          BY <1>1, <2>1, <2>2, <3>2, <4>2, <4>4 DEF Renames
      <3> QED
        BY <3>4, <3>5
    <2> QED
      BY <2>3, <2>4
  <1> QED
    BY <1>4, <1>5

LEMMA NamedEarlier ==
  ASSUME EventsInv, NEW i \in 1..last, NEW row, NEW T, Tells(T), Named(row, T), Ts(i) < Floor(row)
  PROVE  \E s \in T : /\ s.event > i /\ s.event \in 1..last /\ Ts(s.event) = Floor(row)
                      /\ sent[s.event].conv \in row.olds \cup {row.conv}
  <1>1. i \in Nat /\ i >= 1 /\ Ts(i) # Now(0) /\ ~(Ts(i) < Now(0))
    BY HookIs DEF Ts, Now
  <1>2. PICK s \in T : Ts(s.event) = Floor(row) /\ sent[s.event].conv \in row.olds \cup {row.conv}
    BY <1>1 DEF Named
  <1>3. s.event \in 1..last /\ s.event \in Nat
    BY HookIs DEF Tells
  <1>4. s.event > i
    BY <1>1, <1>2, <1>3 DEF Ts
  <1> QED
    BY <1>2, <1>3, <1>4

(* The events of a life come in the order of its conversations.            *)
LEMMA ConvsRise ==
  ASSUME EventsInv, LifeInv, NEW i \in 1..last, NEW j \in 1..last
  PROVE  /\ i <= j => sent[i].conv <= sent[j].conv
         /\ i < j /\ sent[i].conv # sent[j].conv => \E r \in i + 1..j : sent[r].kind = "restart"
         /\ sent[i].conv \in Nat
  <1>1. i \in 1..Len(sent) /\ j \in 1..Len(sent)
    BY DEF EventsInv
  <1>2. sent[i].conv \in Nat
    BY HookIs
  <1> QED
    BY <1>1, <1>2 DEF LifeInv

(* The newest of two conversations.                                        *)
Newest(row, T) ==
  /\ \E s \in T : sent[s.event].conv = row.conv
  /\ \A s \in T : sent[s.event].conv <= row.conv
  /\ row.conv = 1 => row.olds = {}
  /\ row.olds \subseteq {1}
  /\ row.clearing => \E s \in T : s.applied /\ sent[s.event].kind = "cleared"
  /\ row.started # Now(0)

AtMostTwo == \A i \in DOMAIN sent : sent[i].conv <= 2

LEMMA EndsOfIs ==
  ASSUME EventsInv, NEW n
  PROVE  /\ EndsOf(n) \in SUBSET Time
         /\ \A x \in EndsOf(n) : \E s \in Told(n) : sent[s.event].kind \in Ends /\ x = Ts(s.event)
         /\ \A s \in Told(n) : s.applied /\ sent[s.event].kind \in Ends => Ts(s.event) \in EndsOf(n)
  <1>1. \A j \in Applied(n) : Ts(j) \in Time
    BY AppliedIs, HookIs
  <1>2. \A x \in EndsOf(n) : \E s \in Told(n) : sent[s.event].kind \in Ends /\ x = Ts(s.event)
    BY AppliedIs DEF EndsOf
  <1>3. \A s \in Told(n) : s.applied => s.event \in Applied(n)
    BY DEF Told, Applied
  <1> QED
    BY <1>1, <1>2, <1>3 DEF EndsOf

(* What an event of another conversation than the newer one says of it.    *)
LEMMA UnnamedIsOlder ==
  ASSUME EventsInv, LifeInv, NEW i \in 1..last, NEW n, NEW row \in Row, NEW T, T = Told(n), Tells(T), Named(row, T),
         Newest(row, T), AtMostTwo, Unnamed(i, n, row)
  PROVE  sent[i].conv <= row.conv
  <1>1. /\ sent[i].conv \in Nat /\ sent[i].conv <= 2 /\ sent[i].conv >= 1
        /\ \A s \in T : s.event \in 1..last /\ sent[s.event].conv \in 1..2 /\ s.event \in Nat
    <2>1. \A j \in 1..last : sent[j].conv \in 1..MaxEvents /\ sent[j].conv <= 2 /\ j \in Nat
      BY HookIs DEF EventsInv, AtMostTwo
    <2> QED
      BY <2>1, BoundsAssumption DEF Tells
  <1>2. row.conv \in 1..2
    BY <1>1 DEF Newest
  <1>3. CASE row.conv = 2
    BY <1>1, <1>3
  <1>4. CASE row.conv = 1
    <2>1. row.olds = {}
      BY <1>4 DEF Newest
    <2>2. CASE Ts(i) < Floor(row)
      <3>1. PICK s \in T : s.event > i /\ s.event \in 1..last /\ sent[s.event].conv \in row.olds \cup {row.conv}
        BY <2>2, NamedEarlier
      <3>2. i \in Nat /\ i <= s.event
        BY <1>1, <3>1
      <3>3. sent[i].conv <= sent[s.event].conv
        BY <3>1, <3>2, ConvsRise
      <3> QED
        BY <1>4, <2>1, <3>1, <3>3
    <2>3. CASE sent[i].kind = "restart" /\ row.clearing /\ (EndsOf(n) = {} \/ Ts(i) < Max(EndsOf(n)))
      <3>1. PICK s \in T : s.applied /\ sent[s.event].kind = "cleared"
        BY <2>3 DEF Newest
      <3>2. EndsOf(n) # {}
        BY <3>1, EndsOfIs DEF Ends
      <3> DEFINE m == Max(EndsOf(n))
      <3>3. m \in EndsOf(n)
        BY <3>2, EndsOfIs, MaxIs
      <3>4. PICK f \in T : Ts(i) < Ts(f.event)
        <4>1. Ts(i) < m
          BY <2>3, <3>2
        <4> HIDE DEF m
        <4> QED
          BY <3>3, <4>1, EndsOfIs
      <3>5. i <= f.event
        BY <1>1, <3>4 DEF Ts
      <3>6. sent[i].conv <= sent[f.event].conv
        BY <1>1, <3>5, ConvsRise
      <3>7. sent[f.event].conv <= 1
        BY <1>4 DEF Newest
      <3> QED
        BY <1>1, <1>4, <3>6, <3>7
    <2> QED
      BY <2>1, <2>2, <2>3 DEF Unnamed
  <1> QED
    BY <1>2, <1>3, <1>4

LEMMA NewestMoves ==
  ASSUME EventsInv, LifeInv, NEW i \in 1..last, NEW n, NEW old \in Row, NEW new \in Row, NEW applied,
         Moves(i, n, old, new, applied), NEW T, T = Told(n), Tells(T), Clocked(old, T), Named(old, T),
         Aliased(old) => old.conv = 0 \/ old.conv \in old.olds, Newest(old, T), AtMostTwo,
         NEW t, t.event = i, t.applied = applied
  PROVE  Newest(new, T \cup {t})
  <1> DEFINE e == sent[i]
             B == T \cup {t}
  <1>1. /\ e.conv \in 1..2 /\ i \in Nat
        /\ \A s \in T : s.event \in 1..last /\ sent[s.event].conv \in 1..2 /\ s.event \in Nat
    <2>1. \A j \in 1..last : sent[j].conv \in 1..MaxEvents /\ sent[j].conv <= 2 /\ j \in Nat
      BY HookIs DEF EventsInv, AtMostTwo
    <2> QED
      BY <2>1, BoundsAssumption DEF Tells
  <1>2. old.conv \in 1..2
    BY <1>1 DEF Newest
  <1>3. new.started # Now(0)
    BY DEF Newest, Moves, SameBirth
  <1>4. new.clearing => \E s \in B : s.applied /\ sent[s.event].kind = "cleared"
    BY DEF Newest, Moves
  <1>5. CASE SameNames(new, old)
    <2>1. new.conv = old.conv /\ new.olds = old.olds
      BY <1>5 DEF SameNames
    <2>2. e.conv = old.conv \/ Unnamed(i, n, old)
      BY <1>5 DEF Moves, SameNames, TakesName
    <2>3. e.conv <= old.conv
      BY <1>1, <1>2, <2>2, UnnamedIsOlder
    <2> QED
      BY <1>3, <1>4, <2>1, <2>3 DEF Newest
  <1>6. CASE ~SameNames(new, old)
    <2>1. /\ TakesName(new, old, e.conv, Ts(i)) /\ e.conv \notin old.olds
          /\ Ts(i) >= Floor(old) \/ Ts(i) >= old.since
      BY <1>6 DEF Moves
    <2>2. new.conv = e.conv /\ e.conv # old.conv
      BY <2>1 DEF TakesName
    <2>3. old.conv = 1
      <3> SUFFICES ASSUME old.conv = 2 PROVE FALSE
        BY <1>2
      <3>1. e.conv = 1 /\ old.olds = {}
        BY <1>1, <2>1, <2>2 DEF Newest
      <3>2. Floor(old) = old.started
        BY <3>1 DEF Floor
      <3>3. PICK f \in T : Ts(f.event) = old.started /\ sent[f.event].conv = 2
        BY <3>1, <3>2 DEF Named, Newest
      <3>4. Ts(i) >= old.started
        <4>1. Ts(i) \in Nat /\ old.started \in Nat /\ old.since \in Nat
          BY HookIs, RowIs DEF Time
        <4> QED
          BY <2>1, <3>2, <4>1 DEF Clocked
      <3>5. f.event <= i
        BY <1>1, <3>3, <3>4 DEF Ts
      <3>6. sent[f.event].conv <= e.conv
        BY <1>1, <3>5, ConvsRise
      <3> QED
        BY <3>1, <3>3, <3>6
    <2>4. e.conv = 2
      BY <1>1, <2>2, <2>3
    <2>5. new.olds = old.olds \/ new.olds = old.olds \cup {old.conv}
      BY <2>1 DEF TakesName
    <2>6. new.olds \subseteq {1}
      BY <2>3, <2>5 DEF Newest
    <2>7. \A s \in B : sent[s.event].conv <= 2
      BY <1>1, <2>4
    <2>8. \E s \in B : sent[s.event].conv = new.conv
      BY <2>2
    <2> QED
      BY <1>3, <1>4, <2>2, <2>4, <2>6, <2>7, <2>8 DEF Newest
  <1> QED
    BY <1>5, <1>6

(* The agents at work are those started since the last boundary, and not   *)
(* back.                                                                   *)
Latest(first, B) == Max({first} \cup {Ts(j) : j \in B})
Ending(T) == {s.event : s \in {f \in T : f.applied /\ sent[f.event].kind \in Starts \cup Ends}}
BoundIn(row, T) == Latest(IF row.mid THEN 0 ELSE row.started, Ending(T))

LEMMA LatestIs ==
  ASSUME EventsInv, NEW first \in Time, NEW B \in SUBSET (1..last)
  PROVE  /\ Latest(first, B) \in Time /\ Latest(first, B) >= first
         /\ \A j \in B : Latest(first, B) >= Ts(j)
         /\ Latest(first, B) = first \/ \E j \in B : Latest(first, B) = Ts(j)
  <1> DEFINE S == {first} \cup {Ts(j) : j \in B}
             m == Max(S)
  <1>1. S \in SUBSET Time /\ S # {}
    BY HookIs
  <1>2. m \in S /\ \A t \in S : t <= m
    <2> HIDE DEF S
    <2> QED
      BY <1>1, MaxIs
  <1>3. Latest(first, B) = m
    BY DEF Latest
  <1>4. first \in S /\ \A j \in B : Ts(j) \in S
    OBVIOUS
  <1>5. m \in Nat /\ \A t \in S : t \in Nat
    BY <1>1, <1>2 DEF Time
  <1>6. m = first \/ \E j \in B : m = Ts(j)
    BY <1>2
  <1> HIDE DEF m
  <1>7. m >= first /\ \A j \in B : m >= Ts(j)
    BY <1>2, <1>4, <1>5
  <1> QED
    BY <1>1, <1>2, <1>3, <1>6, <1>7

LEMMA BoundInIs ==
  ASSUME EventsInv, NEW row \in Row, NEW T, Tells(T)
  PROVE  /\ BoundIn(row, T) \in Nat
         /\ BoundIn(row, T) >= IF row.mid THEN 0 ELSE row.started
         /\ \A s \in T : s.applied /\ sent[s.event].kind \in Starts \cup Ends => BoundIn(row, T) >= Ts(s.event)
         /\ \/ BoundIn(row, T) = IF row.mid THEN 0 ELSE row.started
            \/ \E s \in T : s.applied /\ sent[s.event].kind \in Starts \cup Ends /\ BoundIn(row, T) = Ts(s.event)
  <1> DEFINE first == IF row.mid THEN 0 ELSE row.started
             B == Ending(T)
  <1>1. first \in Time /\ B \in SUBSET (1..last)
    BY RowIs, BoundsAssumption DEF Time, Ending, Tells
  <1>2. BoundIn(row, T) = Latest(first, B)
    BY DEF BoundIn
  <1>3. \A s \in T : s.applied /\ sent[s.event].kind \in Starts \cup Ends => s.event \in B
    BY DEF Ending
  <1>4. \A j \in B : \E s \in T : s.applied /\ sent[s.event].kind \in Starts \cup Ends /\ j = s.event
    BY DEF Ending
  <1>5. first = IF row.mid THEN 0 ELSE row.started
    OBVIOUS
  <1> HIDE DEF first, B
  <1>6. /\ Latest(first, B) \in Time /\ Latest(first, B) >= first
        /\ \A j \in B : Latest(first, B) >= Ts(j)
        /\ Latest(first, B) = first \/ \E j \in B : Latest(first, B) = Ts(j)
    BY <1>1, LatestIs
  <1> DEFINE b == BoundIn(row, T)
  <1>7. b = Latest(first, B) /\ b \in Nat
    BY <1>2, <1>6 DEF Time
  <1> HIDE DEF b
  <1>8. b >= first /\ (\A j \in B : b >= Ts(j)) /\ (b = first \/ \E j \in B : b = Ts(j))
    BY <1>6, <1>7
  <1> QED
    BY <1>3, <1>4, <1>5, <1>7, <1>8 DEF b

LEMMA BoundTold ==
  ASSUME NEW n, NEW row
  PROVE  Bound(n, row) = BoundIn(row, Told(n))
  <1>1. Ending(Told(n)) = {j \in Applied(n) : sent[j].kind \in Starts \cup Ends}
    BY DEF Ending, Told, Applied
  <1>2. {Ts(j) : j \in {l \in Applied(n) : sent[l].kind \in Starts \cup Ends}} = {Ts(j) : j \in Ending(Told(n))}
    BY <1>1
  <1> QED
    BY <1>2 DEF Bound, LastOf, BoundIn, Latest

LEMMA BoundGrows ==
  ASSUME EventsInv, NEW i \in 1..last, NEW old \in Row, NEW new \in Row, SameBirth(new, old), NEW T, Tells(T),
         NEW t, t.event = i
  PROVE  /\ BoundIn(new, T \cup {t}) >= BoundIn(old, T)
         /\ ~(t.applied /\ sent[i].kind \in Starts \cup Ends) => BoundIn(new, T \cup {t}) = BoundIn(old, T)
         /\ t.applied /\ sent[i].kind \in Starts \cup Ends => BoundIn(new, T \cup {t}) >= Ts(i)
  <1> DEFINE a == BoundIn(old, T)
             b == BoundIn(new, T \cup {t})
             first == IF old.mid THEN 0 ELSE old.started
             ends(s) == s.applied /\ sent[s.event].kind \in Starts \cup Ends
  <1>1. Tells(T \cup {t})
    BY DEF Tells
  <1>2. /\ a \in Nat /\ a >= first /\ (\A s \in T : ends(s) => a >= Ts(s.event))
        /\ a = first \/ \E s \in T : ends(s) /\ a = Ts(s.event)
    BY BoundInIs
  <1>3. first = IF new.mid THEN 0 ELSE new.started
    BY DEF SameBirth
  <1>4. /\ b \in Nat /\ b >= first /\ (\A s \in T \cup {t} : ends(s) => b >= Ts(s.event))
        /\ b = first \/ \E s \in T \cup {t} : ends(s) /\ b = Ts(s.event)
    BY <1>1, <1>3, BoundInIs
  <1>5. first \in Nat
    BY RowIs DEF Time
  <1> HIDE DEF a, b, first
  <1>6. b >= a
    <2>1. CASE a = first
      BY <1>4, <2>1
    <2>2. CASE \E s \in T : ends(s) /\ a = Ts(s.event)
      BY <1>4, <2>2
    <2> QED
      BY <1>2, <2>1, <2>2
  <1>7. ASSUME ~ends(t) PROVE b = a
    <2>1. b = first \/ \E s \in T : ends(s) /\ b = Ts(s.event)
      BY <1>4, <1>7
    <2>2. a >= b
      <3>1. CASE b = first
        BY <1>2, <3>1
      <3>2. CASE \E s \in T : ends(s) /\ b = Ts(s.event)
        BY <1>2, <3>2
      <3> QED
        BY <2>1, <3>1, <3>2
    <2> QED
      BY <1>2, <1>4, <1>6, <2>2
  <1>8. ends(t) => b >= Ts(i)
    BY <1>4
  <1> QED
    BY <1>6, <1>7, <1>8 DEF a, b

IsBack(T, s) == \E f \in T : /\ f.applied /\ f.event > s.event
                             /\ sent[f.event].kind = "back" /\ sent[f.event].of = sent[s.event].of
Counted(row, T) ==
  \A s \in T : s.applied /\ sent[s.event].kind = "agent" /\ Ts(s.event) >= BoundIn(row, T) =>
                 (sent[s.event].of \in row.active <=> ~IsBack(T, s))

LEMMA WorkingCounts ==
  ASSUME EventsInv, LifeInv, NEW i \in 1..last, NEW n, NEW row \in Row, NEW T, T = Told(n), Tells(T),
         NEW t, t.event = i, t.applied, Ts(i) >= BoundIn(row, T),
         NEW s \in T \cup {t}, s.applied, sent[s.event].kind = "agent", Ts(s.event) >= BoundIn(row, T)
  PROVE  sent[s.event].of \in Working(i, n, row) <=> ~IsBack(T \cup {t}, s)
  <1> DEFINE bound == BoundIn(row, T)
             B == T \cup {t}
             known == {j \in Applied(n) : Ts(j) >= LastOf(n, row, Starts \cup Ends)} \cup {i}
             g == sent[s.event].of
  <1>1. LastOf(n, row, Starts \cup Ends) = bound
    BY BoundTold DEF Bound
  <1>2. Working(i, n, row) =
           {a \in Agents : \E j \in known :
              /\ sent[j].kind = "agent" /\ sent[j].of = a
              /\ \A l \in known : ~(sent[l].kind = "back" /\ sent[l].of = a /\ l > j)}
    BY DEF Working
  <1>3. Tells(B)
    BY DEF Tells
  <1>4. ASSUME NEW f \in B, f.applied, Ts(f.event) >= bound PROVE f.event \in known
    BY <1>1, <1>4 DEF Told, Applied
  <1>5. ASSUME NEW j \in known PROVE j \in 1..last /\ \E f \in B : f.applied /\ f.event = j
    BY AppliedIs
  <1>6. bound \in Nat /\ \A j \in 1..last : j \in Nat
    BY BoundInIs, HookIs
  <1>7. g \in Agents
    BY <1>3, HookIs DEF Tells, About
  <1> HIDE DEF known, bound, B
  <1>8. s.event \in known /\ s.event \in 1..last
    BY <1>3, <1>4 DEF B, bound, Tells
  <1>9. g \in Working(i, n, row) <=>
           \E j \in known : /\ sent[j].kind = "agent" /\ sent[j].of = g
                            /\ \A l \in known : ~(sent[l].kind = "back" /\ sent[l].of = g /\ l > j)
    BY <1>2, <1>7
  <1>10. ASSUME NEW j \in known, sent[j].kind = "agent", sent[j].of = g PROVE j = s.event
    <2>1. j \in 1..Len(sent) /\ s.event \in 1..Len(sent)
      BY <1>5, <1>8 DEF EventsInv
    <2> QED
      BY <1>10, <2>1 DEF LifeInv
  <1>11. (\E l \in known : sent[l].kind = "back" /\ sent[l].of = g /\ l > s.event) => IsBack(B, s)
    BY <1>5 DEF IsBack
  <1>12. ASSUME IsBack(B, s) PROVE \E l \in known : sent[l].kind = "back" /\ sent[l].of = g /\ l > s.event
    <2>1. PICK f \in B : f.applied /\ f.event > s.event /\ sent[f.event].kind = "back" /\ sent[f.event].of = g
      BY <1>12 DEF IsBack
    <2>2. f.event \in Nat /\ s.event \in Nat
      BY <1>3, <1>6, <1>8 DEF Tells
    <2>3. Ts(f.event) >= bound
      BY <1>6, <2>1, <2>2 DEF Ts, bound
    <2> QED
      BY <1>4, <2>1, <2>3
  <1> QED
    BY <1>8, <1>9, <1>10, <1>11, <1>12 DEF B

LEMMA CountedMoves ==
  ASSUME EventsInv, LifeInv, NEW i \in 1..last, NEW n, NEW old \in Row, NEW new \in Row, NEW applied,
         Moves(i, n, old, new, applied), NEW T, T = Told(n), Tells(T), Clocked(old, T), Counted(old, T),
         \A s \in T : s.event # i, NEW t, t.event = i, t.applied = applied
  PROVE  Counted(new, T \cup {t})
  <1> DEFINE e == sent[i]
             B == T \cup {t}
  <1> SUFFICES ASSUME NEW s \in B, s.applied, sent[s.event].kind = "agent", Ts(s.event) >= BoundIn(new, B)
               PROVE  sent[s.event].of \in new.active <=> ~IsBack(B, s)
    BY DEF Counted
  <1>1. Tells(B) /\ SameBirth(new, old) /\ (\A j \in 1..last : Ts(j) \in Nat /\ j \in Nat) /\ s.event \in 1..last
    BY HookIs DEF Tells, Moves, Time
  <1>2. BoundIn(new, B) \in Nat /\ BoundIn(old, T) \in Nat /\ BoundIn(new, B) >= BoundIn(old, T)
    BY <1>1, BoundGrows, BoundInIs
  <1>3. Ts(s.event) >= BoundIn(old, T)
    BY <1>1, <1>2
  <1>4. CASE OfAgents(i) /\ applied
    <2>1. new.active = Working(i, n, old) /\ Ts(i) >= BoundIn(old, T)
      BY <1>4, BoundTold DEF Moves
    <2>2. t.applied /\ Ts(s.event) >= BoundIn(old, T)
      BY <1>3, <1>4
    <2>3. sent[s.event].of \in Working(i, n, old) <=> ~IsBack(T \cup {t}, s)
      BY <2>1, <2>2, WorkingCounts
    <2> QED
      BY <2>1, <2>3
  <1>5. CASE ~(OfAgents(i) /\ applied) /\ new.active = old.active
    <2>1. s \in T
      BY <1>5 DEF OfAgents
    <2>2. IsBack(B, s) <=> IsBack(T, s)
      BY <1>5 DEF IsBack, OfAgents
    <2> QED
      BY <1>3, <1>5, <2>1, <2>2 DEF Counted
  <1>6. CASE ~OfAgents(i) /\ e.kind = "restart" /\ applied
    <2>1. s \in T
      BY <1>6 DEF OfAgents
    <2>2. Ts(s.event) <= old.since /\ Ts(i) >= old.since /\ old.since \in Nat
      BY <1>6, <2>1, RowIs DEF Clocked, Clocking, OfAgents, Moves, Starts, Time
    <2>3. BoundIn(new, B) >= Ts(i)
      BY <1>1, <1>6, BoundGrows DEF Starts
    <2>4. Ts(s.event) >= Ts(i) /\ Ts(s.event) <= Ts(i)
      BY <1>1, <1>2, <2>2, <2>3
    <2>5. s.event = i
      BY <1>1, <2>4 DEF Ts
    <2> QED
      BY <2>1, <2>5
  <1> QED
    BY <1>4, <1>5, <1>6 DEF Moves

(* An agent that was not heeded is of another conversation, or came before *)
(* what is counted from.                                                   *)
Unheeded(row, T) ==
  \A s \in T : OfAgents(s.event) /\ ~s.applied =>
     \/ Ts(s.event) < BoundIn(row, T)
     \/ sent[s.event].conv \in row.olds
     \/ \E f \in T : f.event > s.event /\ sent[f.event].conv # sent[s.event].conv

LEMMA UnheededMoves ==
  ASSUME EventsInv, NEW i \in 1..last, NEW n, NEW old \in Row, NEW new \in Row, NEW applied,
         Moves(i, n, old, new, applied), NEW T, T = Told(n), Tells(T), Named(old, T), Unheeded(old, T),
         old.olds \subseteq new.olds, NEW t, t.event = i, t.applied = applied
  PROVE  Unheeded(new, T \cup {t})
  <1> DEFINE B == T \cup {t}
  <1> SUFFICES ASSUME NEW s \in B, OfAgents(s.event), ~s.applied
               PROVE  \/ Ts(s.event) < BoundIn(new, B)
                      \/ sent[s.event].conv \in new.olds
                      \/ \E f \in B : f.event > s.event /\ sent[f.event].conv # sent[s.event].conv
    BY DEF Unheeded
  <1>1. Tells(B) /\ SameBirth(new, old) /\ (\A j \in 1..last : Ts(j) \in Nat) /\ s.event \in 1..last
    BY HookIs DEF Tells, Moves, Time
  <1>2. BoundIn(new, B) \in Nat /\ BoundIn(old, T) \in Nat /\ BoundIn(new, B) >= BoundIn(old, T)
    BY <1>1, BoundGrows, BoundInIs
  <1>3. CASE s \in T
    <2>1. \/ Ts(s.event) < BoundIn(old, T)
          \/ sent[s.event].conv \in old.olds
          \/ \E f \in T : f.event > s.event /\ sent[f.event].conv # sent[s.event].conv
      BY <1>3 DEF Unheeded
    <2>2. Ts(s.event) < BoundIn(old, T) => Ts(s.event) < BoundIn(new, B)
      BY <1>1, <1>2
    <2> QED
      BY <2>1, <2>2
  <1>4. CASE s = t
    <2>1. OfAgents(i) /\ ~applied
      BY <1>4
    <2>2. sent[i].conv # new.conv \/ ~(Ts(i) >= BoundIn(old, T))
      BY <2>1, BoundTold DEF Moves
    <2>3. ~(Ts(i) >= BoundIn(old, T)) => Ts(i) < BoundIn(new, B)
      BY <1>1, <1>2
    <2>4. ASSUME sent[i].conv # new.conv
          PROVE  \/ sent[i].conv \in new.olds
                 \/ \E f \in B : f.event > i /\ sent[f.event].conv # sent[i].conv
      <3>1. SameNames(new, old) /\ Unnamed(i, n, old)
        BY <2>4 DEF Moves, SameNames, TakesName
      <3>2. CASE Ts(i) < Floor(old)
        <4>1. PICK f \in T : f.event > i /\ sent[f.event].conv \in old.olds \cup {old.conv}
          BY <3>2, NamedEarlier
        <4> QED
          BY <2>4, <3>1, <4>1 DEF SameNames
      <3>3. sent[i].kind # "restart"
        BY <2>1 DEF OfAgents
      <3> QED
        BY <3>1, <3>2, <3>3 DEF Unnamed
    <2> QED
      BY <1>4, <2>2, <2>3, <2>4
  <1> QED
    BY <1>3, <1>4

-----------------------------------------------------------------------------
(* What an event makes of the prompts of a session that lives.             *)

Unanswered(T, open) ==
  \A q \in open : \A o, s \in T :
     /\ q.key # Text /\ q.at = Ts(o.event)
     /\ s.event > o.event /\ sent[s.event].conv = sent[o.event].conv
     => ~(sent[s.event].kind = "prompt" \/ (sent[s.event].kind = "post" /\ sent[s.event].of = q.key))

LEMMA UnansweredMoves ==
  ASSUME EventsInv, RequestsInv, NEW i \in 1..last, i \notin Heard, NEW n, NEW old \in Row, NEW o,
         Prompts(i, n, old, o), NEW T, T = Told(n), Tells(T), Clocked(old, T), Unanswered(T, OpenOf(n, reqs)),
         NEW t, t.event = i
  PROVE  Unanswered(T \cup {t}, OpenOf(n, o.reqs))
  <1> DEFINE B == T \cup {t}
  <1> SUFFICES ASSUME NEW q \in OpenOf(n, o.reqs), NEW a \in B, NEW s \in B, q.key # Text, q.at = Ts(a.event),
                      s.event > a.event, sent[s.event].conv = sent[a.event].conv
               PROVE  ~(sent[s.event].kind = "prompt" \/ (sent[s.event].kind = "post" /\ sent[s.event].of = q.key))
    BY DEF Unanswered
  <1>1. /\ a.event \in 1..last /\ s.event \in 1..last /\ (\A j \in 1..last : j \in Nat /\ Ts(j) \in Nat)
        /\ old.since \in Nat
    BY HookIs, RowIs DEF Tells, Time
  <1>2. \A u \in T : u.event # i
    BY DEF Told, Heard
  <1>3. CASE q \in OpenOf(n, reqs) /\ ~Answers(i, q)
    <2>1. a \in T
      <3> SUFFICES ASSUME a.event = i PROVE FALSE
        OBVIOUS
      <3>1. PICK u \in seen : q.at = Ts(u.event)
        BY <1>3 DEF RequestsInv, OpenOf
      <3>2. u.event \in Nat
        BY <3>1 DEF EventsInv
      <3> QED
        BY <1>1, <3>1, <3>2, TimesDiffer DEF Heard
    <2>2. CASE s \in T
      BY <1>3, <2>1, <2>2 DEF Unanswered
    <2>3. CASE s = t
      <3>1. q.at <= Ts(i)
        BY <1>1, <2>3 DEF Ts
      <3> QED
        BY <1>3, <2>3, <3>1 DEF Answers
    <2> QED
      BY <2>2, <2>3
  <1>4. CASE q.at = Ts(i) /\ Ts(i) >= old.since
    <2>1. a.event = i
      BY <1>1, <1>4, TimesDiffer
    <2>2. s \in T
      BY <1>1, <2>1
    <2>3. ASSUME sent[s.event].kind \in {"prompt", "post"} PROVE FALSE
      <3>1. Ts(s.event) <= old.since
        BY <2>2, <2>3 DEF Clocked, Clocking
      <3> QED
        BY <1>1, <1>4, <2>1, <3>1 DEF Ts
    <2> QED
      BY <2>3
  <1>5. CASE MadeUp(i, n, q)
    <2>1. PICK j \in Hears(n, i) :
            /\ q.at = Ts(j) /\ q.key = sent[j].of
            /\ \A l \in Hears(n, i) : l > j /\ sent[l].conv = sent[j].conv => ~Settles(sent[l], sent[j])
      BY <1>5 DEF MadeUp
    <2>2. j \in 1..last /\ s.event \in Hears(n, i)
      BY <2>1 DEF Hears, Tells
    <2>3. a.event = j
      BY <1>1, <2>1, <2>2, TimesDiffer
    <2>4. ~Settles(sent[s.event], sent[j])
      BY <2>1, <2>2, <2>3
    <2> QED
      BY <2>1, <2>4 DEF Settles
  <1> QED
    BY <1>3, <1>4, <1>5 DEF Prompts

(* A prompt that waits is shown, or is of a conversation that the session  *)
(* has left or that was over before the session took its name.             *)
Waits(T, s) ==
  /\ sent[s.event].kind \in Asking
  /\ \A f \in T : f.event > s.event => ~Settles(sent[f.event], sent[s.event])
ShownBy(open, s) == \E q \in open : q.at = Ts(s.event) /\ q.key = sent[s.event].of
LeftBehind(row, s) ==
  /\ sent[s.event].conv # row.conv
  /\ sent[s.event].conv \in row.olds \/ Ts(s.event) < Floor(row)
Shown(row, T, open) == \A s \in T : Waits(T, s) => ShownBy(open, s) \/ LeftBehind(row, s)

(* What takes a prompt that waits away has settled it.                     *)
LEMMA WaitingStays ==
  ASSUME EventsInv, LifeInv, NEW i \in 1..last, NEW n, NEW old \in Row, NEW o,
         Prompts(i, n, old, o), NEW T, Tells(T), Clocked(old, T), NEW t, t.event = i,
         NEW s \in T, s.event # i, Waits(T \cup {t}, s), ShownBy(OpenOf(n, reqs), s)
  PROVE  ShownBy(OpenOf(n, o.reqs), s)
  <1> DEFINE e == sent[i]
  <1>1. PICK q \in OpenOf(n, reqs) : q.at = Ts(s.event) /\ q.key = sent[s.event].of
    BY DEF ShownBy
  <1>2. /\ s.event \in 1..last /\ s.event \in Nat /\ i \in Nat /\ Ts(i) \in Nat /\ Ts(s.event) \in Nat
        /\ old.since \in Nat
    BY HookIs, RowIs DEF Tells, Time
  <1>3. sent[s.event].kind \in Asking /\ (i > s.event => ~Settles(e, sent[s.event]))
    BY DEF Waits
  <1>4. q.key # Text
    <2>1. sent[s.event].of \in Keys \cup Questions
      BY <1>2, <1>3, HookIs DEF About, Asking
    <2> QED
      BY <1>1, <2>1, KeysAssumption DEF Text
  <1>5. ~Answers(i, q)
    <2> SUFFICES ASSUME Answers(i, q) PROVE FALSE
      OBVIOUS
    <2>1. i > s.event
      BY <1>1, <1>2 DEF Answers, Ts
    <2> QED
      BY <1>1, <1>3, <2>1 DEF Answers, Settles
  <1>6. ~(e.kind = "restart" /\ q.at < Ts(i))
    <2> SUFFICES ASSUME e.kind = "restart", q.at < Ts(i) PROVE FALSE
      OBVIOUS
    <2>1. i > s.event
      BY <1>1, <1>2 DEF Ts
    <2> QED
      BY <1>3, <2>1 DEF Settles
  <1>7. ~(e.kind \in Starts \cup {"idle"} /\ Ts(i) >= old.since)
    <2> SUFFICES ASSUME e.kind \in Starts \cup {"idle"}, Ts(i) >= old.since PROVE FALSE
      OBVIOUS
    <2>1. Ts(s.event) <= old.since
      BY <1>3 DEF Clocked, Clocking
    <2>2. i > s.event
      BY <1>2, <2>1 DEF Ts
    <2>3. e.kind # "start"
      BY <1>2, <2>2 DEF LifeInv, EventsInv
    <2> QED
      BY <1>3, <2>2, <2>3 DEF Settles, Starts
  <1>8. e.kind # "end"
    <2> SUFFICES ASSUME e.kind = "end" PROVE FALSE
      OBVIOUS
    <2>1. i = Len(sent) /\ s.event <= Len(sent)
      BY <1>2 DEF LifeInv, EventsInv
    <2>2. i > s.event
      BY <1>2, <2>1
    <2> QED
      BY <1>3, <2>2 DEF Settles
  <1>9. q \in OpenOf(n, o.reqs)
    BY <1>4, <1>5, <1>6, <1>7, <1>8 DEF Prompts
  <1> QED
    BY <1>1, <1>9 DEF ShownBy

LEMMA LeftStays ==
  ASSUME EventsInv, LifeInv, NEW i \in 1..last, NEW n, NEW old \in Row, NEW new \in Row, NEW applied,
         Moves(i, n, old, new, applied), NEW T, Tells(T), Clocked(old, T), Named(old, T),
         Floor(new) >= Floor(old), old.olds \subseteq new.olds,
         \/ SameNames(new, old) /\ Floor(new) = Floor(old)
         \/ new.conv = sent[i].conv /\ sent[i].conv \notin old.olds \cup {old.conv},
         NEW t, t.event = i, NEW s \in T, s.event # i, Waits(T \cup {t}, s), LeftBehind(old, s)
  PROVE  LeftBehind(new, s)
  <1> DEFINE e == sent[i]
             conv == sent[s.event].conv
  <1>1. /\ s.event \in 1..last /\ s.event \in Nat /\ i \in Nat /\ Ts(i) \in Nat /\ Ts(s.event) \in Nat
        /\ Floor(old) \in Nat /\ Floor(new) \in Nat /\ old.since \in Nat
    BY HookIs, RowIs DEF Tells, Time, Floor
  <1>2. CASE SameNames(new, old) /\ Floor(new) = Floor(old)
    BY <1>2 DEF LeftBehind, SameNames
  <1>3. CASE new.conv = e.conv /\ e.conv \notin old.olds \cup {old.conv}
    <2>1. conv \in new.olds \/ Ts(s.event) < Floor(new)
      BY <1>1 DEF LeftBehind
    <2>2. conv # new.conv
      <3> SUFFICES ASSUME conv = e.conv PROVE FALSE
        BY <1>3
      <3>1. Ts(s.event) < Floor(old)
        BY <1>3 DEF LeftBehind
      <3>2. PICK f \in T : /\ f.event > s.event /\ f.event \in 1..last /\ Ts(f.event) = Floor(old)
                           /\ sent[f.event].conv \in old.olds \cup {old.conv}
        BY <1>1, <3>1, NamedEarlier
      <3>3. f.event \in Nat
        BY <3>2, HookIs
      <3>4. conv <= sent[f.event].conv
        BY <1>1, <3>2, <3>3, ConvsRise
      <3>5. Ts(i) >= Floor(old) \/ (e.kind \in Starts /\ Ts(i) >= old.since)
        BY <1>3 DEF Moves, SameNames
      <3>6. CASE Ts(i) >= Floor(old)
        <4>1. f.event <= i
          BY <1>1, <3>2, <3>3, <3>6 DEF Ts
        <4>2. sent[f.event].conv <= e.conv
          BY <3>2, <4>1, ConvsRise
        <4>3. sent[f.event].conv = e.conv
          BY <3>2, <3>4, <4>2, ConvsRise
        <4> QED
          BY <1>3, <3>2, <4>3
      <3>7. CASE e.kind \in Starts /\ Ts(i) >= old.since
        <4>1. Ts(s.event) <= old.since
          BY DEF Clocked, Clocking, Waits
        <4>2. i > s.event
          BY <1>1, <3>7, <4>1 DEF Ts
        <4>3. e.kind # "start"
          BY <1>1, <4>2 DEF LifeInv, EventsInv
        <4>4. ~Settles(e, sent[s.event])
          BY <4>2 DEF Waits
        <4> QED
          BY <3>7, <4>3, <4>4 DEF Settles, Starts
      <3> QED
        BY <3>5, <3>6, <3>7
    <2> QED
      BY <2>1, <2>2 DEF LeftBehind
  <1> QED
    BY <1>2, <1>3

LEMMA ShownMoves ==
  ASSUME EventsInv, RequestsInv, LifeInv, NEW i \in 1..last, i \notin Heard, NEW n, NEW old \in Row, NEW o, o.row \in Row,
         Moves(i, n, old, o.row, o.applied), Prompts(i, n, old, o), NEW T, T = Told(n), Tells(T),
         Clocked(old, T), Named(old, T), Aliased(old) => old.conv = 0 \/ old.conv \in old.olds,
         Shown(old, T, OpenOf(n, reqs)), NEW t, t.event = i, t.applied = o.applied
  PROVE  Shown(o.row, T \cup {t}, OpenOf(n, o.reqs))
  <1> DEFINE e == sent[i]
             new == o.row
             applied == o.applied
             B == T \cup {t}
  <1>1. /\ Floor(new) >= Floor(old) /\ old.olds \subseteq new.olds
        /\ \/ SameNames(new, old) /\ Floor(new) = Floor(old)
           \/ new.conv = e.conv /\ e.conv \notin old.olds \cup {old.conv}
    <2> HIDE DEF new, applied
    <2>1. Moves(i, n, old, new, applied) /\ new \in Row /\ t.applied = applied
      BY DEF new, applied
    <2>2. Named(new, T \cup {t}) /\ Renames(i, old, new)
      BY <2>1, NamedMoves
    <2> QED
      BY <2>2 DEF Renames
  <1>2. ASSUME NEW s \in T, Waits(B, s) PROVE ShownBy(OpenOf(n, o.reqs), s) \/ LeftBehind(new, s)
    <2>1. s.event # i
      BY DEF Told, Heard
    <2>2. Waits(T, s)
      BY <1>2 DEF Waits
    <2>3. ShownBy(OpenOf(n, reqs), s) \/ LeftBehind(old, s)
      BY <2>2 DEF Shown
    <2>4. CASE ShownBy(OpenOf(n, reqs), s)
      BY <1>2, <2>1, <2>4, WaitingStays
    <2>5. CASE LeftBehind(old, s)
      <3> HIDE DEF new, applied
      <3>1. Moves(i, n, old, new, applied) /\ new \in Row
        BY DEF new, applied
      <3> QED
        BY <1>1, <1>2, <2>1, <2>5, <3>1, LeftStays
    <2> QED
      BY <2>3, <2>4, <2>5
  <1>3. ASSUME Waits(B, t) PROVE ShownBy(OpenOf(n, o.reqs), t) \/ LeftBehind(new, t)
    <2>1. e.kind \in Asking
      BY <1>3 DEF Waits
    <2>2. /\ i \in Nat /\ Ts(i) \in Nat /\ \A s \in T : s.event \in 1..last /\ s.event \in Nat
      BY HookIs DEF Tells, Time
    <2>3. ~\E l \in Hears(n, i) : l > i /\ Settles(sent[l], sent[i])
      <3> SUFFICES ASSUME NEW l \in Hears(n, i), l > i, Settles(sent[l], sent[i]) PROVE FALSE
        OBVIOUS
      <3>1. PICK f \in T : f.event = l
        BY <2>2 DEF Hears
      <3> QED
        BY <1>3, <3>1 DEF Waits
    <2>4. ~(Ts(i) < LastOf(n, old, Starts))
      <3> SUFFICES ASSUME Ts(i) < LastOf(n, old, Starts) PROVE FALSE
        OBVIOUS
      <3> DEFINE kinds == Starts
                 at == LastOf(n, old, kinds)
      <3> HIDE DEF kinds
      <3>1. \/ at = IF old.mid THEN 0 ELSE old.started
            \/ \E j \in Applied(n) : sent[j].kind \in kinds /\ at = Ts(j)
        BY LastOfIs
      <3>2. Ts(i) < at
        BY DEF kinds
      <3> HIDE DEF at
      <3>3. \E f \in T : sent[f.event].kind \in Starts /\ Ts(f.event) = at
        <4>1. CASE at = IF old.mid THEN 0 ELSE old.started
          <5>1. ~old.mid /\ at = old.started
            BY <2>2, <3>2, <4>1
          <5>2. at # Now(0)
            BY <2>2, <3>2, HookIs DEF Ts, Now
          <5> QED
            BY <5>1, <5>2 DEF Named
        <4>2. CASE \E j \in Applied(n) : sent[j].kind \in kinds /\ at = Ts(j)
          BY <4>2, AppliedIs DEF kinds
        <4> QED
          BY <3>1, <4>1, <4>2
      <3>4. PICK f \in T : sent[f.event].kind \in Starts /\ Ts(f.event) = at
        BY <3>3
      <3>5. f.event > i
        BY <2>2, <3>2, <3>4 DEF Ts
      <3>6. sent[f.event].kind # "start"
        BY <2>2, <3>5, HookIs DEF LifeInv, EventsInv
      <3>7. ~Settles(sent[f.event], sent[i])
        BY <1>3, <3>5 DEF Waits
      <3> QED
        BY <3>4, <3>6, <3>7 DEF Settles, Starts
    <2>5. \/ \E q \in OpenOf(n, o.reqs) : q.at = Ts(i) /\ q.key = sent[i].of
          \/ sent[i].conv # new.conv
      BY <2>1, <2>3, <2>4 DEF Prompts
    <2>6. ASSUME e.conv # new.conv PROVE LeftBehind(new, t)
      <3>1. SameNames(new, old) /\ Unnamed(i, n, old)
        BY <2>6 DEF Moves, SameNames, TakesName
      <3>2. Floor(new) = Floor(old)
        BY <1>1, <2>6
      <3>3. e.conv \in old.olds \/ Ts(i) < Floor(old)
        BY <2>1, <3>1 DEF Unnamed, Asking
      <3> QED
        BY <2>6, <3>1, <3>2, <3>3 DEF LeftBehind, SameNames
    <2> QED
      BY <2>5, <2>6 DEF ShownBy
  <1> QED
    BY <1>2, <1>3 DEF Shown

-----------------------------------------------------------------------------
(* What holds of every session that lives: its clock, the prompts it shows *)
(* and the agents it counts, and the name of the only one of a process.    *)

Alone == Len(rows) <= 1 /\ created \in {0, Now(0)}
Followed == created = 0 /\ Len(rows) <= 1 /\ AtMostTwo

RowInv(row, T, open) ==
  /\ Clocked(row, T) /\ Unanswered(T, open) /\ Counted(row, T)
  /\ Alone => Named(row, T) /\ Unheeded(row, T)
  /\ Undisturbed => Shown(row, T, open)
  /\ Followed => Newest(row, T)

RowsInv == \A n \in 1..Len(rows) : rows[n].alive =>
  rows[n].started <= Now(clock) /\ RowInv(rows[n], Told(n), OpenOf(n, reqs))

EndTold == Undisturbed => \A n \in 1..Len(rows) : ~rows[n].alive =>
  \E t \in seen : sent[t.event].kind = "end"

LInv == LifeInv /\ RowsInv /\ EndTold

LEMMA RowCarries ==
  ASSUME NEW n, NEW row, NEW T, NEW open, rows'[n] = row, Told(n)' = T, OpenOf(n, reqs)' = open, sent' = sent,
         Clocked(row, T), Unanswered(T, open), Counted(row, T),
         Alone' => Named(row, T) /\ Unheeded(row, T),
         Undisturbed' => Shown(row, T, open),
         Followed' => Newest(row, T)
  PROVE  RowInv(rows[n], Told(n), OpenOf(n, reqs))'
  <1>1. Clocked(rows[n], Told(n))'
    BY DEF Clocked, Clocking, OfAgents
  <1>2. Unanswered(Told(n), OpenOf(n, reqs))'
    BY DEF Unanswered
  <1>3. BoundIn(rows[n], Told(n))' = BoundIn(row, T)
    <2>1. Ending(Told(n))' = Ending(T)
      BY DEF Ending
    <2> QED
      BY <2>1 DEF BoundIn, Latest
  <1>4. Counted(rows[n], Told(n))'
    <2> SUFFICES ASSUME NEW s \in T, s.applied, sent[s.event].kind = "agent", Ts(s.event) >= BoundIn(row, T)
                 PROVE  sent[s.event].of \in row.active <=> ~IsBack(Told(n), s)'
      BY <1>3 DEF Counted
    <2>1. sent[s.event].of \in row.active <=> ~IsBack(T, s)
      BY DEF Counted
    <2>2. IsBack(Told(n), s)' <=> IsBack(T, s)
      BY DEF IsBack
    <2> QED
      BY <2>1, <2>2
  <1>5. Alone' => Named(rows[n], Told(n))'
    BY DEF Named, Floor
  <1>6. Alone' => Unheeded(rows[n], Told(n))'
    BY <1>3 DEF Unheeded, OfAgents
  <1>7. Undisturbed' => Shown(rows[n], Told(n), OpenOf(n, reqs))'
    <2> SUFFICES ASSUME Shown(row, T, open), NEW s \in T, Waits(Told(n), s)'
                 PROVE  ShownBy(OpenOf(n, reqs), s)' \/ LeftBehind(rows[n], s)'
      BY DEF Shown
    <2>1. Waits(T, s)
      BY DEF Waits
    <2>2. ShownBy(open, s) \/ LeftBehind(row, s)
      BY <2>1 DEF Shown
    <2>3. ShownBy(open, s) => ShownBy(OpenOf(n, reqs), s)'
      BY DEF ShownBy
    <2>4. LeftBehind(row, s) => LeftBehind(rows[n], s)'
      BY DEF LeftBehind, Floor
    <2> QED
      BY <2>2, <2>3, <2>4
  <1>8. Followed' => Newest(rows[n], Told(n))'
    BY DEF Newest
  <1> QED
    BY <1>1, <1>2, <1>4, <1>5, <1>6, <1>7, <1>8 DEF RowInv

LEMMA RowStays ==
  ASSUME NEW m, RowInv(rows[m], Told(m), OpenOf(m, reqs)),
         rows'[m] = rows[m], Told(m)' = Told(m), OpenOf(m, reqs)' = OpenOf(m, reqs), sent' = sent,
         Alone' => Alone, Undisturbed' => Undisturbed, Followed' => Followed
  PROVE  RowInv(rows[m], Told(m), OpenOf(m, reqs))'
  <1> DEFINE row == rows[m]
             T == Told(m)
             open == OpenOf(m, reqs)
  <1>1. rows'[m] = row /\ Told(m)' = T /\ OpenOf(m, reqs)' = open /\ sent' = sent
    OBVIOUS
  <1>2. /\ Clocked(row, T) /\ Unanswered(T, open) /\ Counted(row, T)
        /\ Alone' => Named(row, T) /\ Unheeded(row, T)
        /\ Undisturbed' => Shown(row, T, open)
        /\ Followed' => Newest(row, T)
    BY DEF RowInv
  <1> HIDE DEF row, T, open
  <1> QED
    BY <1>1, <1>2, RowCarries

LEMMA ToldGrows ==
  ASSUME NEW n, NEW t, t.row = n, seen' = seen \cup {t}
  PROVE  Told(n)' = Told(n) \cup {t} /\ \A m : m # n => Told(m)' = Told(m)
  BY DEF Told

LEMMA OpenStays ==
  ASSUME NEW n, NEW old, NEW new, NEW events, Turned(n, old, new, events), NEW m, m # n
  PROVE  OpenOf(m, new) = OpenOf(m, old)
  <1>1. \A q \in new : q.row = m => q \in old
    BY DEF Turned
  <1>2. \A q \in old : q.row = m => q \in new
    BY DEF Turned
  <1> QED
    BY <1>1, <1>2 DEF OpenOf

LEMMA RowMoves ==
  ASSUME EventsInv, RequestsInv, LifeInv, NEW i \in 1..last, i \notin Heard, NEW n, NEW old \in Row, NEW o, o.row \in Row,
         Moves(i, n, old, o.row, o.applied), Prompts(i, n, old, o), NEW T, T = Told(n), Tells(T),
         RowInv(old, T, OpenOf(n, reqs)), Len(rows) <= 1 => (Aliased(old) => old.conv = 0 \/ old.conv \in old.olds),
         NEW t, t.event = i, t.applied = o.applied
  PROVE  RowInv(o.row, T \cup {t}, OpenOf(n, o.reqs))
  <1> DEFINE new == o.row
             applied == o.applied
  <1>1. Moves(i, n, old, new, applied) /\ new \in Row /\ t.event = i /\ t.applied = applied
    OBVIOUS
  <1> HIDE DEF new, applied
  <1>2. \A s \in T : s.event # i
    BY DEF Told, Heard
  <1>3. Clocked(old, T) /\ Unanswered(T, OpenOf(n, reqs)) /\ Counted(old, T)
    BY DEF RowInv
  <1>4. Clocked(new, T \cup {t})
    BY <1>1, <1>3, ClockedMoves
  <1>5. Unanswered(T \cup {t}, OpenOf(n, o.reqs))
    BY <1>3, UnansweredMoves
  <1>6. Counted(new, T \cup {t})
    BY <1>1, <1>2, <1>3, CountedMoves
  <1>7. ASSUME Alone PROVE Named(new, T \cup {t}) /\ Unheeded(new, T \cup {t})
    <2>1. Named(old, T) /\ Unheeded(old, T) /\ (Aliased(old) => old.conv = 0 \/ old.conv \in old.olds)
      BY <1>7 DEF RowInv, Alone
    <2>2. Named(new, T \cup {t}) /\ Renames(i, old, new)
      BY <1>1, <1>3, <2>1, NamedMoves
    <2>3. Unheeded(new, T \cup {t})
      <3>1. old.olds \subseteq new.olds
        BY <2>2 DEF Renames
      <3> QED
        BY <1>1, <2>1, <3>1, UnheededMoves
    <2> QED
      BY <2>2, <2>3
  <1>8. ASSUME Undisturbed PROVE Shown(new, T \cup {t}, OpenOf(n, o.reqs))
    <2>1. Alone
      BY <1>8 DEF Undisturbed, Alone
    <2>2. Named(old, T) /\ Shown(old, T, OpenOf(n, reqs)) /\ (Aliased(old) => old.conv = 0 \/ old.conv \in old.olds)
      BY <1>8, <2>1 DEF RowInv, Alone
    <2>3. Shown(o.row, T \cup {t}, OpenOf(n, o.reqs))
      BY <1>3, <2>2, ShownMoves
    <2> QED
      BY <2>3 DEF new
  <1>9. ASSUME Followed PROVE Newest(new, T \cup {t})
    <2>1. Alone /\ AtMostTwo
      BY <1>9 DEF Followed, Alone
    <2>2. Named(old, T) /\ Newest(old, T) /\ (Aliased(old) => old.conv = 0 \/ old.conv \in old.olds)
      BY <1>9, <2>1 DEF RowInv, Alone
    <2> QED
      BY <1>1, <1>3, <2>1, <2>2, NewestMoves
  <1>10. RowInv(new, T \cup {t}, OpenOf(n, o.reqs))
    BY <1>4, <1>5, <1>6, <1>7, <1>8, <1>9 DEF RowInv
  <1> QED
    BY <1>10 DEF new

LEMMA LiveMoves ==
  ASSUME IInv, LInv, NEW i \in 1..last, i \notin Heard, NEW n \in 1..Len(rows), rows[n].alive = TRUE,
         NEW o, o = Outcomes(i, n), NEW t, t.event = i, t.applied = o.applied
  PROVE  /\ RowInv(o.row, Told(n) \cup {t}, OpenOf(n, o.reqs))
         /\ SameBirth(o.row, rows[n]) /\ (~o.row.alive => sent[i].kind = "end")
  <1> DEFINE old == rows[n]
             T == Told(n)
  <1>1. n \in 1..MaxEvents + 1 /\ Fits(n, old, reqs) /\ old \in Row /\ old = rows[n] /\ old.alive = TRUE
    BY RowsBounded
  <1>2. EventsInv /\ RequestsInv /\ reqs \subseteq Request /\ LifeInv
    BY DEF IInv, RequestsInv, LInv
  <1>3. o.row \in Row
    <2>1. Fits(n, o.row, o.reqs)
      BY <1>1, <1>2, OutcomesIs
    <2> QED
      BY <2>1 DEF Fits
  <1>4. Moves(i, n, old, o.row, o.applied)
    BY <1>1, <1>2, OutcomeRow
  <1>5. Prompts(i, n, old, o)
    BY <1>1, <1>2, OutcomeReqs
  <1>6. T = Told(n) /\ Tells(T)
    <2>1. \A s \in seen : s.event \in 1..last
      <3>1. \A s \in seen : s.event \in 1..clock
        BY <1>2 DEF EventsInv
      <3>2. clock \in Nat /\ last \in Nat /\ clock <= last
        BY <1>2 DEF EventsInv
      <3> QED
        BY <3>1, <3>2
    <2> QED
      BY <2>1 DEF Told, Tells
  <1>7. RowInv(old, T, OpenOf(n, reqs))
    BY DEF LInv, RowsInv
  <1>8. Len(rows) <= 1 => (Aliased(old) => old.conv = 0 \/ old.conv \in old.olds)
    <2> SUFFICES ASSUME Len(rows) <= 1, Aliased(old) PROVE old.conv = 0 \/ old.conv \in old.olds
      OBVIOUS
    <2>1. DOMAIN rows = 1..Len(rows) /\ Len(rows) \in Nat
      BY HeardIs DEF IInv
    <2>2. n = 1 /\ DOMAIN rows = {n}
      BY <2>1
    <2> QED
      BY <2>2 DEF Aliased
  <1> HIDE DEF old, T
  <1>9. RowInv(o.row, T \cup {t}, OpenOf(n, o.reqs))
    BY <1>1, <1>2, <1>3, <1>4, <1>5, <1>6, <1>7, <1>8, RowMoves
  <1>10. SameBirth(o.row, old) /\ (~o.row.alive => sent[i].kind = "end")
    BY <1>4 DEF Moves
  <1> QED
    BY <1>9, <1>10 DEF old, T

LEMMA KnownKeepsMore ==
  ASSUME IInv, LInv, NEW i \in 1..last, i \notin Heard, NEW n \in Resolve(i), Known(i, n),
         clock' = IF i > clock THEN i ELSE clock, UNCHANGED <<process, life, created, signals>>
  PROVE  LInv'
  <1> DEFINE o == Outcomes(i, n)
             row == o.row
             set == o.reqs
             t == [event |-> i, row |-> n, applied |-> o.applied]
  <1>1. n \in 1..Len(rows) /\ rows \in Seq(Row) /\ EventsInv /\ Len(rows) \in Nat
    BY ResolveIs, HeardIs DEF IInv
  <1>2. (row.alive => rows[n].alive) /\ Turned(n, reqs, set, Heeded(n, i))
    <2>1. n \in 1..MaxEvents + 1 /\ Fits(n, rows[n], reqs)
      BY <1>1, RowsBounded
    <2> QED
      BY <2>1, OutcomesIs DEF IInv
  <1>3. rows' = [rows EXCEPT ![n] = row] /\ reqs' = set /\ seen' = seen \cup {t}
    BY DEF Known, Record
  <1>4. sent' = sent /\ created' = created /\ signals' = signals /\ last' = last
    BY DEF process, life
  <1>5. rows[n].alive = TRUE =>
          /\ RowInv(row, Told(n) \cup {t}, OpenOf(n, set))
          /\ SameBirth(row, rows[n]) /\ (~row.alive => sent[i].kind = "end")
    <2>1. t.event = i /\ t.applied = o.applied
      OBVIOUS
    <2> HIDE DEF o, t
    <2>2. o = Outcomes(i, n)
      BY DEF o
    <2> QED
      BY <1>1, <2>1, <2>2, LiveMoves
  <1>6. t.row = n /\ t.event = i
    OBVIOUS
  <1> HIDE DEF o, row, set, t
  <1>7. Len(rows') = Len(rows) /\ rows'[n] = row /\ \A m \in 1..Len(rows) : m # n => rows'[m] = rows[m]
    BY <1>1, <1>3
  <1>8. (Alone' => Alone) /\ (Undisturbed' => Undisturbed) /\ (Followed' => Followed)
    BY <1>4, <1>7 DEF Alone, Undisturbed, Followed, AtMostTwo
  <1>9. Told(n)' = Told(n) \cup {t} /\ \A m : m # n => Told(m)' = Told(m)
    BY <1>3, <1>6, ToldGrows
  <1>10. clock' >= clock /\ clock \in Nat /\ clock' \in Nat
    BY <1>1 DEF EventsInv
  <1>11. ASSUME NEW m \in 1..Len(rows), rows'[m].alive
         PROVE  rows'[m].started <= Now(clock') /\ RowInv(rows[m], Told(m), OpenOf(m, reqs))'
    <2>1. rows[m].alive /\ rows[m].alive = TRUE
      <3>1. rows[m].alive
        BY <1>2, <1>7, <1>11
      <3>2. rows[m] \in Row
        BY <1>1
      <3> QED
        BY <3>1, <3>2 DEF Row
    <2>2. rows[m].started <= Now(clock) /\ RowInv(rows[m], Told(m), OpenOf(m, reqs))
      BY <2>1 DEF LInv, RowsInv
    <2>3. rows'[m].started = rows[m].started
      BY <1>5, <1>7, <2>1 DEF SameBirth
    <2>4. rows'[m].started <= Now(clock')
      <3>1. rows[m].started \in Nat
        <4>1. rows[m] \in Row
          BY <1>1
        <4> QED
          BY <4>1 DEF Row, Time
      <3> QED
        BY <1>10, <2>2, <2>3, <3>1 DEF Now
    <2>5. CASE m = n
      <3> DEFINE T == Told(n) \cup {t}
                 open == OpenOf(n, set)
      <3>1. RowInv(row, T, open)
        BY <1>5, <2>1, <2>5
      <3>2. Told(n)' = T /\ OpenOf(n, reqs)' = open /\ rows'[n] = row
        BY <1>3, <1>7, <1>9 DEF OpenOf
      <3> HIDE DEF T, open
      <3>3. /\ Clocked(row, T) /\ Unanswered(T, open) /\ Counted(row, T)
            /\ Alone' => Named(row, T) /\ Unheeded(row, T)
            /\ Undisturbed' => Shown(row, T, open)
            /\ Followed' => Newest(row, T)
        BY <1>8, <3>1 DEF RowInv
      <3>4. RowInv(rows[n], Told(n), OpenOf(n, reqs))'
        BY <1>4, <3>2, <3>3, RowCarries
      <3> QED
        BY <2>4, <2>5, <3>4
    <2>6. CASE m # n
      <3>1. OpenOf(m, set) = OpenOf(m, reqs)
        BY <1>2, <2>6, OpenStays
      <3>2. OpenOf(m, reqs)' = OpenOf(m, reqs)
        BY <1>3, <3>1 DEF OpenOf
      <3>3. rows'[m] = rows[m] /\ Told(m)' = Told(m)
        BY <1>7, <1>9, <2>6
      <3>4. RowInv(rows[m], Told(m), OpenOf(m, reqs))'
        BY <1>4, <1>8, <2>2, <3>2, <3>3, RowStays
      <3> QED
        BY <2>4, <3>4
    <2> QED
      BY <2>5, <2>6
  <1>12. RowsInv'
    BY <1>7, <1>11 DEF RowsInv
  <1>13. EndTold'
    <2> SUFFICES ASSUME Undisturbed', NEW m \in 1..Len(rows), ~rows'[m].alive
                 PROVE  \E s \in seen' : sent[s.event].kind = "end"
      BY <1>4, <1>7 DEF EndTold
    <2>1. CASE ~rows[m].alive
      BY <1>3, <1>8, <2>1 DEF LInv, EndTold
    <2>2. CASE rows[m].alive
      <3>1. m = n /\ rows[n].alive = TRUE
        <4>1. m = n
          BY <1>7, <2>2
        <4>2. rows[n] \in Row
          BY <1>1
        <4> QED
          BY <2>2, <4>1, <4>2 DEF Row
      <3>2. sent[t.event].kind = "end" /\ t \in seen'
        BY <1>3, <1>5, <1>6, <1>7, <3>1
      <3> QED
        BY <3>2
    <2> QED
      BY <2>1, <2>2
  <1>14. LifeInv'
    BY <1>4 DEF LInv, LifeInv
  <1> QED
    BY <1>12, <1>13, <1>14 DEF LInv

LEMMA FoundOpens ==
  ASSUME EventsInv, NEW i \in 1..last, NEW n \in 1..MaxEvents + 1, NEW row, OpenOf(n, reqs) = {},
         NEW set, set = RequestHook(i, n, row, reqs, FALSE)
  PROVE  /\ \A q \in OpenOf(n, set) : q.at = Ts(i)
         /\ sent[i].kind \in Asking => \E q \in OpenOf(n, set) : q.at = Ts(i) /\ q.key = sent[i].of
  <1> DEFINE opened == Opened(i, n, row, reqs, FALSE)
  <1>1. \A q \in opened : q.row = n /\ q.open /\ q.at = Ts(i)
    BY DEF Opened
  <1>2. ClosedBy(i, n, reqs, FALSE) = {}
    BY ClosedByIs
  <1>3. Closed({}) = {}
    BY DEF Closed
  <1>4. set = reqs \cup opened
    BY <1>2, <1>3 DEF RequestHook
  <1>5. sent[i].kind \in Asking => \E q \in opened : q.at = Ts(i) /\ q.key = sent[i].of
    <2> SUFFICES ASSUME sent[i].kind \in Asking PROVE \E q \in opened : q.at = Ts(i) /\ q.key = sent[i].of
      OBVIOUS
    <2> DEFINE q == [row |-> n, key |-> sent[i].of, at |-> Ts(i), open |-> TRUE]
    <2>1. opened = {q} /\ q.at = Ts(i) /\ q.key = sent[i].of
      BY DEF Opened
    <2> QED
      BY <2>1
  <1> HIDE DEF opened
  <1>6. OpenOf(n, set) = opened
    BY <1>1, <1>4 DEF OpenOf
  <1> QED
    BY <1>1, <1>5, <1>6

(* A session that is found knows its first hook, and is told no more.      *)
Found(row, T, open) ==
  /\ Clocked(row, T) /\ Unanswered(T, open) /\ Counted(row, T) /\ Named(row, T) /\ Unheeded(row, T)
  /\ Shown(row, T, open) /\ Newest(row, T)

LEMMA FoundHolds ==
  ASSUME EventsInv, NEW i \in 1..last, NEW row \in Row, NEW open, NEW t, t.event = i, t.applied = TRUE,
         row.started = Ts(i), row.since = Ts(i), row.mid = (sent[i].kind \notin Starts), row.clearing = FALSE,
         row.conv = sent[i].conv, row.olds = {}, row.replaced = 0,
         sent[i].kind = "agent" => sent[i].of \in row.active,
         sent[i].kind \in Asking => \E q \in open : q.at = Ts(i) /\ q.key = sent[i].of
  PROVE  Found(row, {t}, open)
  <1>1. i \in Nat /\ i # 0 /\ sent[i].conv \in 1..MaxEvents /\ sent[i].conv \in Nat /\ Ts(i) \in Nat /\ Ts(i) # Now(0)
    <2>1. i \in Nat /\ i # 0 /\ sent[i].conv \in 1..MaxEvents
      BY HookIs DEF EventsInv
    <2> QED
      BY <2>1, BoundsAssumption DEF Ts, Now
  <1>2. Clocked(row, {t})
    BY <1>1 DEF Clocked
  <1>3. Unanswered({t}, open)
    BY <1>1 DEF Unanswered
  <1>4. Counted(row, {t})
    BY <1>1 DEF Counted, IsBack
  <1>5. Named(row, {t})
    <2>1. Floor(row) = Ts(i)
      BY DEF Floor
    <2>2. ~row.mid => sent[i].kind \in Starts
      OBVIOUS
    <2> QED
      BY <1>1, <2>1, <2>2 DEF Named
  <1>6. Unheeded(row, {t})
    BY DEF Unheeded
  <1>7. Shown(row, {t}, open)
    BY DEF Shown, Waits, ShownBy
  <1>8. Newest(row, {t})
    BY <1>1 DEF Newest
  <1> QED
    BY <1>2, <1>3, <1>4, <1>5, <1>6, <1>7, <1>8 DEF Found

LEMMA UnknownKeepsMore ==
  ASSUME IInv, LInv, NEW i \in 1..last, i \notin Heard, Resolve(i) = {}, Unknown(i),
         clock' = IF i > clock THEN i ELSE clock, UNCHANGED <<process, life, created, signals>>,
         NEW n, n = Len(rows) + 1
  PROVE  LInv'
  <1> DEFINE new == Discovered(i)
             active == IF sent[i].kind = "agent" THEN {sent[i].of} ELSE {}
             row == IF sent[i].kind = "agent" THEN [new EXCEPT !.active = {sent[i].of}] ELSE new
             set == RequestHook(i, n, row, reqs, FALSE)
             t == [event |-> i, row |-> n, applied |-> TRUE]
  <1>1. rows' = Append(rows, row) /\ reqs' = set /\ seen' = seen \cup {t}
    BY DEF Unknown
  <1>2. /\ EventsInv /\ rows \in Seq(Row) /\ Len(rows) \in Nat
        /\ \A m \in 1..Len(rows) : ~rows[m].alive
    BY ResolveIs, HeardIs DEF IInv
  <1>3. /\ row.started = Ts(i) /\ row.since = Ts(i) /\ row.mid = (sent[i].kind \notin Starts)
        /\ row.clearing = FALSE /\ row.conv = sent[i].conv /\ row.olds = {} /\ row.replaced = 0
        /\ row.active = active /\ row.alive = TRUE
    <2>1. CASE sent[i].kind = "agent"
      BY <2>1 DEF Discovered
    <2>2. CASE sent[i].kind # "agent"
      BY <2>2 DEF Discovered
    <2> QED
      BY <2>1, <2>2
  <1>4. row \in Row
    <2>1. new \in Row /\ (sent[i].kind = "agent" => {sent[i].of} \in SUBSET Agents)
      BY DiscoveredIs, HookIs DEF IInv, About
    <2> HIDE DEF new
    <2>2. CASE sent[i].kind = "agent"
      <3>1. row = [new EXCEPT !.active = {sent[i].of}]
        BY <2>2
      <3> HIDE DEF row
      <3> QED
        BY <2>1, <2>2, <3>1 DEF Row
    <2>3. CASE sent[i].kind # "agent"
      BY <2>1, <2>3
    <2> QED
      BY <2>2, <2>3
  <1>5. sent[i].kind = "agent" => sent[i].of \in active
    OBVIOUS
  <1>6. n = Len(rows) + 1 /\ n \in Nat /\ set = RequestHook(i, n, row, reqs, FALSE)
    BY <1>2
  <1>7. t.event = i /\ t.applied = TRUE /\ t.row = n
    OBVIOUS
  <1>8. n \in 1..MaxEvents + 1
    <2>1. Heard' = Heard \cup {i}
      <3> HIDE DEF t
      <3> QED
        BY <1>1, <1>7 DEF Heard
    <2>2. Cardinality(Heard') = Cardinality(Heard) + 1 /\ Cardinality(Heard') <= MaxEvents /\ Cardinality(Heard) \in Nat
      BY <2>1, HeardIs, HeardGrows
    <2>3. Len(rows) <= Cardinality(Heard) + (IF created = 0 THEN 0 ELSE 1)
      BY DEF IInv, RowsCounted
    <2> QED
      BY <1>2, <1>6, <2>2, <2>3, HeardIs
  <1>9. OpenOf(n, reqs) = {} /\ Told(n) = {}
    <2>1. Told(n) = {}
      BY <1>2 DEF EventsInv, Told
    <2> QED
      BY <2>1, NoneYet
  <1>10. sent' = sent /\ created' = created /\ signals' = signals
    BY DEF process, life
  <1>11. clock' >= i /\ clock' \in Nat /\ i \in Nat
    BY <1>2 DEF EventsInv
  <1> HIDE DEF new, active, row, set, t
  <1>12. Len(rows') = n /\ rows'[n] = row /\ \A m \in 1..Len(rows) : rows'[m] = rows[m]
    BY <1>1, <1>2, <1>4, <1>6
  <1>13. sent[i].kind \in Asking => \E q \in OpenOf(n, set) : q.at = Ts(i) /\ q.key = sent[i].of
    BY <1>2, <1>6, <1>8, <1>9, FoundOpens
  <1>14. RowInv(rows[n], Told(n), OpenOf(n, reqs))'
    <2> DEFINE T == {t}
               open == OpenOf(n, set)
    <2>1. Told(n)' = T /\ OpenOf(n, reqs)' = open
      <3>1. Told(n)' = Told(n) \cup {t}
        BY <1>1, <1>7, ToldGrows
      <3> QED
        BY <1>1, <1>9, <3>1 DEF OpenOf
    <2>2. Found(row, {t}, open)
      <3> HIDE DEF open
      <3>1. sent[i].kind \in Asking => \E q \in open : q.at = Ts(i) /\ q.key = sent[i].of
        BY <1>13 DEF open
      <3>2. sent[i].kind = "agent" => sent[i].of \in row.active
        BY <1>3, <1>5
      <3>3. /\ row.started = Ts(i) /\ row.since = Ts(i) /\ row.mid = (sent[i].kind \notin Starts)
            /\ row.clearing = FALSE /\ row.conv = sent[i].conv /\ row.olds = {} /\ row.replaced = 0
        BY <1>3
      <3> QED
        BY <1>2, <1>4, <1>7, <3>1, <3>2, <3>3, FoundHolds
    <2>3. /\ Clocked(row, T) /\ Unanswered(T, open) /\ Counted(row, T)
          /\ Named(row, T) /\ Unheeded(row, T) /\ Shown(row, T, open) /\ Newest(row, T)
      BY <2>2 DEF Found
    <2> HIDE DEF T, open
    <2> QED
      BY <1>10, <1>12, <2>1, <2>3, RowCarries
  <1>15. RowsInv'
    <2> SUFFICES ASSUME NEW m \in 1..n, rows'[m].alive
                 PROVE  rows'[m].started <= Now(clock') /\ RowInv(rows[m], Told(m), OpenOf(m, reqs))'
      BY <1>12 DEF RowsInv
    <2>1. m = n
      BY <1>2, <1>6, <1>12
    <2>2. rows'[m].started <= Now(clock')
      BY <1>3, <1>11, <1>12, <2>1 DEF Ts, Now
    <2> QED
      BY <1>14, <2>1, <2>2
  <1>16. EndTold'
    <2> SUFFICES ASSUME Undisturbed', NEW m \in 1..n, ~rows'[m].alive PROVE FALSE
      BY <1>12 DEF EndTold
    <2>1. n = 1
      BY <1>2, <1>6, <1>12 DEF Undisturbed
    <2> QED
      BY <1>3, <1>12, <2>1
  <1>17. LifeInv'
    BY <1>10 DEF LInv, LifeInv
  <1> QED
    BY <1>15, <1>16, <1>17 DEF LInv

(* The row of deckd: the one a hook has made, or one that is told nothing. *)
LEMMA CreateKeepsMore ==
  ASSUME IInv, LInv, NEW k \in clock..last, Create(k), NEW n, n = Len(rows) + 1
  PROVE  LInv'
  <1>1. /\ sent' = sent /\ reqs' = reqs /\ seen' = seen /\ clock' = k /\ created = 0 /\ created' = Now(k)
        /\ signals' = signals
    BY DEF Create, process
  <1>2. /\ clock \in Nat /\ k \in Nat /\ clock <= k /\ Now(k) \in Time /\ Now(k) # 0 /\ Len(rows) \in Nat /\ n \in Nat
        /\ Now(k) \in Nat
    <2>1. clock \in Nat /\ k \in 0..last /\ clock <= k /\ k <= MaxEvents /\ Len(rows) \in Nat
      BY HeardIs DEF IInv, EventsInv
    <2> QED
      BY <2>1, HeardIs, NowIs DEF Now
  <1>3. EventsInv /\ rows \in Seq(Row) /\ DOMAIN rows = 1..Len(rows)
    BY DEF IInv
  <1>4. ~Followed'
    BY <1>1, <1>2 DEF Followed
  <1>5. LifeInv'
    BY <1>1 DEF LInv, LifeInv
  <1>6. \A m : Told(m)' = Told(m) /\ OpenOf(m, reqs)' = OpenOf(m, reqs)
    BY <1>1 DEF Told, OpenOf
  <1>7. CASE \E m \in DOMAIN rows : rows[m].alive
    <2>1. rows' = [m \in DOMAIN rows |-> [rows[m] EXCEPT !.mid = @ /\ ~rows[m].alive]]
      BY <1>7 DEF Create
    <2>2. DOMAIN rows' = 1..Len(rows) /\ Len(rows') = Len(rows)
      BY <1>2, <1>3, <2>1
    <2>3. ~Alone' /\ ~Undisturbed'
      <3> SUFFICES ASSUME created' \in {0, Now(0)} PROVE FALSE
        BY DEF Alone, Undisturbed, Now
      <3>1. clock = 0
        BY <1>1, <1>2 DEF Now
      <3>2. Heard = {}
        BY <1>3, <3>1 DEF EventsInv, Heard
      <3>3. Len(rows) = 0
        BY <1>1, <1>2, <3>2, FS_EmptySet DEF IInv, RowsCounted
      <3> QED
        BY <1>3, <1>7, <3>3
    <2>4. ASSUME NEW m \in 1..Len(rows), rows'[m].alive
          PROVE  rows'[m].started <= Now(clock') /\ RowInv(rows[m], Told(m), OpenOf(m, reqs))'
      <3> DEFINE old == rows[m]
                 row == rows'[m]
                 T == Told(m)
                 open == OpenOf(m, reqs)
      <3>1. old \in Row
        BY <1>3
      <3>2. row = [old EXCEPT !.mid = @ /\ ~old.alive]
        BY <1>3, <2>1
      <3>3. old.alive
        BY <2>4, <3>1, <3>2 DEF Row
      <3>4. row = [old EXCEPT !.mid = FALSE]
        BY <3>2, <3>3
      <3>5. old.started <= Now(clock) /\ RowInv(old, T, open)
        BY <3>3 DEF LInv, RowsInv
      <3>6. Tells(T) /\ rows'[m] = row /\ Told(m)' = T /\ OpenOf(m, reqs)' = open
        <4>1. \A s \in seen : s.event \in 1..last
          BY <1>3 DEF EventsInv
        <4> QED
          BY <1>6, <4>1 DEF Tells, Told
      <3> HIDE DEF old, row, T, open
      <3>7. row.started = old.started /\ row.since = old.since /\ row.active = old.active /\ row.mid = FALSE /\ row \in Row
        BY <3>1, <3>4 DEF Row
      <3>8. Clocked(row, T) /\ Unanswered(T, open) /\ Counted(old, T)
        BY <3>5, <3>7 DEF RowInv, Clocked
      <3>9. BoundIn(row, T) \in Nat /\ BoundIn(old, T) \in Nat /\ BoundIn(row, T) >= BoundIn(old, T)
        <4>1. /\ BoundIn(row, T) \in Nat /\ BoundIn(row, T) >= IF row.mid THEN 0 ELSE row.started
              /\ \A s \in T : s.applied /\ sent[s.event].kind \in Starts \cup Ends => BoundIn(row, T) >= Ts(s.event)
          BY <1>3, <3>6, <3>7, BoundInIs
        <4>2. /\ BoundIn(old, T) \in Nat
              /\ \/ BoundIn(old, T) = IF old.mid THEN 0 ELSE old.started
                 \/ \E s \in T : s.applied /\ sent[s.event].kind \in Starts \cup Ends /\ BoundIn(old, T) = Ts(s.event)
          BY <1>3, <3>1, <3>6, BoundInIs
        <4> QED
          BY <3>7, <4>1, <4>2
      <3>10. Counted(row, T)
        <4>1. \A s \in T : Ts(s.event) \in Nat
          BY <1>3, <3>6 DEF Tells, EventsInv, Ts
        <4> QED
          BY <3>7, <3>8, <3>9, <4>1 DEF Counted
      <3>11. RowInv(rows[m], Told(m), OpenOf(m, reqs))'
        BY <1>1, <1>4, <2>3, <3>6, <3>8, <3>10, RowCarries
      <3>12. old.started \in Nat
        BY <3>1 DEF Row, Time
      <3> QED
        BY <1>1, <1>2, <3>5, <3>6, <3>7, <3>11, <3>12 DEF Now
    <2>5. RowsInv' /\ EndTold'
      BY <2>2, <2>3, <2>4 DEF RowsInv, EndTold
    <2> QED
      BY <1>5, <2>5 DEF LInv
  <1>8. CASE ~\E m \in DOMAIN rows : rows[m].alive
    <2> DEFINE row == [state |-> "starting", since |-> Now(k), started |-> Now(k), ended |-> 0,
                       alive |-> TRUE, mid |-> FALSE, active |-> {}, clearing |-> FALSE,
                       conv |-> 0, olds |-> {}, replaced |-> 0]
    <2>1. rows' = Append(rows, row) /\ row \in Row
      <3>1. 0 \in Time /\ MaxEvents \in Nat
        BY HeardIs DEF Time
      <3> QED
        BY <1>2, <1>8, <3>1 DEF Create, Row, States
    <2>2. /\ row.started = Now(k) /\ row.since = Now(k) /\ row.alive = TRUE /\ row.mid = FALSE
          /\ row.conv = 0 /\ row.olds = {} /\ row.replaced = 0
      OBVIOUS
    <2> HIDE DEF row
    <2>3. Len(rows') = n /\ rows'[n] = row /\ \A m \in 1..Len(rows) : rows'[m] = rows[m] /\ ~rows[m].alive
      BY <1>2, <1>3, <1>8, <2>1
    <2>4. RowInv(rows[n], Told(n), OpenOf(n, reqs))'
      <3> DEFINE T == {}
                 open == OpenOf(n, reqs)
      <3>1. Told(n)' = T /\ OpenOf(n, reqs)' = open
        BY <1>2, <1>3, <1>6 DEF Told, EventsInv
      <3>2. Clocked(row, T) /\ Unanswered(T, open) /\ Counted(row, T) /\ Unheeded(row, T) /\ Shown(row, T, open)
        BY <1>2, <2>2 DEF Clocked, Unanswered, Counted, Unheeded, Shown
      <3>3. Alone' => Named(row, T)
        <4> SUFFICES ASSUME created' \in {0, Now(0)} PROVE Named(row, T)
          BY DEF Alone, Now
        <4>1. row.started = Now(0) /\ Now(0) \in Nat
          BY <1>1, <1>2, <2>2 DEF Now
        <4>2. Floor(row) = Now(0)
          BY <2>2, <4>1 DEF Floor
        <4> QED
          BY <2>2, <4>1, <4>2 DEF Named
      <3> HIDE DEF T, open
      <3> QED
        BY <1>1, <1>4, <2>3, <3>1, <3>2, <3>3, RowCarries
    <2>5. RowsInv'
      <3> SUFFICES ASSUME NEW m \in 1..n, rows'[m].alive
                   PROVE  rows'[m].started <= Now(clock') /\ RowInv(rows[m], Told(m), OpenOf(m, reqs))'
        BY <2>3 DEF RowsInv
      <3>1. m = n
        BY <1>2, <2>3
      <3>2. rows'[m].started <= Now(clock')
        BY <1>1, <1>2, <2>2, <2>3, <3>1
      <3> QED
        BY <2>4, <3>1, <3>2
    <2>6. EndTold'
      <3> SUFFICES ASSUME Undisturbed', NEW m \in 1..n, ~rows'[m].alive PROVE FALSE
        BY <2>3 DEF EndTold
      <3>1. n = 1
        BY <1>2, <2>3 DEF Undisturbed
      <3> QED
        BY <2>2, <2>3, <3>1
    <2> QED
      BY <1>5, <2>5, <2>6 DEF LInv
  <1> QED
    BY <1>7, <1>8

(* What the server notices by itself leaves the name of a session alone.   *)
Quiet(row, old, k) ==
  /\ SameBirth(row, old) /\ SameNames(row, old) /\ row.active = old.active /\ row.clearing = old.clearing
  /\ row.since \in {old.since, Now(k)}

LEMMA QuietKeeps ==
  ASSUME EventsInv, NEW k \in clock..last, NEW row, NEW old \in Row, Quiet(row, old, k), NEW T,
         T \subseteq seen, NEW open, NEW was, open \subseteq was, old.started <= Now(clock),
         Clocked(old, T), Unanswered(T, was), Counted(old, T)
  PROVE  /\ Clocked(row, T) /\ Unanswered(T, open) /\ Counted(row, T) /\ row.started <= Now(k)
         /\ Named(old, T) /\ Unheeded(old, T) => Named(row, T) /\ Unheeded(row, T)
         /\ Newest(old, T) => Newest(row, T)
  <1>1. /\ row.started = old.started /\ row.mid = old.mid /\ row.conv = old.conv /\ row.olds = old.olds
        /\ row.replaced = old.replaced /\ row.active = old.active /\ row.clearing = old.clearing
        /\ row.since = old.since \/ row.since = Now(k)
    BY DEF Quiet, SameBirth, SameNames
  <1>2. /\ old.started \in Nat /\ k \in Nat /\ clock \in Nat /\ clock <= k
        /\ \A s \in T : s.event \in Nat /\ s.event <= k
    BY DEF Row, Time, EventsInv
  <1>3. Clocked(row, T) /\ row.started <= Now(k)
    <2>1. old.started <= Now(k)
      BY <1>2 DEF Now
    <2>2. \A s \in T : Ts(s.event) <= Now(k)
      BY <1>2 DEF Ts, Now
    <2> QED
      BY <1>1, <2>1, <2>2 DEF Clocked
  <1>4. Unanswered(T, open)
    BY DEF Unanswered
  <1>5. BoundIn(row, T) = BoundIn(old, T) /\ Floor(row) = Floor(old)
    BY <1>1 DEF BoundIn, Floor
  <1>6. Counted(row, T)
    BY <1>1, <1>5 DEF Counted
  <1>7. Named(old, T) => Named(row, T)
    BY <1>1, <1>5 DEF Named
  <1>8. Unheeded(old, T) => Unheeded(row, T)
    BY <1>1, <1>5 DEF Unheeded
  <1>9. Newest(old, T) => Newest(row, T)
    BY <1>1 DEF Newest
  <1> QED
    BY <1>3, <1>4, <1>6, <1>7, <1>8, <1>9

LEMMA SignalKeepsMore ==
  ASSUME IInv, LInv, NEW k \in clock..last, NEW n \in 1..Len(rows), NEW row, NEW gone, gone \subseteq OpenOf(n, reqs),
         NEW set, set = (reqs \ gone) \cup Closed(gone), Signal(k, n, row, set),
         row.alive => rows[n].alive /\ Quiet(row, rows[n], k)
  PROVE  LInv'
  <1>1. /\ sent' = sent /\ seen' = seen /\ created' = created /\ clock' = k /\ signals' = signals + 1
        /\ rows' = [rows EXCEPT ![n] = row] /\ reqs' = set
    BY DEF Signal, process
  <1>2. /\ EventsInv /\ rows \in Seq(Row) /\ clock \in Nat /\ k \in Nat /\ clock <= k /\ signals \in Nat
        /\ reqs \subseteq Request
    BY HeardIs, RequestsTyped DEF IInv, EventsInv
  <1>3. Len(rows') = Len(rows) /\ rows'[n] = row /\ \A m \in 1..Len(rows) : m # n => rows'[m] = rows[m]
    BY <1>1, <1>2
  <1>4. ~Undisturbed' /\ (Alone' => Alone) /\ (Followed' => Followed)
    <2>1. signals' # 0
      BY <1>1, <1>2
    <2> QED
      BY <1>1, <1>3, <2>1 DEF Alone, Undisturbed, Followed, AtMostTwo
  <1>5. /\ OpenOf(n, set) \subseteq OpenOf(n, reqs)
        /\ \A m : m # n => OpenOf(m, set) = OpenOf(m, reqs)
    <2>1. OpenOf(n, set) = OpenOf(n, reqs) \ gone
      BY <1>2, ClosingIs
    <2>2. Turned(n, reqs, set, {})
      BY <1>2, ClosingIs
    <2>3. ASSUME NEW m, m # n PROVE OpenOf(m, set) = OpenOf(m, reqs)
      BY <2>2, <2>3, OpenStays
    <2> QED
      BY <2>1, <2>3
  <1>6. ASSUME NEW m \in 1..Len(rows), rows'[m].alive
        PROVE  rows'[m].started <= Now(clock') /\ RowInv(rows[m], Told(m), OpenOf(m, reqs))'
    <2> DEFINE old == rows[m]
               T == Told(m)
               was == OpenOf(m, reqs)
               open == OpenOf(m, set)
               new == rows'[m]
    <2>1. old \in Row /\ T \subseteq seen
      BY <1>2 DEF Told
    <2>2. open \subseteq was
      BY <1>5
    <2>3. old.alive /\ Quiet(new, old, k)
      <3>1. CASE m = n
        BY <1>3, <1>6, <3>1
      <3>2. CASE m # n
        BY <1>3, <1>6, <3>2 DEF Quiet, SameBirth, SameNames
      <3> QED
        BY <3>1, <3>2
    <2>4. old.started <= Now(clock) /\ RowInv(old, T, was)
      BY <2>3 DEF LInv, RowsInv
    <2>5. rows'[m] = new /\ Told(m)' = T /\ OpenOf(m, reqs)' = open
      BY <1>1 DEF Told, OpenOf
    <2> HIDE DEF old, T, was, open, new
    <2>6. Clocked(old, T) /\ Unanswered(T, was) /\ Counted(old, T)
      BY <2>4 DEF RowInv
    <2>7. /\ Clocked(new, T) /\ Unanswered(T, open) /\ Counted(new, T) /\ new.started <= Now(k)
          /\ Named(old, T) /\ Unheeded(old, T) => Named(new, T) /\ Unheeded(new, T)
          /\ Newest(old, T) => Newest(new, T)
      BY <1>2, <2>1, <2>2, <2>3, <2>4, <2>6, QuietKeeps
    <2>8. (Alone' => Named(new, T) /\ Unheeded(new, T)) /\ (Followed' => Newest(new, T))
      BY <1>4, <2>4, <2>7 DEF RowInv
    <2>9. RowInv(rows[m], Told(m), OpenOf(m, reqs))'
      BY <1>1, <1>4, <2>5, <2>7, <2>8, RowCarries
    <2> QED
      BY <1>1, <2>5, <2>7, <2>9
  <1>7. RowsInv' /\ EndTold'
    BY <1>3, <1>4, <1>6 DEF RowsInv, EndTold
  <1>8. LifeInv'
    BY <1>1 DEF LInv, LifeInv
  <1> QED
    BY <1>7, <1>8 DEF LInv

LEMMA NoticedKeepsMore ==
  ASSUME IInv, LInv, NEW k \in clock..last, NEW n \in 1..Len(rows),
         ScreenIdle(k, n) \/ Stale(k, n) \/ Output(k, n) \/ Gone(k, n) \/ AliasWait(k, n)
  PROVE  LInv'
  <1> DEFINE old == rows[n]
             open == OpenOf(n, reqs)
  <1>1. old \in Row /\ Closed({}) = {}
    BY RowsBounded DEF Closed
  <1>2. \A state, since : since \in {old.since, Now(k)} =>
           /\ [old EXCEPT !.state = state, !.since = since].alive = old.alive
           /\ Quiet([old EXCEPT !.state = state, !.since = since], old, k)
           /\ [old EXCEPT !.state = state].alive = old.alive
           /\ Quiet([old EXCEPT !.state = state], old, k)
    <2> HIDE DEF old
    <2> QED
      BY <1>1 DEF Row, Quiet, SameBirth, SameNames
  <1>3. CASE ScreenIdle(k, n)
    <2>1. CASE Signal(k, n, [old EXCEPT !.state = "idle", !.since = Now(k)], reqs)
      <3> DEFINE row == [old EXCEPT !.state = "idle", !.since = Now(k)]
                 gone == {}
      <3>1. row.alive => old.alive /\ Quiet(row, old, k)
        BY <1>2
      <3>2. gone \subseteq open /\ reqs = (reqs \ gone) \cup Closed(gone)
        BY <1>1
      <3>3. Signal(k, n, row, reqs)
        BY <2>1
      <3> HIDE DEF row, gone
      <3> QED
        BY <3>1, <3>2, <3>3, SignalKeepsMore
    <2>2. CASE \E gone, state : /\ gone = {q \in open : q.key # Text}
                                /\ Signal(k, n, [old EXCEPT !.state = state, !.since = Now(k)],
                                          (reqs \ gone) \cup Closed(gone))
      <3>1. PICK gone, state : /\ gone = {q \in open : q.key # Text}
                               /\ Signal(k, n, [old EXCEPT !.state = state, !.since = Now(k)],
                                         (reqs \ gone) \cup Closed(gone))
        BY <2>2
      <3> DEFINE row == [old EXCEPT !.state = state, !.since = Now(k)]
                 set == (reqs \ gone) \cup Closed(gone)
      <3>2. row.alive => old.alive /\ Quiet(row, old, k)
        BY <1>2
      <3>3. gone \subseteq open /\ set = (reqs \ gone) \cup Closed(gone) /\ Signal(k, n, row, set)
        BY <3>1
      <3> HIDE DEF row, set
      <3> QED
        BY <3>2, <3>3, SignalKeepsMore
    <2> QED
      BY <1>3, <2>1, <2>2 DEF ScreenIdle
  <1>4. CASE Stale(k, n) \/ Output(k, n)
    <2>1. \E row : Signal(k, n, row, reqs) /\ row.alive = old.alive /\ Quiet(row, old, k)
      BY <1>2, <1>4 DEF Stale, Output
    <2>2. PICK row : Signal(k, n, row, reqs) /\ row.alive = old.alive /\ Quiet(row, old, k)
      BY <2>1
    <2> DEFINE gone == {}
    <2>3. gone \subseteq open /\ reqs = (reqs \ gone) \cup Closed(gone)
      BY <1>1
    <2> HIDE DEF gone
    <2> QED
      BY <2>2, <2>3, SignalKeepsMore
  <1>5. CASE Gone(k, n) \/ AliasWait(k, n)
    <2> DEFINE row == [old EXCEPT !.state = "over", !.alive = FALSE, !.since = Now(k), !.ended = Now(k)]
               gone == open
               set == (reqs \ gone) \cup Closed(gone)
    <2>1. Signal(k, n, row, set)
      BY <1>5 DEF Gone, AliasWait, Over
    <2>2. row.alive = FALSE
      BY <1>1 DEF Row
    <2>3. gone \subseteq open /\ set = (reqs \ gone) \cup Closed(gone)
      OBVIOUS
    <2> HIDE DEF row, gone, set
    <2> QED
      BY <2>1, <2>2, <2>3, SignalKeepsMore
  <1> QED
    BY <1>3, <1>4, <1>5

LEMMA VanishKeepsMore ==
  ASSUME IInv, LInv, NEW k \in clock..last, UNCHANGED <<process, rows, reqs, seen, created, signals>>,
         clock' \in {clock, k}
  PROVE  LInv'
  <1>1. /\ sent' = sent /\ rows' = rows /\ reqs' = reqs /\ seen' = seen /\ created' = created /\ signals' = signals
    BY DEF process
  <1>2. clock \in Nat /\ clock' \in Nat /\ clock <= clock' /\ rows \in Seq(Row)
    BY DEF IInv, EventsInv
  <1>3. (Alone' => Alone) /\ (Undisturbed' => Undisturbed) /\ (Followed' => Followed)
    BY <1>1 DEF Alone, Undisturbed, Followed, AtMostTwo
  <1>4. ASSUME NEW m \in 1..Len(rows), rows[m].alive
        PROVE  rows'[m].started <= Now(clock') /\ RowInv(rows[m], Told(m), OpenOf(m, reqs))'
    <2>1. rows[m].started <= Now(clock) /\ RowInv(rows[m], Told(m), OpenOf(m, reqs))
      BY <1>4 DEF LInv, RowsInv
    <2>2. rows'[m] = rows[m] /\ Told(m)' = Told(m) /\ OpenOf(m, reqs)' = OpenOf(m, reqs)
      BY <1>1 DEF Told, OpenOf
    <2>3. RowInv(rows[m], Told(m), OpenOf(m, reqs))'
      BY <1>1, <1>3, <2>1, <2>2, RowStays
    <2>4. rows[m].started \in Nat
      <3>1. rows[m] \in Row
        BY <1>2
      <3> QED
        BY <3>1 DEF Row, Time
    <2> QED
      BY <1>1, <1>2, <2>1, <2>3, <2>4 DEF Now
  <1>5. RowsInv' /\ EndTold'
    BY <1>1, <1>3, <1>4 DEF RowsInv, EndTold, LInv
  <1>6. LifeInv'
    BY <1>1 DEF LInv, LifeInv
  <1> QED
    BY <1>5, <1>6 DEF LInv

-----------------------------------------------------------------------------
(* All that is shown of the prompts and the agents.                        *)

LEMMA NextKeepsMore ==
  ASSUME IInv, LInv, [Next]_vars
  PROVE  LInv'
  <1>1. DOMAIN rows = 1..Len(rows) /\ EventsInv /\ Len(rows) \in Nat
    BY HeardIs DEF IInv
  <1>2. CASE UNCHANGED vars
    <2>1. clock \in clock..last /\ clock' = clock /\ UNCHANGED <<process, rows, reqs, seen, created, signals>>
      BY <1>1, <1>2 DEF vars, process, EventsInv
    <2> QED
      BY <2>1, VanishKeepsMore
  <1>3. ASSUME NEW i \in 1..last, Apply(i) PROVE LInv'
    <2>1. /\ i \notin Heard /\ clock' = IF i > clock THEN i ELSE clock
          /\ UNCHANGED <<process, life, created, signals>>
      BY <1>3 DEF Apply, Heard
    <2>2. CASE Resolve(i) = {} /\ Unknown(i)
      <3>1. PICK n \in Nat : n = Len(rows) + 1
        BY <1>1
      <3> QED
        BY <2>1, <2>2, <3>1, UnknownKeepsMore
    <2>3. CASE \E n \in Resolve(i) : Known(i, n)
      BY <2>1, <2>3, KnownKeepsMore
    <2> QED
      BY <1>3, <2>2, <2>3 DEF Apply
  <1>4. ASSUME NEW k \in clock..last, Create(k) PROVE LInv'
    <2>1. PICK n \in Nat : n = Len(rows) + 1
      BY <1>1
    <2> QED
      BY <1>4, <2>1, CreateKeepsMore
  <1>5. ASSUME NEW k \in clock..last, Vanish(k) PROVE LInv'
    BY <1>5, VanishKeepsMore DEF Vanish
  <1> QED
    BY <1>1, <1>2, <1>3, <1>4, <1>5, NoticedKeepsMore DEF Next

LEMMA InitLInv ==
  ASSUME Init
  PROVE  LInv
  <1>1. Len(rows) = 0
    BY DEF Init
  <1> QED
    BY <1>1, InitLife DEF LInv, RowsInv, EndTold

(* What the last two theorems follow from: what each session that lives    *)
(* makes of the hooks it was told of.                                      *)
THEOREM PromptsInvariant == Spec => [](IInv /\ LInv)
  <1>1. Init => IInv /\ LInv
    BY InitIInv, InitLInv
  <1>2. IInv /\ LInv /\ [Next]_vars => (IInv /\ LInv)'
    BY NextKeeps, NextKeepsMore
  <1> QED
    BY <1>1, <1>2, PTL DEF Spec

(* The prompts shown are those that wait: whatever order its hooks come    *)
(* in, the one session of a process shows every prompt that nothing has    *)
(* settled, unless it went by another conversation before, and none that   *)
(* its own conversation has answered (requestHook, Missing, Late).         *)
THEOREM PromptsAgree == Spec => []OpenPromptsAgree
  <1>1. ASSUME IInv, LInv PROVE OpenPromptsAgree
    <2>1. /\ EventsInv /\ LifeInv /\ RowsInv /\ EndTold /\ rows \in Seq(Row)
          /\ \A s \in seen : s.event \in 1..Len(sent) /\ s.event \in Nat /\ s.row \in 1..Len(rows) /\ s \in Told(s.row)
      <3>1. \A s \in seen : s.event \in 1..clock /\ s.row \in 1..Len(rows) /\ clock \in Nat /\ last \in Nat /\ clock <= last
                            /\ last <= Len(sent) /\ Len(sent) \in Nat
        BY <1>1 DEF IInv, EventsInv
      <3> QED
        BY <1>1, <3>1 DEF IInv, LInv, Told
    <2>2. ASSUME Undisturbed, NEW s \in seen, sent[s.event].kind \in Asking, sent[s.event].conv = rows[s.row].conv,
                 \A j \in Arrived : j > s.event => ~Settles(sent[j], sent[s.event])
          PROVE  \E q \in reqs : q.open /\ q.row = s.row /\ q.at = Ts(s.event)
      <3>1. rows[s.row].alive
        <4> SUFFICES ASSUME ~rows[s.row].alive PROVE FALSE
          OBVIOUS
        <4>1. PICK t \in seen : sent[t.event].kind = "end"
          BY <2>1, <2>2 DEF EndTold
        <4>2. t.event = Len(sent) /\ t.event # s.event /\ t.event \in Arrived
          BY <2>1, <2>2, <4>1 DEF LifeInv, Asking, Arrived
        <4>3. t.event > s.event
          BY <2>1, <4>2
        <4> QED
          BY <2>2, <4>1, <4>2, <4>3 DEF Settles
      <3>2. Shown(rows[s.row], Told(s.row), OpenOf(s.row, reqs))
        BY <2>1, <2>2, <3>1 DEF RowsInv, RowInv
      <3>3. Waits(Told(s.row), s)
        BY <2>2 DEF Waits, Told, Arrived
      <3>4. ~LeftBehind(rows[s.row], s)
        BY <2>2 DEF LeftBehind
      <3> QED
        BY <2>1, <3>2, <3>3, <3>4 DEF Shown, ShownBy, OpenOf
    <2>3. ASSUME NEW q \in reqs, NEW o \in seen, NEW s \in seen, q.open, q.key # Text, q.row = o.row,
                 q.at = Ts(o.event), s.row = o.row, s.event > o.event,
                 sent[s.event].conv = sent[o.event].conv
          PROVE  ~(sent[s.event].kind = "prompt" \/ (sent[s.event].kind = "post" /\ sent[s.event].of = q.key))
      <3>1. q \in OpenOf(o.row, reqs) /\ o \in Told(o.row) /\ s \in Told(o.row)
        BY <2>3 DEF OpenOf, Told
      <3>2. rows[o.row].alive
        BY <1>1, <2>1, <3>1 DEF IInv, RowsFit, Fits
      <3>3. Unanswered(Told(o.row), OpenOf(o.row, reqs))
        BY <2>1, <3>2 DEF RowsInv, RowInv
      <3> QED
        BY <2>3, <3>1, <3>3 DEF Unanswered
    <2> QED
      BY <2>2, <2>3 DEF OpenPromptsAgree
  <1> QED
    BY PromptsInvariant, <1>1, PTL

(* The one session of a process found at work goes by the newest of two    *)
(* conversations, and once all events are there it counts as at work the   *)
(* agents of its conversation that are not back, whatever the order        *)
(* (recordSessionIdentity, isObsoleteSessionStart, applySubagentLifecycle).*)
THEOREM NewestIs == Spec => []NewestConversation
  <1>1. ASSUME IInv, LInv PROVE NewestConversation
    <2>1. /\ EventsInv /\ LifeInv /\ RowsInv /\ rows \in Seq(Row) /\ DOMAIN rows = 1..Len(rows) /\ Len(rows) \in Nat
          /\ \A s \in seen : s.event \in 1..last /\ s.event \in 1..clock /\ s.event \in Nat /\ s.row \in 1..Len(rows)
          /\ clock \in Nat /\ last \in Nat /\ clock <= last
      <3>1. \A s \in seen : s.event \in 1..clock /\ s.row \in 1..Len(rows) /\ clock \in Nat /\ last \in Nat /\ clock <= last
        BY <1>1 DEF IInv, EventsInv
      <3>2. clock \in Nat /\ last \in Nat /\ clock <= last
        BY <1>1 DEF IInv, EventsInv
      <3> QED
        BY <1>1, <3>1, <3>2 DEF IInv, LInv
    <2>2. ASSUME created = 0, Len(rows) <= 1, \A i \in DOMAIN sent : sent[i].conv <= 2,
                 NEW n \in DOMAIN rows, rows[n].alive
          PROVE  rows[n].conv = Max({sent[s.event].conv : s \in {t \in seen : t.row = n}})
      <3> DEFINE S == {sent[s.event].conv : s \in {t \in seen : t.row = n}}
      <3>1. Newest(rows[n], Told(n))
        <4>1. Followed
          BY <2>2 DEF Followed, AtMostTwo
        <4> QED
          BY <2>1, <2>2, <4>1 DEF RowsInv, RowInv
      <3>2. rows[n].conv \in S /\ \A c \in S : c <= rows[n].conv
        BY <3>1 DEF Newest, Told
      <3>3. S \in SUBSET Time
        <4>1. \A i \in 1..last : sent[i].conv \in 1..MaxEvents
          BY <2>1, HookIs DEF EventsInv
        <4>2. \A c \in 1..MaxEvents : c \in Time
          BY BoundsAssumption DEF Time
        <4> QED
          BY <2>1, <4>1, <4>2
      <3> HIDE DEF S
      <3>4. Max(S) \in S /\ \A c \in S : c <= Max(S)
        BY <3>2, <3>3, MaxIs
      <3>5. \A c \in S : c \in Nat
        BY <3>3 DEF Time
      <3>6. rows[n].conv = Max(S)
        BY <3>2, <3>4, <3>5
      <3> QED
        BY <3>6 DEF S
    <2>3. ASSUME Whole, Undisturbed, NEW n \in DOMAIN rows, NEW i \in Arrived, rows[n].alive,
                 sent[i].kind = "agent", sent[i].conv = rows[n].conv,
                 \A l \in Arrived : l > i => sent[l].kind \notin Starts \cup Ends
          PROVE  sent[i].of \in rows[n].active <=>
                    ~\E l \in Arrived : l > i /\ sent[l].kind = "back" /\ sent[l].of = sent[i].of
      <3> DEFINE row == rows[n]
                 T == Told(n)
      <3>1. /\ Counted(row, T) /\ Named(row, T) /\ Unheeded(row, T) /\ row \in Row
        <4>1. Alone
          BY <2>3 DEF Undisturbed, Alone
        <4>2. RowInv(row, T, OpenOf(n, reqs))
          BY <2>1, <2>3 DEF RowsInv
        <4> QED
          BY <2>1, <2>3, <4>1, <4>2 DEF RowInv
      <3>2. T = seen /\ Arrived = {s.event : s \in T}
        <4>1. \A s \in seen : s.row = n
          BY <2>1, <2>3 DEF Undisturbed
        <4> QED
          BY <4>1 DEF Told, Arrived
      <3>3. Tells(T) /\ \A s \in T : s.event \in 1..clock /\ s.event \in 1..last /\ s.event \in Nat /\ s.event \in Arrived
        BY <2>1, <3>2 DEF Tells
      <3>4. PICK s \in T : s.event = i
        BY <2>3, <3>2
      <3> HIDE DEF row, T
      <3>5. i \in Nat /\ i # 0 /\ i \in 1..last
        BY <3>3, <3>4
      <3>6. ASSUME NEW f \in T, f.applied, sent[f.event].kind \in Starts \cup Ends PROVE Ts(f.event) <= Ts(i)
        <4>1. ~(f.event > i)
          BY <2>3, <3>3, <3>6
        <4> QED
          BY <3>3, <3>5, <4>1 DEF Ts
      <3>7. BoundIn(row, T) \in Nat /\ BoundIn(row, T) <= Ts(i)
        <4>1. /\ BoundIn(row, T) \in Nat
              /\ \/ BoundIn(row, T) = IF row.mid THEN 0 ELSE row.started
                 \/ \E f \in T : f.applied /\ sent[f.event].kind \in Starts \cup Ends /\ BoundIn(row, T) = Ts(f.event)
          BY <2>1, <3>1, <3>3, BoundInIs
        <4>2. Now(0) <= Ts(i) /\ 0 <= Ts(i)
          BY <3>5 DEF Now, Ts
        <4>3. row.mid \/ row.started <= Ts(i)
          BY <3>1, <3>6, <4>2 DEF Named
        <4> QED
          BY <3>6, <4>1, <4>2, <4>3
      <3>8. ASSUME NEW j \in 1..last, NEW l \in Arrived, j >= i, l > j PROVE sent[l].conv = sent[j].conv
        <4> SUFFICES ASSUME sent[j].conv # sent[l].conv PROVE FALSE
          OBVIOUS
        <4>1. l \in 1..clock /\ l \in 1..last /\ l \in Nat /\ j \in Nat
          BY <2>1, <2>3 DEF Whole
        <4>2. PICK r \in j + 1..l : sent[r].kind = "restart"
          BY <2>1, <3>8, <4>1, ConvsRise
        <4>3. r \in 1..clock /\ r > i
          BY <2>1, <3>5, <3>8, <4>1
        <4>4. r \in Arrived
          BY <2>3, <4>3 DEF Whole
        <4> QED
          BY <2>3, <4>2, <4>3, <4>4 DEF Starts
      <3>9. ASSUME NEW f \in T, f.event >= i, OfAgents(f.event) PROVE f.applied
        <4> SUFFICES ASSUME ~f.applied PROVE FALSE
          OBVIOUS
        <4>1. ~(Ts(f.event) < BoundIn(row, T))
          BY <3>3, <3>5, <3>7, <3>9 DEF Ts
        <4>2. sent[f.event].conv = row.conv
          <5>1. CASE f.event = i
            BY <2>3, <5>1 DEF row
          <5>2. CASE f.event > i
            BY <2>3, <3>3, <3>5, <3>8, <5>2 DEF row
          <5> QED
            BY <3>3, <3>5, <3>9, <5>1, <5>2
        <4>3. sent[f.event].conv \notin row.olds
          BY <3>1, <4>2 DEF Named
        <4>4. PICK g \in T : g.event > f.event /\ sent[g.event].conv # sent[f.event].conv
          BY <3>1, <3>9, <4>1, <4>3 DEF Unheeded
        <4> QED
          BY <3>3, <3>8, <3>9, <4>4
      <3>10. s.applied /\ Ts(s.event) >= BoundIn(row, T)
        BY <2>3, <3>3, <3>4, <3>5, <3>7, <3>9 DEF OfAgents
      <3>11. sent[i].of \in row.active <=> ~IsBack(T, s)
        BY <2>3, <3>1, <3>4, <3>10 DEF Counted
      <3>12. IsBack(T, s) <=> \E l \in Arrived : l > i /\ sent[l].kind = "back" /\ sent[l].of = sent[i].of
        <4>1. ASSUME NEW f \in T, f.event > i, sent[f.event].kind = "back" PROVE f.applied
          BY <3>3, <3>5, <3>9, <4>1 DEF OfAgents
        <4> QED
          BY <3>2, <3>4, <4>1 DEF IsBack
      <3> QED
        BY <3>11, <3>12 DEF row
    <2>4. Whole /\ Undisturbed =>
             \A n \in DOMAIN rows, i \in Arrived :
               LET since == {sent[j] : j \in {l \in Arrived : l > i}}
                   back == \E e \in since : e.kind = "back" /\ e.of = sent[i].of
               IN  /\ rows[n].alive /\ sent[i].kind = "agent" /\ sent[i].conv = rows[n].conv
                   /\ ~\E e \in since : e.kind \in Starts \cup Ends
                   => (sent[i].of \in rows[n].active <=> ~back)
      BY <2>3
    <2> QED
      BY <2>2, <2>4 DEF NewestConversation
  <1> QED
    BY PromptsInvariant, <1>1, PTL
=============================================================================
