----------------------------- MODULE FeedProofs -----------------------------
(***************************************************************************)
(* Theorems about module Feed, for any hooks, faults and caps: an event    *)
(* left in the spool is there until it is in the database, and the whole   *)
(* implements the safety part of FeedPromise: every event is applied at    *)
(* most once, and a tab shows a prefix of the log that never goes back.    *)
(***************************************************************************)
EXTENDS Feed, FiniteSetTheorems, SequenceTheorems, WellFoundedInduction, TLAPS

(* Ingestion: a key that is remembered is of an event that waits or is     *)
(* applied, and the files a drain removes have been applied.               *)
IngestInv ==
  /\ I!TypeOK /\ log \in Seq(Hooks) /\ IsInjective(log)
  /\ I!SpooledIsKept
  /\ \A h \in Range(seen): h \in pending \cup Range(log)
  /\ drain \in [at: {"idle", "read", "remove"}, taken: SUBSET Hooks]
  /\ drain.at = "remove" => drain.taken \subseteq Range(log)
  /\ server = "starting" => wire = {}

(* A tab shows the log up to its seq, and buffers nothing: what it could   *)
(* not show at once comes after the snapshot or the replay it waits for.   *)
TabInv ==
  /\ tab \in [link: {"off", "resyncing", "live"}, loaded: BOOLEAN, syncing: BOOLEAN,
              replaying: BOOLEAN, seq: 0..Len(log), have: SUBSET (1..Len(log)), buffer: {<<>>}]
  /\ tab.have = 1..tab.seq
  /\ tab.seq > 0 => tab.loaded
  /\ tab.link # "off" /\ (tab.replaying \/ ~tab.syncing) => tab.loaded
  /\ tab.link = "off" <=> conn.st = "gone"
  /\ tab.link = "off" => down = <<>>

Awaits(t) == t.syncing /\ ~t.replaying \* the snapshot, or the begin of a replay

ConnInv ==
  /\ conn \in [st: {"gone", "open", "syncing", "ready", "closed"}, pending: Seq(1..Len(log)),
               seq: 0..Len(log), snap: 0..Len(log)]
  /\ old \subseteq 1..Len(log)
  /\ hello = IF conn.st = "open" THEN tab.seq ELSE H!None
  /\ conn.st \in {"open", "syncing"} => down = <<>> /\ Awaits(tab)
  /\ conn.st \in {"gone", "open", "ready"} => conn.pending = <<>>
  /\ conn.st = "syncing" => /\ tab.seq <= conn.snap
                            /\ conn.pending = [i \in 1..(Len(log) - conn.snap) |-> conn.snap + i]

(* The frames on the wire follow one another without a gap: the first goes *)
(* on where the tab is, and the last, of a socket that is ready, is where  *)
(* the log is.                                                             *)
Frames(n) == [t: {"snapshot", "event", "end"}, seq: 0..n] \cup {[t |-> "begin"]}
Goes(n, g) == g = [t |-> "event", seq |-> n + 1] \/ g = [t |-> "end", seq |-> n]
Then(t, f, g) == IF f.t = "begin" THEN Goes(t.seq, g) ELSE Goes(f.seq, g)
First(t, f) ==
  IF Awaits(t) THEN (f = [t |-> "begin"] /\ t.loaded) \/ (f.t = "snapshot" /\ f.seq >= t.seq)
  ELSE Goes(t.seq, f)
WireOK(d, t, n) ==
  /\ d \in Seq(Frames(n))
  /\ d # <<>> => First(t, d[1])
  /\ \A i \in 1..Len(d) - 1: Then(t, d[i], d[i + 1])
UpTo(d, t, n) ==
  IF d = <<>> THEN t.seq = n /\ ~Awaits(t) ELSE d[Len(d)].t # "begin" /\ d[Len(d)].seq = n

WireInv ==
  /\ Len(down) <= WireCap /\ WireOK(down, tab, Len(log))
  /\ conn.st = "ready" => conn.seq = Len(log) /\ UpTo(down, tab, Len(log))

IInv == IngestInv /\ TabInv /\ ConnInv /\ WireInv
-----------------------------------------------------------------------------
(* The operators of the two components are those of the library.           *)

LEMMA SameSets ==
  /\ \A S: I!Cardinality(S) = Cardinality(S) /\ H!Cardinality(S) = Cardinality(S)
  /\ \A f: I!Range(f) = Range(f) /\ H!Range(f) = Range(f)
  BY DEF I!Cardinality, H!Cardinality, Cardinality, I!Range, H!Range, Range

LEMMA RangeIs ==
  ASSUME NEW S, NEW s \in Seq(S)
  PROVE  /\ Range(s) = {s[i]: i \in 1..Len(s)} /\ Range(s) \subseteq S
         /\ \A x: x \in Range(s) <=> \E i \in 1..Len(s): s[i] = x
  BY DEF Range

(* Rows: the elements of a set, each at its place.                         *)
LEMMA RowsAre ==
  ASSUME NEW S, IsFiniteSet(S), S \subseteq Nat
  PROVE  /\ I!Rows(S) \in Seq(S) /\ Len(I!Rows(S)) = Cardinality(S)
         /\ IsInjective(I!Rows(S)) /\ Range(I!Rows(S)) = S
  <1> DEFINE N == 1..Cardinality(S)
             upTo(h) == {g \in S: g <= h}
             place == [h \in S |-> Cardinality(upTo(h))]
  <1>1. Cardinality(S) \in Nat /\ IsFiniteSet(N) /\ Cardinality(N) = Cardinality(S)
    BY FS_CardinalityType, FS_Interval
  <1>2. ASSUME NEW h \in S
        PROVE  IsFiniteSet(upTo(h)) /\ Cardinality(upTo(h)) \in N
    <2>1. /\ IsFiniteSet(upTo(h)) /\ Cardinality(upTo(h)) <= Cardinality(S)
          /\ Cardinality(upTo(h)) \in Nat
      BY FS_Subset, FS_CardinalityType
    <2>2. h \in upTo(h)
      OBVIOUS
    <2>3. Cardinality(upTo(h)) # 0
      BY <2>1, <2>2, FS_EmptySet
    <2> QED
      BY <1>1, <2>1, <2>3
  <1>3. ASSUME NEW g \in S, NEW h \in S, g < h
        PROVE  Cardinality(upTo(g)) # Cardinality(upTo(h))
    <2>1. g \in Nat /\ h \in Nat
      OBVIOUS
    <2>2. h \in upTo(h) /\ h \notin upTo(g)
      BY <1>3, <2>1
    <2>3. ASSUME NEW x \in upTo(g)
          PROVE  x \in upTo(h)
      <3>1. x \in Nat /\ x \in S /\ x <= g
        OBVIOUS
      <3> QED
        BY <1>3, <2>1, <3>1
    <2>4. upTo(g) \subseteq upTo(h)
      BY <2>3
    <2> HIDE DEF upTo
    <2> QED
      BY <1>2, <2>2, <2>4, FS_Subset
  <1>4. place \in Injection(S, N)
    <2>1. place \in [S -> N]
      BY <1>2
    <2>2. \A g, h \in S: place[g] = place[h] => g = h
      <3> SUFFICES ASSUME NEW g \in S, NEW h \in S, place[g] = place[h], g # h
                   PROVE  FALSE
        OBVIOUS
      <3>1. g < h \/ h < g
        OBVIOUS
      <3> QED
        BY <1>3, <3>1
    <2> QED
      BY <2>1, <2>2 DEF Injection, IsInjective
  <1>5. place \in Surjection(S, N)
    BY <1>1, <1>4, FS_Injection
  <1>6. ASSUME NEW i \in N
        PROVE  /\ I!Rows(S)[i] \in S /\ Cardinality(upTo(I!Rows(S)[i])) = i
    <2>1. PICK h \in S: place[h] = i
      BY <1>5 DEF Surjection
    <2>2. I!Rows(S)[i] = CHOOSE g \in S: Cardinality(upTo(g)) = i
      BY <1>1, SameSets DEF I!Rows, I!Place
    <2> QED
      BY <2>1, <2>2
  <1>7. I!Rows(S) = [i \in N |-> I!Rows(S)[i]]
    BY SameSets DEF I!Rows
  <1>8. I!Rows(S) \in Seq(S) /\ Len(I!Rows(S)) = Cardinality(S) /\ DOMAIN I!Rows(S) = N
    <2> HIDE DEF upTo
    <2>1. \A i \in N: I!Rows(S)[i] \in S
      BY <1>6
    <2>2. DOMAIN I!Rows(S) = N
      BY <1>7
    <2>3. I!Rows(S) \in [N -> S]
      BY <1>7, <2>1, <2>2
    <2> QED
      BY <1>1, <2>2, <2>3
  <1>9. ASSUME NEW h \in S
        PROVE  h \in Range(I!Rows(S))
    <2> DEFINE i == Cardinality(upTo(h))
    <2>1. i \in N
      BY <1>2
    <2>2. I!Rows(S)[i] \in S /\ Cardinality(upTo(I!Rows(S)[i])) = i
      BY <1>6, <2>1
    <2>3. I!Rows(S)[i] = h
      <3> SUFFICES ASSUME I!Rows(S)[i] # h PROVE FALSE
        OBVIOUS
      <3>1. I!Rows(S)[i] < h \/ h < I!Rows(S)[i]
        <4>1. h \in Nat /\ I!Rows(S)[i] \in Nat
          BY <2>2
        <4> QED
          BY <4>1
      <3> QED
        BY <1>3, <2>2, <3>1
    <2> QED
      BY <1>8, <2>1, <2>3 DEF Range
  <1>10. IsInjective(I!Rows(S))
    <2> SUFFICES ASSUME NEW i \in N, NEW j \in N, I!Rows(S)[i] = I!Rows(S)[j]
                 PROVE  i = j
      BY <1>8 DEF IsInjective
    <2> QED
      BY <1>6
  <1>11. Range(I!Rows(S)) \subseteq S
    BY <1>6, <1>8 DEF Range
  <1> QED
    BY <1>8, <1>9, <1>10, <1>11

(* What is applied: the log grows by what it does not hold.                *)
Grown(was, now) ==
  /\ now \in Seq(Hooks) /\ IsInjective(now) /\ Len(was) <= Len(now)
  /\ \A i \in 1..Len(was): now[i] = was[i]
  /\ Range(was) \subseteq Range(now)

LEMMA AppliedIs ==
  ASSUME NEW was \in Seq(Hooks), IsInjective(was), NEW rows \in Seq(Hooks),
         NEW now, now = I!Apply(was, rows)
  PROVE  Grown(was, now) /\ Range(now) = Range(was) \cup Range(rows)
  <1> DEFINE new == Range(rows) \ Range(was)
             more == I!Rows(new)
  <1>1. Range(was) \subseteq Hooks /\ Range(rows) \subseteq Hooks
    BY RangeIs
  <1>2. IsFiniteSet(new) /\ new \subseteq Nat /\ new \subseteq Hooks
    BY <1>1, HooksAssumption, FS_Subset
  <1>3. more \in Seq(new) /\ IsInjective(more) /\ Range(more) = new
    BY <1>2, RowsAre
  <1>4. now = was \o more
    BY SameSets DEF I!Apply
  <1> HIDE DEF more
  <1>5. more \in Seq(Hooks)
    BY <1>2, <1>3
  <1>6. /\ was \o more \in Seq(Hooks) /\ Len(was \o more) = Len(was) + Len(more)
        /\ \A i \in 1..Len(was) + Len(more):
              (was \o more)[i] = IF i <= Len(was) THEN was[i] ELSE more[i - Len(was)]
    BY <1>5, ConcatProperties
  <1>7. Len(was) \in Nat /\ Len(more) \in Nat
    BY <1>5, LenProperties
  <1>8. ASSUME NEW i \in 1..Len(more)
        PROVE  now[Len(was) + i] = more[i] /\ Len(was) + i \in 1..Len(now) /\ more[i] \in new
    <2>1. more[i] \in new
      BY <1>3, <1>7
    <2> QED
      BY <1>4, <1>6, <1>7, <2>1
  <1>9. \A i \in 1..Len(was): now[i] = was[i] /\ i \in 1..Len(now)
    BY <1>4, <1>6, <1>7
  <1>10. Range(now) = Range(was) \cup new
    <2>0. now \in Seq(Hooks)
      BY <1>4, <1>6
    <2>1. ASSUME NEW x \in Range(was)
          PROVE  x \in Range(now)
      <3>1. PICK i \in 1..Len(was): was[i] = x
        BY RangeIs
      <3> QED
        BY <1>9, <2>0, <3>1, RangeIs
    <2>2. ASSUME NEW x \in new
          PROVE  x \in Range(now)
      <3>1. PICK i \in 1..Len(more): more[i] = x
        BY <1>3, RangeIs
      <3> QED
        BY <1>8, <2>0, <3>1, RangeIs
    <2>3. ASSUME NEW i \in 1..Len(now)
          PROVE  now[i] \in Range(was) \cup new
      <3>1. CASE i <= Len(was)
        BY <1>4, <1>6, <1>7, <2>3, <3>1, RangeIs
      <3>2. CASE ~(i <= Len(was))
        <4>1. i - Len(was) \in 1..Len(more) /\ now[i] = more[i - Len(was)]
          BY <1>4, <1>6, <1>7, <2>3, <3>2
        <4> QED
          BY <1>8, <4>1
      <3> QED
        BY <3>1, <3>2
    <2>4. ASSUME NEW x \in Range(now)
          PROVE  x \in Range(was) \cup new
      BY <2>0, <2>3, RangeIs
    <2> QED
      BY <2>1, <2>2, <2>4
  <1>11. IsInjective(now)
    <2> SUFFICES ASSUME NEW i \in 1..Len(now), NEW j \in 1..Len(now), now[i] = now[j], i < j
                 PROVE  FALSE
      BY <1>4, <1>6 DEF IsInjective
    <2>1. CASE j <= Len(was)
      BY <1>7, <1>9, <2>1 DEF IsInjective
    <2>2. CASE ~(j <= Len(was))
      <3>1. j - Len(was) \in 1..Len(more) /\ now[j] = more[j - Len(was)]
        BY <1>4, <1>6, <1>7, <2>2
      <3>2. CASE i <= Len(was)
        <4>1. now[i] \in Range(was)
          BY <1>7, <1>9, <3>2, RangeIs
        <4> QED
          BY <1>8, <3>1, <4>1
      <3>3. CASE ~(i <= Len(was))
        <4>1. i - Len(was) \in 1..Len(more) /\ now[i] = more[i - Len(was)]
          BY <1>4, <1>6, <1>7, <3>3
        <4> QED
          BY <1>3, <1>7, <3>1, <4>1 DEF IsInjective
      <3> QED
        BY <3>2, <3>3
    <2> QED
      BY <2>1, <2>2
  <1> QED
    BY <1>4, <1>6, <1>7, <1>9, <1>10, <1>11 DEF Grown

(* Induction over 0..n, for a set.                                         *)
LEMMA UpTo0 ==
  ASSUME NEW n \in Nat, NEW S, 0 \in S, \A k \in 0..n: k \in S /\ k < n => k + 1 \in S
  PROVE  \A k \in 0..n: k \in S
  <1> DEFINE R == OpToRel(<, Nat)
             bad == (0..n) \ S
  <1> SUFFICES ASSUME bad # {} PROVE FALSE
    OBVIOUS
  <1>1. IsWellFoundedOn(R, Nat)
    BY NatLessThanWellFounded
  <1>2. bad \subseteq Nat
    OBVIOUS
  <1>3. PICK m \in bad: \A u \in bad: ~(<<u, m>> \in R)
    <2> HIDE DEF R, bad
    <2> QED
      BY <1>1, <1>2, WFMin
  <1>4. \A u \in bad: ~(u < m)
    BY <1>2, <1>3 DEF OpToRel
  <1>5. m \in 0..n /\ m # 0 /\ m \notin S
    OBVIOUS
  <1>6. m - 1 \in 0..n /\ m - 1 < m /\ m - 1 < n /\ (m - 1) + 1 = m
    BY <1>5
  <1>7. m - 1 \in S
    BY <1>4, <1>6
  <1> QED
    BY <1>5, <1>6, <1>7

(* receive: the memory holds no more than its cap, and nothing new but the *)
(* event itself.                                                           *)
LEMMA RemembersIs ==
  ASSUME NEW keys \in Seq(Hooks), Len(keys) <= SeenCap, NEW h \in Hooks,
         NEW more, more = I!Remember(keys, h)
  PROVE  /\ more \in Seq(Hooks) /\ Len(more) <= SeenCap
         /\ Range(more) \subseteq Range(keys) \cup {h}
  <1> DEFINE all == Append(keys, h)
  <1>1. /\ all \in Seq(Hooks) /\ Len(all) = Len(keys) + 1 /\ Len(keys) \in Nat
        /\ \A i \in 1..Len(all): all[i] = IF i <= Len(keys) THEN keys[i] ELSE h
    OBVIOUS
  <1>2. SeenCap \in Nat
    BY CapsAssumption
  <1>3. ASSUME NEW i \in 1..Len(all)
        PROVE  all[i] \in Range(keys) \cup {h}
    <2>1. CASE i <= Len(keys)
      BY <1>1, <2>1, RangeIs
    <2>2. CASE ~(i <= Len(keys))
      BY <1>1, <2>2
    <2> QED
      BY <2>1, <2>2
  <1>4. more = IF Len(all) > SeenCap THEN Tail(all) ELSE all
    BY DEF I!Remember
  <1> HIDE DEF all
  <1>5. CASE Len(all) > SeenCap
    <2>1. all # <<>>
      BY <1>1
    <2>2. /\ more \in Seq(Hooks) /\ Len(more) = Len(keys)
          /\ \A i \in 1..Len(more): more[i] = all[i + 1]
      BY <1>1, <1>4, <1>5, <2>1, HeadTailProperties
    <2>3. \A i \in 1..Len(more): more[i] \in Range(keys) \cup {h}
      BY <1>1, <1>3, <2>2
    <2>4. Range(more) \subseteq Range(keys) \cup {h}
      BY <2>2, <2>3, RangeIs
    <2> QED
      BY <2>2, <2>4
  <1>6. CASE ~(Len(all) > SeenCap)
    <2>1. more = all /\ Len(more) <= SeenCap
      BY <1>1, <1>2, <1>4, <1>6
    <2>2. Range(more) \subseteq Range(keys) \cup {h}
      BY <1>1, <1>3, <2>1, RangeIs
    <2> QED
      BY <1>1, <2>1, <2>2
  <1> QED
    BY <1>5, <1>6

(* What is known of the memory and the new events after the first k rows.  *)
Learnt(keys, rows, k, m) ==
  /\ m = [seen |-> m.seen, new |-> m.new]
  /\ m.seen \in Seq(Hooks) /\ Len(m.seen) <= SeenCap
  /\ m.new \subseteq Range(rows)
  /\ Range(m.seen) \subseteq Range(keys) \cup m.new
  /\ \A i \in 1..k: rows[i] \in Range(keys) \cup m.new

LEMMA Learns ==
  ASSUME NEW keys \in Seq(Hooks), NEW rows \in Seq(Hooks), NEW k \in 0..Len(rows), k < Len(rows),
         NEW m, Learnt(keys, rows, k, m), NEW now, now = I!Received(m, rows[k + 1])
  PROVE  Learnt(keys, rows, k + 1, now)
  <1> DEFINE h == rows[k + 1]
  <1>1. Len(rows) \in Nat /\ k + 1 \in 1..Len(rows)
    BY LenProperties
  <1>2. h \in Hooks /\ h \in Range(rows)
    BY <1>1, RangeIs
  <1>3. now = IF h \in Range(m.seen) THEN m
              ELSE [seen |-> I!Remember(m.seen, h), new |-> m.new \cup {h}]
    BY SameSets DEF I!Received
  <1>4. \A i \in 1..(k + 1): i \in 1..k \/ i = k + 1
    OBVIOUS
  <1>5. CASE h \in Range(m.seen)
    <2>1. now = m /\ h \in Range(keys) \cup m.new
      BY <1>3, <1>5 DEF Learnt
    <2> QED
      BY <1>4, <2>1 DEF Learnt
  <1>6. CASE h \notin Range(m.seen)
    <2>1. now.seen = I!Remember(m.seen, h) /\ now.new = m.new \cup {h}
          /\ now = [seen |-> now.seen, new |-> now.new]
      BY <1>3, <1>6
    <2>2. /\ now.seen \in Seq(Hooks) /\ Len(now.seen) <= SeenCap
          /\ Range(now.seen) \subseteq Range(m.seen) \cup {h}
      BY <1>2, <2>1, RemembersIs DEF Learnt
    <2>3. Range(now.seen) \subseteq Range(keys) \cup now.new
      BY <2>1, <2>2 DEF Learnt
    <2>4. \A i \in 1..(k + 1): rows[i] \in Range(keys) \cup now.new
      BY <1>4, <2>1 DEF Learnt
    <2>5. now.new \subseteq Range(rows)
      BY <1>2, <2>1 DEF Learnt
    <2> QED
      BY <2>1, <2>2, <2>3, <2>4, <2>5 DEF Learnt
  <1> QED
    BY <1>5, <1>6

(* The recursion of ReceiveAll, as far as row n, and that it has a value.  *)
Steps(keys, rows, n, f) ==
  f = [k \in 0..n |-> IF k = 0 THEN [seen |-> keys, new |-> {}] ELSE I!Received(f[k - 1], rows[k])]

LEMMA StepsExist ==
  ASSUME NEW keys, NEW rows, NEW n \in Nat
  PROVE  \E f: Steps(keys, rows, n, f)
  <1> DEFINE S == {j \in 0..n: \E f: Steps(keys, rows, j, f)}
             base == [seen |-> keys, new |-> {}]
  <1>1. 0 \in S
    <2> DEFINE f == [k \in 0..0 |-> base]
    <2>1. f = [k \in 0..0 |-> IF k = 0 THEN base ELSE I!Received(f[k - 1], rows[k])]
      OBVIOUS
    <2>2. Steps(keys, rows, 0, f)
      BY <2>1 DEF Steps
    <2> HIDE DEF f
    <2> QED
      BY <2>2
  <1>2. ASSUME NEW j \in 0..n, j \in S, j < n
        PROVE  j + 1 \in S
    <2>1. PICK f: Steps(keys, rows, j, f)
      BY <1>2
    <2> DEFINE g == [k \in 0..(j + 1) |-> IF k <= j THEN f[k] ELSE I!Received(f[j], rows[j + 1])]
    <2>2. \A k \in 0..j: f[k] = IF k = 0 THEN base ELSE I!Received(f[k - 1], rows[k])
      BY <2>1 DEF Steps
    <2>3. ASSUME NEW k \in 0..(j + 1)
          PROVE  g[k] = IF k = 0 THEN base ELSE I!Received(g[k - 1], rows[k])
      <3>1. CASE k = 0
        BY <2>2, <3>1
      <3>2. CASE k # 0 /\ k <= j
        <4>1. g[k] = f[k] /\ g[k - 1] = f[k - 1] /\ k \in 0..j
          BY <3>2
        <4> QED
          BY <2>2, <3>2, <4>1
      <3>3. CASE k = j + 1
        <4>1. g[k] = I!Received(f[j], rows[j + 1]) /\ g[k - 1] = f[j] /\ k # 0
          BY <3>3
        <4> QED
          BY <3>3, <4>1
      <3> QED
        BY <3>1, <3>2, <3>3
    <2>4. g = [k \in 0..(j + 1) |-> IF k = 0 THEN base ELSE I!Received(g[k - 1], rows[k])]
      <3>1. g = [k \in 0..(j + 1) |-> g[k]]
        OBVIOUS
      <3> HIDE DEF g
      <3> QED
        BY <2>3, <3>1
    <2>5. Steps(keys, rows, j + 1, g)
      BY <2>4 DEF Steps
    <2>6. j + 1 \in 0..n
      BY <1>2
    <2> HIDE DEF g
    <2> QED
      BY <2>5, <2>6
  <1> HIDE DEF S
  <1>3. \A k \in 0..n: k \in S
    BY <1>1, <1>2, UpTo0
  <1>4. n \in S
    BY <1>3
  <1> QED
    BY <1>4 DEF S

(* ReceiveAll: every row is known or new, and the memory knows no others.  *)
LEMMA ReceivesIs ==
  ASSUME NEW keys \in Seq(Hooks), Len(keys) <= SeenCap, NEW rows \in Seq(Hooks),
         NEW got, got = I!ReceiveAll(keys, rows)
  PROVE  /\ got.seen \in Seq(Hooks) /\ Len(got.seen) <= SeenCap
         /\ got.new \subseteq Range(rows)
         /\ Range(got.seen) \subseteq Range(keys) \cup got.new
         /\ Range(rows) \subseteq Range(keys) \cup got.new
  <1> DEFINE n == Len(rows)
             f == CHOOSE g: Steps(keys, rows, n, g)
             S == {k \in 0..n: Learnt(keys, rows, k, f[k])}
  <1>1. n \in Nat
    BY LenProperties
  <1>2. Steps(keys, rows, n, f)
    BY <1>1, StepsExist
  <1>3. got = f[n]
    BY DEF I!ReceiveAll, Steps
  <1> HIDE DEF f, n
  <1>4. 0 \in S
    <2>1. f[0] = [seen |-> keys, new |-> {}]
      BY <1>1, <1>2 DEF Steps
    <2> QED
      BY <1>1, <2>1 DEF Learnt
  <1>5. ASSUME NEW k \in 0..n, k \in S, k < n
        PROVE  k + 1 \in S
    <2>1. k + 1 \in 0..n /\ f[k + 1] = I!Received(f[k], rows[k + 1])
      <3>1. k + 1 \in 0..n /\ k + 1 # 0 /\ (k + 1) - 1 = k
        BY <1>1, <1>5
      <3> QED
        BY <1>2, <3>1 DEF Steps
    <2>2. Learnt(keys, rows, k, f[k])
      BY <1>5
    <2>3. Learnt(keys, rows, k + 1, f[k + 1])
      BY <1>1, <1>5, <2>1, <2>2, Learns DEF n
    <2> QED
      BY <2>1, <2>3
  <1> HIDE DEF S
  <1>6. n \in S
    <2>1. \A k \in 0..n: k \in S /\ k < n => k + 1 \in S
      BY <1>5
    <2>2. \A k \in 0..n: k \in S
      BY <1>1, <1>4, <2>1, UpTo0
    <2> QED
      BY <1>1, <2>2
  <1>7. Learnt(keys, rows, n, got)
    BY <1>3, <1>6 DEF S
  <1>8. Range(rows) \subseteq Range(keys) \cup got.new
    BY <1>7, RangeIs DEF Learnt, n
  <1> QED
    BY <1>7, <1>8 DEF Learnt

(* forget: no key of the set is left, and none is added.                   *)
LEMMA WithoutIs ==
  ASSUME NEW keys \in Seq(Hooks), Len(keys) <= SeenCap, NEW set,
         NEW left, left = I!Without(keys, set)
  PROVE  /\ left \in Seq(Hooks) /\ Len(left) <= SeenCap
         /\ Range(left) \subseteq Range(keys) \ set
  <1> DEFINE at == {i \in DOMAIN keys: keys[i] \notin set}
             stay == I!Rows(at)
  <1>1. Len(keys) \in Nat /\ DOMAIN keys = 1..Len(keys) /\ SeenCap \in Nat
    BY LenProperties, CapsAssumption
  <1>2. IsFiniteSet(1..Len(keys)) /\ Cardinality(1..Len(keys)) = Len(keys)
    <2> DEFINE k == Len(keys)
    <2>1. k \in Nat /\ k \in Int
      BY <1>1
    <2> HIDE DEF k
    <2>2. IsFiniteSet(1..k) /\ Cardinality(1..k) = k
      BY <2>1, FS_Interval
    <2> QED
      BY <2>2 DEF k
  <1>3. at \subseteq 1..Len(keys) /\ at \subseteq Nat
    BY <1>1
  <1>4. \A i \in at: keys[i] \in Range(keys) \ set
    BY <1>1, RangeIs
  <1>5. left = [k \in DOMAIN stay |-> keys[stay[k]]]
    BY DEF I!Without
  <1> HIDE DEF at, stay
  <1>6. IsFiniteSet(at) /\ Cardinality(at) <= Len(keys) /\ Cardinality(at) \in Nat
    BY <1>2, <1>3, FS_Subset, FS_CardinalityType
  <1>7. stay \in Seq(at) /\ Len(stay) = Cardinality(at)
    BY <1>3, <1>6, RowsAre DEF stay
  <1>8. DOMAIN stay = 1..Len(stay) /\ Len(stay) \in Nat /\ \A k \in 1..Len(stay): stay[k] \in at
    BY <1>7, LenProperties, ElementOfSeq
  <1>9. /\ DOMAIN left = 1..Len(stay)
        /\ \A k \in 1..Len(stay): left[k] = keys[stay[k]] /\ left[k] \in Range(keys) \ set
    BY <1>4, <1>5, <1>8
  <1>10. Range(keys) \subseteq Hooks
    BY RangeIs
  <1>11. left \in [1..Len(stay) -> Hooks]
    BY <1>5, <1>8, <1>9, <1>10
  <1>12. left \in Seq(Hooks) /\ Len(left) = Len(stay)
    BY <1>8, <1>11
  <1>13. Range(left) \subseteq Range(keys) \ set
    BY <1>9 DEF Range
  <1> QED
    BY <1>1, <1>6, <1>7, <1>12, <1>13

-----------------------------------------------------------------------------
(* The steps of ingestion keep IngestInv, and the log only grows.          *)

Parts(s, front, back) ==
  /\ front \in Seq(Hooks) /\ back \in Seq(Hooks)
  /\ Range(s) = Range(front) \cup Range(back)

LEMMA SplitIs ==
  ASSUME NEW s \in Seq(Hooks), NEW n \in 0..Len(s),
         NEW front, front = SubSeq(s, 1, n), NEW back, back = SubSeq(s, n + 1, Len(s))
  PROVE  Parts(s, front, back)
  <1>1. Len(s) \in Nat /\ n \in Nat /\ \A i \in 1..Len(s): s[i] \in Hooks
    BY LenProperties, ElementOfSeq
  <1>2. front \in Seq(Hooks) /\ Len(front) = n /\ \A i \in 1..n: front[i] = s[i]
    <2>1. \A i \in 1..n: s[i] \in Hooks
      BY <1>1
    <2>2. /\ front \in Seq(Hooks) /\ Len(front) = IF 1 <= n THEN n - 1 + 1 ELSE 0
          /\ \A i \in 1..(n - 1 + 1): front[i] = s[1 + i - 1]
      BY <1>1, <2>1, SubSeqProperties
    <2> QED
      BY <1>1, <2>2
  <1>3. back \in Seq(Hooks) /\ Len(back) = Len(s) - n /\ \A i \in 1..(Len(s) - n): back[i] = s[n + i]
    <2> DEFINE m == n + 1
    <2>1. m \in Int /\ \A i \in m..Len(s): s[i] \in Hooks
      BY <1>1
    <2>2. back = SubSeq(s, m, Len(s)) /\ Len(s) \in Int
      BY <1>1
    <2> HIDE DEF m
    <2>3. /\ back \in Seq(Hooks) /\ Len(back) = IF m <= Len(s) THEN Len(s) - m + 1 ELSE 0
          /\ \A i \in 1..(Len(s) - m + 1): back[i] = s[m + i - 1]
      BY <2>1, <2>2, SubSeqProperties
    <2> QED
      BY <1>1, <2>3 DEF m
  <1>7. /\ \A x: x \in Range(s) <=> \E i \in 1..Len(s): s[i] = x
        /\ \A x: x \in Range(front) <=> \E i \in 1..n: front[i] = x
        /\ \A x: x \in Range(back) <=> \E i \in 1..(Len(s) - n): back[i] = x
    <2>1. front \in Seq(Hooks) /\ back \in Seq(Hooks)
      BY <1>2, <1>3
    <2>2. \A q \in Seq(Hooks): \A x: x \in Range(q) <=> \E i \in 1..Len(q): q[i] = x
      BY RangeIs
    <2>3. \A x: x \in Range(back) <=> \E i \in 1..Len(back): back[i] = x
      BY <2>1, <2>2
    <2>4. Len(back) = Len(s) - n /\ Len(front) = n
      BY <1>2, <1>3
    <2>5. \A x: x \in Range(s) <=> \E i \in 1..Len(s): s[i] = x
      BY <2>2
    <2>6. \A x: x \in Range(front) <=> \E i \in 1..n: front[i] = x
      BY <2>1, <2>2, <2>4
    <2>7. \A x: x \in Range(back) <=> \E i \in 1..(Len(s) - n): back[i] = x
      BY <2>3, <2>4
    <2> QED
      BY <2>5, <2>6, <2>7
  <1>4. ASSUME NEW x \in Range(s)
        PROVE  x \in Range(front) \cup Range(back)
    <2>1. PICK i \in 1..Len(s): s[i] = x
      BY <1>7
    <2>2. CASE i <= n
      BY <1>1, <1>2, <1>7, <2>1, <2>2
    <2>3. CASE ~(i <= n)
      <3>1. i - n \in 1..(Len(s) - n) /\ back[i - n] = x
        BY <1>1, <1>3, <2>1, <2>3
      <3> QED
        BY <1>7, <3>1
    <2> QED
      BY <2>2, <2>3
  <1>5. ASSUME NEW x \in Range(front)
        PROVE  x \in Range(s)
    <2>1. PICK i \in 1..n: front[i] = x
      BY <1>7
    <2>2. i \in 1..Len(s) /\ s[i] = x
      BY <1>1, <1>2, <2>1
    <2> QED
      BY <1>7, <2>2
  <1>6. ASSUME NEW x \in Range(back)
        PROVE  x \in Range(s)
    <2>1. PICK i \in 1..(Len(s) - n): back[i] = x
      BY <1>7
    <2>2. n + i \in 1..Len(s) /\ s[n + i] = x
      BY <1>1, <1>3, <2>1
    <2> QED
      BY <1>7, <2>2
  <1> QED
    BY <1>2, <1>3, <1>4, <1>5, <1>6 DEF Parts

(* The rows of a set of hooks.                                             *)
LEMMA RowsOf ==
  ASSUME NEW S \in SUBSET Hooks
  PROVE  I!Rows(S) \in Seq(Hooks) /\ Range(I!Rows(S)) = S
  <1>1. IsFiniteSet(S) /\ S \subseteq Nat
    BY HooksAssumption, FS_Subset
  <1>2. I!Rows(S) \in Seq(S) /\ Range(I!Rows(S)) = S
    BY <1>1, RowsAre
  <1> QED
    BY <1>2

LEMMA GrowsNot ==
  ASSUME IngestInv, log' = log
  PROVE  Grown(log, log')
  BY DEF Grown, IngestInv

LEMMA HookingKeeps ==
  ASSUME IngestInv, I!Hooking
  PROVE  IngestInv' /\ log' = log
  <1>1. PICK h \in Hooks: I!SendSocket(h) \/ I!Spool(h) \/ I!GiveUp(h)
    BY DEF I!Hooking
  <1> USE SameSets DEF IngestInv, I!TypeOK, I!SpooledIsKept, I!Idle
  <1>2. CASE I!SendSocket(h)
    BY <1>1, <1>2 DEF I!SendSocket
  <1>3. CASE I!Spool(h)
    BY <1>1, <1>3 DEF I!Spool
  <1>4. CASE I!GiveUp(h)
    BY <1>1, <1>4 DEF I!GiveUp
  <1> QED
    BY <1>1, <1>2, <1>3, <1>4

LEMMA ReceiveKeeps ==
  ASSUME IngestInv, NEW h \in Hooks, I!Receive(h)
  PROVE  IngestInv' /\ log' = log
  <1> DEFINE got == I!ReceiveAll(seen, <<h>>)
  <1>1. /\ seen \in Seq(Hooks) /\ Len(seen) <= SeenCap
        /\ <<h>> \in Seq(Hooks) /\ Range(<<h>>) = {h}
    <2>1. seen \in Seq(Hooks) /\ Len(seen) <= SeenCap
      BY DEF IngestInv, I!TypeOK
    <2> QED
      BY <2>1 DEF Range
  <1>2. /\ got.seen \in Seq(Hooks) /\ Len(got.seen) <= SeenCap
        /\ got.new \subseteq {h}
        /\ Range(got.seen) \subseteq Range(seen) \cup got.new
    <2> HIDE DEF got
    <2> QED
      BY <1>1, ReceivesIs DEF got
  <1>3. /\ wire' = wire \ {h} /\ seen' = got.seen /\ pending' = pending \cup got.new
        /\ server = "up" /\ UNCHANGED <<hook, files, server, drain, log, faults>>
    BY DEF I!Receive
  <1> HIDE DEF got
  <1>4. \A g \in Range(seen'): g \in pending' \cup Range(log)'
    <2>1. \A g \in Range(seen): g \in pending \cup Range(log)
      BY DEF IngestInv
    <2> QED
      BY <1>2, <1>3, <2>1
  <1> QED
    BY <1>2, <1>3, <1>4, SameSets DEF IngestInv, I!TypeOK, I!SpooledIsKept, I!Idle

LEMMA FlushKeeps ==
  ASSUME IngestInv, NEW n, I!Flush(n)
  PROVE  IngestInv' /\ Grown(log, log')
  <1> DEFINE rows == I!Rows(pending)
             front == SubSeq(rows, 1, n)
             back == SubSeq(rows, n + 1, Len(rows))
  <1>1. /\ pending \in SUBSET Hooks /\ log \in Seq(Hooks) /\ IsInjective(log)
    BY DEF IngestInv, I!TypeOK
  <1>2. rows \in Seq(Hooks) /\ Range(rows) = pending
    BY <1>1, RowsOf
  <1>3. /\ n \in 0..Len(rows) /\ log' = I!Apply(log, front) /\ pending' = Range(back)
        /\ server # "down" /\ UNCHANGED <<hook, wire, files, server, seen, drain>>
    BY SameSets DEF I!Flush
  <1> HIDE DEF rows
  <1>4. front \in Seq(Hooks) /\ back \in Seq(Hooks) /\ pending = Range(front) \cup Range(back)
    <2>1. n \in 0..Len(rows) /\ rows \in Seq(Hooks) /\ Range(rows) = pending
      BY <1>2, <1>3
    <2>2. front = SubSeq(rows, 1, n) /\ back = SubSeq(rows, n + 1, Len(rows))
      OBVIOUS
    <2> HIDE DEF front, back
    <2>3. Parts(rows, front, back)
      BY <2>1, <2>2, SplitIs
    <2> QED
      BY <2>1, <2>3 DEF Parts
  <1> HIDE DEF front, back
  <1>5. Grown(log, log') /\ Range(log') = Range(log) \cup Range(front)
    BY <1>1, <1>3, <1>4, AppliedIs
  <1>6. pending' \subseteq Hooks
    BY <1>3, <1>4, RangeIs
  <1>7. log' \in Seq(Hooks) /\ IsInjective(log')
    BY <1>5 DEF Grown
  <1>8. \A g \in Range(seen'): g \in pending' \cup Range(log')
    BY <1>3, <1>4, <1>5 DEF IngestInv
  <1>9. I!TypeOK' /\ I!SpooledIsKept'
    BY <1>3, <1>5, <1>6, SameSets DEF IngestInv, I!TypeOK, I!SpooledIsKept
  <1>10. drain.at = "remove" => drain.taken \subseteq Range(log')
    BY <1>5 DEF IngestInv
  <1> QED
    BY <1>3, <1>5, <1>7, <1>8, <1>9, <1>10 DEF IngestInv

(* What the drain receives, and what it flushes.                           *)
LEMMA DrainIs ==
  ASSUME IngestInv, NEW got, got = I!ReceiveAll(seen, I!Rows(drain.taken)),
         NEW rows, rows = I!Rows(pending \cup got.new)
  PROVE  /\ got.seen \in Seq(Hooks) /\ Len(got.seen) <= SeenCap
         /\ Range(got.seen) \subseteq Range(log) \cup Range(rows)
         /\ drain.taken \subseteq Range(log) \cup Range(rows)
         /\ rows \in Seq(Hooks)
  <1>1. /\ seen \in Seq(Hooks) /\ Len(seen) <= SeenCap /\ drain.taken \in SUBSET Hooks
        /\ pending \subseteq Hooks /\ Range(seen) \subseteq pending \cup Range(log)
    BY DEF IngestInv, I!TypeOK
  <1>2. I!Rows(drain.taken) \in Seq(Hooks) /\ Range(I!Rows(drain.taken)) = drain.taken
    BY <1>1, RowsOf
  <1>3. /\ got.seen \in Seq(Hooks) /\ Len(got.seen) <= SeenCap
        /\ got.new \subseteq drain.taken
        /\ Range(got.seen) \subseteq Range(seen) \cup got.new
        /\ drain.taken \subseteq Range(seen) \cup got.new
    BY <1>1, <1>2, ReceivesIs
  <1>4. rows \in Seq(Hooks) /\ Range(rows) = pending \cup got.new
    <2>1. pending \cup got.new \in SUBSET Hooks
      BY <1>1, <1>3
    <2> QED
      BY <2>1, RowsOf
  <1> QED
    BY <1>1, <1>3, <1>4

LEMMA DrainApplyKeeps ==
  ASSUME IngestInv, I!DrainApply
  PROVE  IngestInv' /\ Grown(log, log')
  <1> DEFINE got == I!ReceiveAll(seen, I!Rows(drain.taken))
             rows == I!Rows(pending \cup got.new)
  <1>1. /\ drain.at = "read" /\ drain' = [drain EXCEPT !.at = "remove"]
        /\ seen' = got.seen /\ pending' = {} /\ log' = I!Apply(log, rows)
        /\ UNCHANGED <<hook, wire, files, server, faults>>
    BY DEF I!DrainApply
  <1>2. /\ got.seen \in Seq(Hooks) /\ Len(got.seen) <= SeenCap
        /\ Range(got.seen) \subseteq Range(log) \cup Range(rows)
        /\ drain.taken \subseteq Range(log) \cup Range(rows)
        /\ rows \in Seq(Hooks)
    BY DrainIs
  <1> HIDE DEF got, rows
  <1>3. log \in Seq(Hooks) /\ IsInjective(log)
    BY DEF IngestInv
  <1>4. Grown(log, log') /\ Range(log') = Range(log) \cup Range(rows)
    BY <1>1, <1>2, <1>3, AppliedIs
  <1>5. log' \in Seq(Hooks) /\ IsInjective(log')
    BY <1>4 DEF Grown
  <1>6. /\ drain' \in [at: {"idle", "read", "remove"}, taken: SUBSET Hooks]
        /\ drain'.at = "remove" /\ drain'.taken = drain.taken
    BY <1>1 DEF IngestInv
  <1>7. I!TypeOK'
    <2>1. server # "down"
      BY <1>1 DEF IngestInv, I!TypeOK, I!Idle
    <2> QED
      BY <1>1, <1>2, <1>6, <2>1 DEF IngestInv, I!TypeOK
  <1>8. I!SpooledIsKept'
    BY <1>1, <1>4, SameSets DEF IngestInv, I!SpooledIsKept
  <1>9. drain'.taken \subseteq Range(log') /\ \A g \in Range(seen'): g \in pending' \cup Range(log')
    BY <1>1, <1>2, <1>4, <1>6
  <1>10. server' = "starting" => wire' = {}
    BY <1>1 DEF IngestInv
  <1> QED
    BY <1>4, <1>5, <1>6, <1>7, <1>8, <1>9, <1>10 DEF IngestInv

LEMMA DrainFailsKeeps ==
  ASSUME IngestInv, NEW n, I!DrainFails(n)
  PROVE  IngestInv' /\ Grown(log, log')
  <1> DEFINE got == I!ReceiveAll(seen, I!Rows(drain.taken))
             rows == I!Rows(pending \cup got.new)
             front == SubSeq(rows, 1, n)
             left == SubSeq(rows, n + 1, Len(rows))
  <1>1. /\ drain.at = "read" /\ n \in 0..Len(rows) - 1 /\ drain' = I!Idle
        /\ log' = I!Apply(log, front) /\ pending' = {}
        /\ \/ /\ server = "up" /\ seen' = I!Without(got.seen, Range(left)) /\ UNCHANGED server
           \/ /\ server = "starting" /\ server' = "down" /\ seen' = <<>>
        /\ UNCHANGED <<hook, wire, files>>
    BY SameSets DEF I!DrainFails
  <1>2. /\ got.seen \in Seq(Hooks) /\ Len(got.seen) <= SeenCap
        /\ Range(got.seen) \subseteq Range(log) \cup Range(rows)
        /\ rows \in Seq(Hooks)
    BY DrainIs
  <1> HIDE DEF got, rows
  <1>3. n \in 0..Len(rows)
    BY <1>1, <1>2, LenProperties
  <1>4. /\ front \in Seq(Hooks) /\ left \in Seq(Hooks)
        /\ Range(rows) = Range(front) \cup Range(left)
    <2>1. front = SubSeq(rows, 1, n) /\ left = SubSeq(rows, n + 1, Len(rows))
      OBVIOUS
    <2> HIDE DEF front, left
    <2>2. Parts(rows, front, left)
      BY <1>2, <1>3, <2>1, SplitIs
    <2> QED
      BY <2>2 DEF Parts
  <1> HIDE DEF front, left
  <1>5. log \in Seq(Hooks) /\ IsInjective(log)
    BY DEF IngestInv
  <1>6. Grown(log, log') /\ Range(log') = Range(log) \cup Range(front)
    BY <1>1, <1>4, <1>5, AppliedIs
  <1>7. log' \in Seq(Hooks) /\ IsInjective(log')
    BY <1>6 DEF Grown
  <1>8. /\ seen' \in Seq(Hooks) /\ Len(seen') <= SeenCap
        /\ \A g \in Range(seen'): g \in pending' \cup Range(log')
    <2>1. CASE seen' = I!Without(got.seen, Range(left))
      <3>1. /\ seen' \in Seq(Hooks) /\ Len(seen') <= SeenCap
            /\ Range(seen') \subseteq Range(got.seen) \ Range(left)
        BY <1>2, <2>1, WithoutIs
      <3>2. \A g \in Range(seen'): g \in Range(log) \cup Range(front)
        BY <1>2, <1>4, <3>1
      <3> QED
        BY <1>6, <3>1, <3>2
    <2>2. CASE seen' = <<>>
      BY <2>2, CapsAssumption DEF Range
    <2> QED
      BY <1>1, <2>1, <2>2
  <1>9. drain' \in [at: {"idle", "read", "remove"}, taken: SUBSET Hooks] /\ drain'.at = "idle"
    BY <1>1 DEF I!Idle
  <1>10. /\ server' \in {"up", "down"}
         /\ server' = "down" => wire' = {}
    BY <1>1 DEF IngestInv
  <1>11. I!TypeOK'
    BY <1>1, <1>8, <1>9, <1>10 DEF IngestInv, I!TypeOK
  <1>12. I!SpooledIsKept'
    BY <1>1, <1>6, SameSets DEF IngestInv, I!SpooledIsKept
  <1>13. drain'.at # "remove" /\ server' # "starting"
    BY <1>9, <1>10
  <1> QED
    BY <1>6, <1>7, <1>8, <1>9, <1>11, <1>12, <1>13 DEF IngestInv

LEMMA OthersKeep ==
  ASSUME IngestInv, I!DrainRead \/ I!DrainEnd \/ (\E h \in Hooks: I!DrainRemove(h)) \/ I!Start \/ I!Stop
  PROVE  IngestInv' /\ log' = log
  <1> USE SameSets DEF IngestInv, I!TypeOK, I!SpooledIsKept, I!Idle
  <1>1. CASE I!DrainRead
    BY <1>1 DEF I!DrainRead
  <1>2. CASE I!DrainEnd
    BY <1>2 DEF I!DrainEnd
  <1>3. ASSUME NEW h \in Hooks, I!DrainRemove(h)
        PROVE  IngestInv' /\ log' = log
    BY <1>3 DEF I!DrainRemove
  <1>4. CASE I!Start
    BY <1>4 DEF I!Start
  <1>5. CASE I!Stop
    BY <1>5, CapsAssumption DEF I!Stop, Range
  <1> QED
    BY <1>1, <1>2, <1>3, <1>4, <1>5

LEMMA IngestKeeps ==
  ASSUME IngestInv, I!Hooking \/ I!Reading \/ I!Flushing \/ I!Draining \/ I!Start \/ I!Refusing \/ I!Stop
  PROVE  IngestInv' /\ Grown(log, log')
  <1>1. CASE I!Hooking
    BY <1>1, HookingKeeps, GrowsNot
  <1>2. CASE I!Reading
    BY <1>2, ReceiveKeeps, GrowsNot DEF I!Reading
  <1>3. CASE I!Flushing
    BY <1>3, FlushKeeps DEF I!Flushing
  <1>4. CASE I!Draining
    BY <1>4, OthersKeep, DrainApplyKeeps, GrowsNot DEF I!Draining
  <1>5. CASE I!Start \/ I!Stop
    BY <1>5, OthersKeep, GrowsNot
  <1>6. CASE I!Refusing
    BY <1>6, DrainFailsKeeps DEF I!Refusing
  <1> QED
    BY <1>1, <1>2, <1>3, <1>4, <1>5, <1>6

-----------------------------------------------------------------------------
(* The frames on the wire.                                                 *)

LEMMA GoesIs ==
  ASSUME NEW n \in Nat, NEW g, Goes(n, g)
  PROVE  /\ g.t \in {"event", "end"} /\ g.t # "begin" /\ g.t # "snapshot"
         /\ g.seq \in {n, n + 1}
  BY DEF Goes

LEMMA FramesGrow ==
  ASSUME NEW n \in Nat, NEW m \in Nat, n <= m, NEW t, NEW d, WireOK(d, t, n)
  PROVE  WireOK(d, t, m)
  <1>1. Frames(n) \subseteq Frames(m)
    <2>1. 0..n \subseteq 0..m
      OBVIOUS
    <2> QED
      BY <2>1 DEF Frames
  <1>2. d \in Seq(Frames(m))
    BY <1>1, SeqMonotonic DEF WireOK
  <1> QED
    BY <1>2 DEF WireOK

(* Only the first frame of the wire may be the begin of a replay.          *)
LEMMA BeginsOnce ==
  ASSUME NEW n \in Nat, NEW t, t.seq \in Nat, NEW d, WireOK(d, t, n), NEW i \in 2..Len(d)
  PROVE  d[i].t # "begin"
  <1>1. d \in Seq(Frames(n)) /\ Len(d) \in Nat
    BY LenProperties DEF WireOK
  <1>2. i - 1 \in 1..Len(d) - 1 /\ (i - 1) + 1 = i
    BY <1>1
  <1>3. Then(t, d[i - 1], d[i])
    BY <1>2 DEF WireOK
  <1>4. d[i - 1] \in Frames(n)
    BY <1>1, <1>2, ElementOfSeq
  <1>5. d[i - 1].t = "begin" \/ d[i - 1].seq \in Nat
    BY <1>4 DEF Frames
  <1> QED
    BY <1>3, <1>5, GoesIs DEF Then

(* Frames that go on where the wire ends, or the tab is if it is empty.    *)
GoesOn(d, t, more) ==
  /\ more # <<>> => IF d = <<>> THEN First(t, more[1]) ELSE Then(t, d[Len(d)], more[1])
  /\ \A i \in 1..Len(more) - 1: Then(t, more[i], more[i + 1])

Joined(now, d, t, n, more, k) ==
  /\ WireOK(now, t, n) /\ Len(now) = Len(d) + k
  /\ k = Len(more) /\ more # <<>> => now # <<>> /\ now[Len(now)] = more[Len(more)]

LEMMA JoinedIs ==
  ASSUME NEW n \in Nat, NEW t, NEW d, WireOK(d, t, n), NEW more \in Seq(Frames(n)),
         GoesOn(d, t, more), NEW k \in 0..Len(more), NEW now, now = d \o SubSeq(more, 1, k)
  PROVE  Joined(now, d, t, n, more, k)
  <1> DEFINE part == SubSeq(more, 1, k)
  <1>1. d \in Seq(Frames(n)) /\ Len(d) \in Nat /\ Len(more) \in Nat
    BY LenProperties DEF WireOK
  <1>2. part \in Seq(Frames(n)) /\ Len(part) = k /\ \A i \in 1..k: part[i] = more[i]
    <2>1. \A i \in 1..k: more[i] \in Frames(n)
      BY <1>1, ElementOfSeq
    <2>2. /\ part \in Seq(Frames(n)) /\ Len(part) = IF 1 <= k THEN k - 1 + 1 ELSE 0
          /\ \A i \in 1..(k - 1 + 1): part[i] = more[1 + i - 1]
      BY <1>1, <2>1, SubSeqProperties
    <2> QED
      BY <1>1, <2>2
  <1>3. now = d \o part
    OBVIOUS
  <1> HIDE DEF part
  <1>4. /\ now \in Seq(Frames(n)) /\ Len(now) = Len(d) + k
        /\ \A i \in 1..Len(d) + k: now[i] = IF i <= Len(d) THEN d[i] ELSE part[i - Len(d)]
    BY <1>1, <1>2, <1>3, ConcatProperties
  <1>5. /\ \A i \in 1..Len(d): now[i] = d[i]
        /\ \A i \in 1..k: now[Len(d) + i] = more[i]
    BY <1>1, <1>2, <1>4
  <1>6. \A x \in Seq(Frames(n)): x = <<>> <=> Len(x) = 0
    OBVIOUS
  <1>7. now # <<>> => First(t, now[1])
    <2>1. CASE d = <<>>
      <3>1. Len(d) = 0
        BY <2>1
      <3>2. CASE k = 0
        BY <1>4, <1>6, <3>1, <3>2
      <3>3. CASE k # 0
        <4>1. now[1] = more[1] /\ more # <<>>
          BY <1>1, <1>5, <3>1, <3>3
        <4> QED
          BY <2>1, <4>1 DEF GoesOn
      <3> QED
        BY <3>2, <3>3
    <2>2. CASE d # <<>>
      <3>1. Len(d) # 0
        BY <1>1, <1>6, <2>2
      <3>2. now[1] = d[1]
        BY <1>1, <1>5, <3>1
      <3> QED
        BY <2>2, <3>2 DEF WireOK
    <2> QED
      BY <2>1, <2>2
  <1>8. ASSUME NEW i \in 1..Len(now) - 1
        PROVE  Then(t, now[i], now[i + 1])
    <2>1. i \in Nat /\ i >= 1 /\ i + 1 <= Len(d) + k
      BY <1>1, <1>4
    <2>2. CASE i + 1 <= Len(d)
      <3>1. now[i] = d[i] /\ now[i + 1] = d[i + 1] /\ i \in 1..Len(d) - 1
        BY <1>1, <1>5, <2>1, <2>2
      <3> QED
        BY <3>1 DEF WireOK
    <2>3. CASE i = Len(d)
      <3>1. now[i] = d[Len(d)] /\ now[i + 1] = more[1] /\ more # <<>> /\ d # <<>>
        BY <1>1, <1>5, <2>1, <2>3
      <3> QED
        BY <3>1 DEF GoesOn
    <2>4. CASE i > Len(d)
      <3> DEFINE j == i - Len(d)
      <3>1. j \in 1..Len(more) - 1 /\ j \in 1..k /\ j + 1 \in 1..k /\ Len(d) + j = i
            /\ Len(d) + (j + 1) = i + 1
        BY <1>1, <2>1, <2>4
      <3>2. now[i] = more[j] /\ now[i + 1] = more[j + 1]
        BY <1>5, <3>1
      <3> QED
        BY <3>1, <3>2 DEF GoesOn
    <2> QED
      BY <1>1, <2>1, <2>2, <2>3, <2>4
  <1>9. ASSUME k = Len(more), more # <<>>
        PROVE  now # <<>> /\ now[Len(now)] = more[Len(more)]
    <2>1. Len(more) # 0
      BY <1>9
    <2> QED
      BY <1>1, <1>4, <1>5, <1>6, <1>9, <2>1
  <1> QED
    BY <1>4, <1>7, <1>8, <1>9 DEF Joined, WireOK

(* send: a part of the frames goes out, and all of them to a socket that   *)
(* stays open.                                                             *)
LEMMA SendIs ==
  ASSUME NEW S, NEW frames \in Seq(S), NEW ready, Len(down) \in Nat, Len(down) <= WireCap,
         H!Send(frames, ready)
  PROVE  \E k \in 0..Len(frames):
           /\ down' = down \o SubSeq(frames, 1, k) /\ Len(down) + k <= WireCap
           /\ \/ k = Len(frames) /\ conn' = ready
              \/ conn' = [ready EXCEPT !.st = "closed"]
  <1> DEFINE free == WireCap - Len(down)
             k == H!Min({Len(frames), free})
  <1>1. Len(frames) \in Nat /\ WireCap \in Nat /\ free \in Nat
    BY CapsAssumption, LenProperties
  <1>2. /\ down' = down \o SubSeq(frames, 1, k)
        /\ conn' = IF Len(down) + Len(frames) <= WireCap THEN ready ELSE [ready EXCEPT !.st = "closed"]
    BY DEF H!Send, H!Sent, H!Fits
  <1>3. k = IF Len(frames) <= free THEN Len(frames) ELSE free
    <2> HIDE DEF free
    <2>1. CASE Len(frames) <= free
      <3>1. \A x \in {Len(frames), free}: (\A y \in {Len(frames), free}: x <= y) <=> x = Len(frames)
        BY <1>1, <2>1
      <3> QED
        BY <2>1, <3>1 DEF H!Min
    <2>2. CASE ~(Len(frames) <= free)
      <3>1. \A x \in {Len(frames), free}: (\A y \in {Len(frames), free}: x <= y) <=> x = free
        BY <1>1, <2>2
      <3> QED
        BY <2>2, <3>1 DEF H!Min
    <2> QED
      BY <2>1, <2>2
  <1> HIDE DEF k
  <1>4. k \in 0..Len(frames) /\ Len(down) + k <= WireCap
    BY <1>1, <1>3
  <1>5. k = Len(frames) \/ ~(Len(down) + Len(frames) <= WireCap)
    BY <1>1, <1>3
  <1> QED
    BY <1>2, <1>4, <1>5

(* The events that follow n, m of them, in a row.                          *)
Run(n, m) == [i \in 1..m |-> n + i]

LEMMA RunIs ==
  ASSUME NEW n \in Nat, NEW m \in Nat
  PROVE  /\ Run(n, m) \in Seq(1..(n + m)) /\ Len(Run(n, m)) = m
         /\ \A i \in 1..m: Run(n, m)[i] = n + i
         /\ Run(n, m) = <<>> <=> m = 0
         /\ m # 0 => H!Last(Run(n, m)) = n + m
  <1>1. Run(n, m) \in [1..m -> 1..(n + m)]
    BY DEF Run
  <1>2. Run(n, m) \in Seq(1..(n + m)) /\ Len(Run(n, m)) = m
    BY <1>1
  <1>3. Run(n, m) = <<>> <=> m = 0
    BY <1>2
  <1>4. \A i \in 1..m: Run(n, m)[i] = n + i
    BY DEF Run
  <1>5. m # 0 => H!Last(Run(n, m)) = n + m
    BY <1>2, <1>4 DEF H!Last
  <1> QED
    BY <1>2, <1>3, <1>4, <1>5

(* Nothing of a row that starts after an event is older than it.           *)
LEMMA NewerIs ==
  ASSUME NEW n \in Nat, NEW m \in Nat, NEW q \in 0..n
  PROVE  H!Newer(Run(n, m), q) = Run(n, m)
  <1> DEFINE ns == Run(n, m)
             older == {i \in DOMAIN ns: ns[i] <= q}
  <1>1. ns \in Seq(1..(n + m)) /\ Len(ns) = m /\ \A i \in 1..m: ns[i] = n + i
    BY RunIs
  <1>2. DOMAIN ns = 1..m
    BY <1>1
  <1> HIDE DEF ns
  <1>3. older = {}
    BY <1>1, <1>2
  <1>4. Cardinality(older) = 0
    BY <1>3, FS_EmptySet
  <1>5. H!Newer(ns, q) = SubSeq(ns, 1 + Cardinality(older), Len(ns))
    BY SameSets DEF H!Newer
  <1>6. SubSeq(ns, 1, Len(ns)) = ns
    BY <1>1, SubSeqFull
  <1> HIDE DEF older
  <1>7. H!Newer(ns, q) = ns
    BY <1>4, <1>5, <1>6
  <1> QED
    BY <1>7 DEF ns

(* The frames of a row.                                                    *)
Row(fs, n, m) ==
  /\ fs \in Seq(Frames(n + m)) /\ Len(fs) = m
  /\ \A i \in 1..m: fs[i] = [t |-> "event", seq |-> n + i]

LEMMA EventsAre ==
  ASSUME NEW n \in Nat, NEW m \in Nat, NEW fs, fs = H!Events(Run(n, m))
  PROVE  Row(fs, n, m)
  <1>1. Len(Run(n, m)) = m /\ \A i \in 1..m: Run(n, m)[i] = n + i
    BY RunIs
  <1>2. fs = [i \in 1..m |-> [t |-> "event", seq |-> Run(n, m)[i]]]
    BY <1>1 DEF H!Events, H!Event
  <1>3. \A i \in 1..m: fs[i] = [t |-> "event", seq |-> n + i]
    BY <1>1, <1>2
  <1>4. ASSUME NEW i \in 1..m
        PROVE  fs[i] \in Frames(n + m)
    <2>1. n + i \in 0..(n + m)
      OBVIOUS
    <2>2. fs[i] = [t |-> "event", seq |-> n + i]
      BY <1>3
    <2>3. \A x \in 0..(n + m): [t |-> "event", seq |-> x] \in Frames(n + m)
      BY DEF Frames
    <2> QED
      BY <2>1, <2>2, <2>3
  <1>5. fs \in [1..m -> Frames(n + m)]
    BY <1>2, <1>4
  <1> QED
    BY <1>3, <1>5 DEF Row

(* Events in a row follow one another, and go on after the n-th event.     *)
LEMMA EventsGoOn ==
  ASSUME NEW n \in Nat, NEW m \in Nat, NEW fs, fs = H!Events(Run(n, m)),
         NEW t, t.seq \in Nat, NEW d, NEW k \in Nat, WireOK(d, t, k), UpTo(d, t, n)
  PROVE  GoesOn(d, t, fs)
  <1>1. /\ fs \in Seq(Frames(n + m)) /\ Len(fs) = m
        /\ \A i \in 1..m: fs[i] = [t |-> "event", seq |-> n + i]
    <2>1. Row(fs, n, m)
      BY EventsAre
    <2> QED
      BY <2>1 DEF Row
  <1>2. ASSUME fs # <<>>
        PROVE  IF d = <<>> THEN First(t, fs[1]) ELSE Then(t, d[Len(d)], fs[1])
    <2>1. m # 0
      BY <1>1, <1>2
    <2>2. fs[1] = [t |-> "event", seq |-> n + 1]
      BY <1>1, <2>1
    <2>3. Goes(n, fs[1])
      BY <2>2 DEF Goes
    <2>4. CASE d = <<>>
      BY <2>3, <2>4 DEF UpTo, First
    <2>5. CASE d # <<>>
      BY <2>3, <2>5 DEF UpTo, Then
    <2> QED
      BY <2>4, <2>5
  <1>3. ASSUME NEW i \in 1..Len(fs) - 1
        PROVE  Then(t, fs[i], fs[i + 1])
    <2>1. i \in 1..m /\ i + 1 \in 1..m
      BY <1>1
    <2>2. fs[i].t = "event" /\ fs[i].seq = n + i /\ fs[i + 1] = [t |-> "event", seq |-> n + (i + 1)]
      BY <1>1, <2>1
    <2>3. n + (i + 1) = (n + i) + 1
      BY <2>1
    <2> QED
      BY <2>2, <2>3 DEF Then, Goes
  <1> QED
    BY <1>2, <1>3 DEF GoesOn

LEMMA EmptyIs ==
  ASSUME NEW n \in Nat, NEW t
  PROVE  WireOK(<<>>, t, n) /\ Len(<<>>) = 0
  BY DEF WireOK

(* Frames for a tab that awaits its state, as far as the n-th event.       *)
Sync(fs, t, n) ==
  /\ fs \in Seq(Frames(n)) /\ GoesOn(<<>>, t, fs) /\ fs # <<>>
  /\ fs[Len(fs)].t # "begin" /\ fs[Len(fs)].seq = n

(* The frames of a replay, from the n-th event over m of them.             *)
LEMMA ReplayRow ==
  ASSUME NEW n \in Nat, NEW m \in Nat, NEW t, t.seq = n, Awaits(t), t.loaded,
         NEW fs, fs = <<[t |-> "begin"]>> \o H!Events(Run(n, m)) \o <<[t |-> "end", seq |-> n + m]>>
  PROVE  Sync(fs, t, n + m)
  <1> DEFINE es == H!Events(Run(n, m))
             b == [t |-> "begin"]
             e == [t |-> "end", seq |-> n + m]
  <1>1. Row(es, n, m)
    BY EventsAre
  <1> HIDE DEF es
  <1>2. /\ es \in Seq(Frames(n + m)) /\ Len(es) = m
        /\ \A i \in 1..m: es[i] = [t |-> "event", seq |-> n + i]
    BY <1>1 DEF Row
  <1>3. b \in Frames(n + m) /\ e \in Frames(n + m)
    BY DEF Frames
  <1>4. fs = <<b>> \o es \o <<e>>
    BY DEF es
  <1>5. b.t = "begin" /\ e.t = "end" /\ e.seq = n + m
    OBVIOUS
  <1>6. /\ fs \in Seq(Frames(n + m)) /\ Len(fs) = m + 2
        /\ fs[1] = b /\ fs[m + 2] = e /\ \A i \in 1..m: fs[1 + i] = es[i]
    <2> HIDE DEF b, e
    <2> QED
      BY <1>2, <1>3, <1>4
  <1>7. fs # <<>> /\ fs[Len(fs)] = e
    BY <1>6
  <1>8. First(t, fs[1])
    BY <1>6 DEF First
  <1>9. ASSUME NEW i \in 1..Len(fs) - 1
        PROVE  Then(t, fs[i], fs[i + 1])
    <2>1. CASE i = 1 /\ m = 0
      <3>1. fs[i] = b /\ fs[i + 1] = e
        BY <1>6, <2>1
      <3>2. Goes(t.seq, e)
        BY <2>1 DEF Goes
      <3> HIDE DEF e, b
      <3> QED
        BY <1>5, <3>1, <3>2 DEF Then
    <2>2. CASE i = 1 /\ m # 0
      <3>1. fs[i] = b /\ fs[i + 1] = [t |-> "event", seq |-> n + 1]
        <4>1. fs[i + 1] = es[1]
          BY <1>6, <2>2
        <4> QED
          BY <1>2, <1>6, <2>2, <4>1
      <3>2. Goes(t.seq, fs[i + 1])
        BY <3>1 DEF Goes
      <3> HIDE DEF e, b
      <3> QED
        BY <1>5, <3>1, <3>2 DEF Then
    <2>3. CASE i # 1
      <3> DEFINE j == i - 1
      <3>1. j \in 1..m /\ 1 + j = i
        BY <1>6, <2>3
      <3> HIDE DEF j
      <3>2. fs[i] = [t |-> "event", seq |-> n + j]
        BY <1>2, <1>6, <3>1
      <3>3. CASE j < m
        <4>1. fs[i + 1] = [t |-> "event", seq |-> (n + j) + 1]
          <5>1. j + 1 \in 1..m /\ 1 + (j + 1) = i + 1 /\ n + (j + 1) = (n + j) + 1
            BY <3>1, <3>3
          <5> QED
            BY <1>2, <1>6, <5>1
        <4> QED
          BY <3>2, <4>1 DEF Then, Goes
      <3>4. CASE j = m
        <4>1. fs[i + 1] = [t |-> "end", seq |-> n + j]
          <5>1. i + 1 = m + 2
            BY <3>1, <3>4
          <5> QED
            BY <1>6, <3>4, <5>1
        <4> QED
          BY <3>2, <4>1 DEF Then, Goes
      <3> QED
        BY <3>1, <3>3, <3>4
    <2> QED
      BY <2>1, <2>2, <2>3
  <1> QED
    BY <1>5, <1>6, <1>7, <1>8, <1>9 DEF GoesOn, Sync

(* The frames of a snapshot of n events, with the m that were published    *)
(* while it was built.                                                     *)
LEMMA SnapshotRow ==
  ASSUME NEW n \in Nat, NEW m \in Nat, NEW t, t.seq \in Nat, t.seq <= n, Awaits(t),
         NEW fs, fs = <<[t |-> "snapshot", seq |-> n]>> \o H!Events(Run(n, m))
  PROVE  Sync(fs, t, n + m)
  <1> DEFINE es == H!Events(Run(n, m))
             b == [t |-> "snapshot", seq |-> n]
  <1>1. Row(es, n, m)
    BY EventsAre
  <1> HIDE DEF es
  <1>2. /\ es \in Seq(Frames(n + m)) /\ Len(es) = m
        /\ \A i \in 1..m: es[i] = [t |-> "event", seq |-> n + i]
    BY <1>1 DEF Row
  <1>3. b \in Frames(n + m)
    BY DEF Frames
  <1>4. fs = <<b>> \o es
    BY DEF es
  <1>5. b.t = "snapshot" /\ b.seq = n
    OBVIOUS
  <1>6. /\ fs \in Seq(Frames(n + m)) /\ Len(fs) = m + 1
        /\ fs[1] = b /\ \A i \in 1..m: fs[1 + i] = es[i]
    <2> HIDE DEF b
    <2> DEFINE one == <<b>>
    <2>1. one \in Seq(Frames(n + m)) /\ Len(one) = 1 /\ one[1] = b
      BY <1>3
    <2>2. fs = one \o es
      BY <1>4
    <2> HIDE DEF one
    <2>3. /\ fs \in Seq(Frames(n + m)) /\ Len(fs) = 1 + m
          /\ \A i \in 1..1 + m: fs[i] = IF i <= 1 THEN one[i] ELSE es[i - 1]
      <3>1. /\ one \o es \in Seq(Frames(n + m)) /\ Len(one \o es) = Len(one) + Len(es)
            /\ \A i \in 1..Len(one) + Len(es): (one \o es)[i] = IF i <= Len(one) THEN one[i] ELSE es[i - Len(one)]
        BY <1>2, <2>1, ConcatProperties
      <3> QED
        BY <1>2, <2>1, <2>2, <3>1
    <2>4. fs[1] = b
      BY <2>1, <2>3
    <2>5. ASSUME NEW i \in 1..m
          PROVE  fs[1 + i] = es[i]
      <3>1. 1 + i \in 1..1 + m /\ ~(1 + i <= 1) /\ (1 + i) - 1 = i
        OBVIOUS
      <3> QED
        BY <2>3, <3>1
    <2> QED
      BY <2>3, <2>4, <2>5
  <1> HIDE DEF b
  <1>7. \A i \in 1..m: fs[1 + i] = [t |-> "event", seq |-> n + i]
    BY <1>2, <1>6
  <1>8. fs # <<>>
    BY <1>6
  <1>9. First(t, fs[1])
    BY <1>5, <1>6 DEF First
  <1>10. fs[Len(fs)].t # "begin" /\ fs[Len(fs)].seq = n + m
    <2>1. CASE m = 0
      BY <1>5, <1>6, <2>1
    <2>2. CASE m # 0
      <3>1. m \in 1..m /\ 1 + m = Len(fs)
        BY <1>6, <2>2
      <3>2. fs[1 + m] = [t |-> "event", seq |-> n + m]
        BY <1>7, <3>1
      <3> QED
        BY <3>1, <3>2
    <2> QED
      BY <2>1, <2>2
  <1>11. ASSUME NEW i \in 1..Len(fs) - 1
         PROVE  Then(t, fs[i], fs[i + 1])
    <2>1. i \in 1..m
      BY <1>6
    <2>2. fs[i + 1] = [t |-> "event", seq |-> n + i]
      BY <1>7, <2>1
    <2>3. fs[i].t # "begin" /\ fs[i].seq + 1 = n + i
      <3>1. CASE i = 1
        BY <1>5, <1>6, <3>1
      <3>2. CASE i # 1
        <4>1. i - 1 \in 1..m /\ 1 + (i - 1) = i /\ (n + (i - 1)) + 1 = n + i
          BY <2>1, <3>2
        <4>2. fs[i] = [t |-> "event", seq |-> n + (i - 1)]
          BY <1>7, <4>1
        <4> QED
          BY <4>1, <4>2
      <3> QED
        BY <3>1, <3>2
    <2> QED
      BY <2>2, <2>3 DEF Then, Goes
  <1> QED
    BY <1>6, <1>8, <1>9, <1>10, <1>11 DEF GoesOn, Sync

(* What is on the wire after a send that goes on where the wire ended.     *)
LEMMA SendKeeps ==
  ASSUME IInv, NEW n \in Nat, Len(log) <= n, NEW fs \in Seq(Frames(n)), GoesOn(down, tab, fs),
         fs # <<>>, fs[Len(fs)].t # "begin", fs[Len(fs)].seq = n, NEW ready, H!Send(fs, ready)
  PROVE  /\ Len(down') <= WireCap /\ WireOK(down', tab, n)
         /\ \/ conn' = ready /\ UpTo(down', tab, n)
            \/ conn' = [ready EXCEPT !.st = "closed"]
  <1>1. Len(log) \in Nat
    BY LenProperties DEF IInv, IngestInv
  <1>2. WireOK(down, tab, n)
    BY <1>1, FramesGrow DEF IInv, WireInv
  <1>3. Len(down) \in Nat /\ Len(down) <= WireCap /\ Len(fs) \in Nat
    BY <1>2, LenProperties DEF WireOK, IInv, WireInv
  <1>4. PICK k \in 0..Len(fs):
           /\ down' = down \o SubSeq(fs, 1, k) /\ Len(down) + k <= WireCap
           /\ \/ k = Len(fs) /\ conn' = ready
              \/ conn' = [ready EXCEPT !.st = "closed"]
    BY <1>3, SendIs
  <1>5. Joined(down', down, tab, n, fs, k)
    BY <1>2, <1>4, JoinedIs
  <1>6. WireOK(down', tab, n) /\ Len(down') = Len(down) + k
    BY <1>5 DEF Joined
  <1>7. Len(down') <= WireCap
    BY <1>4, <1>6
  <1>8. ASSUME k = Len(fs)
        PROVE  UpTo(down', tab, n)
    <2>1. down' # <<>> /\ down'[Len(down')] = fs[Len(fs)]
      BY <1>5, <1>8 DEF Joined
    <2> QED
      BY <2>1 DEF UpTo
  <1> QED
    BY <1>4, <1>6, <1>7, <1>8

-----------------------------------------------------------------------------
(* The steps of the hub and of the tab.                                    *)

HubInv == TabInv /\ ConnInv /\ WireInv

LEMMA HubIs ==
  ASSUME IInv
  PROVE  /\ Len(log) \in Nat /\ Len(down) \in Nat /\ tab.seq \in 0..Len(log)
         /\ WireCap \in Nat \ {0} /\ conn.snap \in 0..Len(log)
  <1>1. Len(log) \in Nat
    BY LenProperties DEF IInv, IngestInv
  <1>2. Len(down) \in Nat
    BY LenProperties DEF IInv, WireInv, WireOK
  <1>3. WireCap \in Nat \ {0}
    BY CapsAssumption
  <1> QED
    BY <1>1, <1>2, <1>3 DEF IInv, TabInv, ConnInv

LEMMA OpenKeeps ==
  ASSUME IInv, H!Open, log' = log
  PROVE  HubInv'
  <1>1. /\ tab.link = "off" /\ old' = old /\ hello' = tab.seq /\ down' = <<>>
        /\ tab' = [tab EXCEPT !.link = "resyncing", !.syncing = TRUE, !.replaying = FALSE, !.buffer = <<>>]
        /\ conn' = [st |-> "open", pending |-> <<>>, seq |-> 0, snap |-> 0]
    BY DEF H!Open, H!Gone
  <1>2. Len(log) \in Nat
    BY HubIs
  <1>3. WireInv'
    BY <1>1, <1>2, EmptyIs, CapsAssumption DEF WireInv
  <1>4. TabInv'
    BY <1>1 DEF IInv, TabInv
  <1>5. ConnInv'
    <2>1. <<>> \in Seq(1..Len(log)) /\ 0 \in 0..Len(log)
      BY <1>2
    <2>2. conn' \in [st: {"gone", "open", "syncing", "ready", "closed"}, pending: Seq(1..Len(log)),
                     seq: 0..Len(log), snap: 0..Len(log)]
      BY <1>1, <2>1
    <2>3. hello' = tab'.seq /\ Awaits(tab)'
      BY <1>1 DEF IInv, TabInv, Awaits
    <2> QED
      BY <1>1, <2>2, <2>3 DEF IInv, ConnInv
  <1> QED
    BY <1>3, <1>4, <1>5 DEF HubInv

LEMMA OffKeeps ==
  ASSUME IInv, H!Off, log' = log, old' = old
  PROVE  HubInv'
  <1>1. /\ tab' = [tab EXCEPT !.link = "off"] /\ hello' = H!None /\ down' = <<>>
        /\ conn' = [st |-> "gone", pending |-> <<>>, seq |-> 0, snap |-> 0]
    BY DEF H!Off, H!Gone
  <1>2. Len(log) \in Nat
    BY HubIs
  <1>3. WireInv'
    BY <1>1, <1>2, EmptyIs, CapsAssumption DEF WireInv
  <1>4. TabInv'
    BY <1>1 DEF IInv, TabInv
  <1>5. ConnInv'
    <2>1. <<>> \in Seq(1..Len(log)) /\ 0 \in 0..Len(log)
      BY <1>2
    <2>2. conn' \in [st: {"gone", "open", "syncing", "ready", "closed"}, pending: Seq(1..Len(log)),
                     seq: 0..Len(log), snap: 0..Len(log)]
      BY <1>1, <2>1
    <2> QED
      BY <1>1, <2>2 DEF IInv, ConnInv
  <1> QED
    BY <1>3, <1>4, <1>5 DEF HubInv

LEMMA GoneKeeps ==
  ASSUME IInv, H!HubGone, log' = log
  PROVE  HubInv'
  <1>1. /\ conn' = IF conn.st = "gone" THEN conn ELSE [st |-> "closed", pending |-> <<>>, seq |-> 0, snap |-> 0]
        /\ hello' = H!None /\ UNCHANGED <<old, down, tab>>
    BY DEF H!HubGone, H!Gone
  <1>2. Len(log) \in Nat
    BY HubIs
  <1>3. conn' \in [st: {"gone", "open", "syncing", "ready", "closed"}, pending: Seq(1..Len(log)),
                   seq: 0..Len(log), snap: 0..Len(log)]
    <2>1. <<>> \in Seq(1..Len(log)) /\ 0 \in 0..Len(log)
      BY <1>2
    <2> QED
      BY <1>1, <2>1 DEF IInv, ConnInv
  <1>4. conn'.st \in {"gone", "closed"} /\ (conn'.st = "gone" <=> conn.st = "gone")
        /\ (conn'.st = "gone" => conn'.pending = <<>>)
    BY <1>1 DEF IInv, ConnInv
  <1>5. TabInv'
    BY <1>1, <1>4 DEF IInv, TabInv
  <1>6. ConnInv'
    BY <1>1, <1>3, <1>4 DEF IInv, ConnInv
  <1>7. WireInv'
    BY <1>1, <1>4 DEF IInv, WireInv
  <1> QED
    BY <1>5, <1>6, <1>7 DEF HubInv

LEMMA SnapshotKeeps ==
  ASSUME IInv, H!Snapshot, log' = log
  PROVE  HubInv'
  <1>1. /\ conn.st = "open" /\ conn' = [conn EXCEPT !.st = "syncing", !.snap = Len(log)]
        /\ hello' = H!None /\ UNCHANGED <<old, down, tab>>
    BY DEF H!Snapshot
  <1>2. Len(log) \in Nat /\ tab.seq \in 0..Len(log)
    BY HubIs
  <1>3. /\ conn \in [st: {"gone", "open", "syncing", "ready", "closed"}, pending: Seq(1..Len(log)),
                     seq: 0..Len(log), snap: 0..Len(log)]
        /\ conn.pending = <<>> /\ down = <<>> /\ Awaits(tab)
    BY <1>1 DEF IInv, ConnInv
  <1>4. /\ conn' \in [st: {"gone", "open", "syncing", "ready", "closed"}, pending: Seq(1..Len(log)),
                      seq: 0..Len(log), snap: 0..Len(log)]
        /\ conn'.st = "syncing" /\ conn'.pending = <<>> /\ conn'.snap = Len(log)
    <2> DEFINE P == Seq(1..Len(log))
               R == 0..Len(log)
    <2>1. /\ conn \in [st: {"gone", "open", "syncing", "ready", "closed"}, pending: P, seq: R, snap: R]
          /\ conn' = [conn EXCEPT !.st = "syncing", !.snap = Len(log)] /\ Len(log) \in R
          /\ conn.pending = <<>>
      BY <1>1, <1>2, <1>3
    <2> HIDE DEF P, R
    <2>2. /\ conn' \in [st: {"gone", "open", "syncing", "ready", "closed"}, pending: P, seq: R, snap: R]
          /\ conn'.st = "syncing" /\ conn'.pending = <<>> /\ conn'.snap = Len(log)
      BY <2>1
    <2> QED
      BY <2>2 DEF P, R
  <1>5. [i \in 1..(Len(log) - Len(log)) |-> Len(log) + i] = <<>>
    BY <1>2
  <1>6. TabInv'
    BY <1>1, <1>4 DEF IInv, TabInv
  <1>7. ConnInv'
    BY <1>1, <1>2, <1>3, <1>4, <1>5 DEF IInv, ConnInv
  <1>8. WireInv'
    BY <1>1, <1>4 DEF IInv, WireInv
  <1> QED
    BY <1>6, <1>7, <1>8 DEF HubInv

(* The state of a socket that was sent everything, or is closed.           *)
LEMMA SentKeeps ==
  ASSUME IInv, NEW n \in Nat, Len(log) <= n, NEW fs \in Seq(Frames(n)), GoesOn(down, tab, fs),
         fs # <<>>, fs[Len(fs)].t # "begin", fs[Len(fs)].seq = n, NEW ready, H!Send(fs, ready),
         ready \in [st: {"ready"}, pending: {<<>>}, seq: {n}, snap: 0..n],
         tab.link # "off", UNCHANGED <<tab, old>>, hello' = H!None, Len(log') = n
  PROVE  HubInv'
  <1>1. /\ Len(down') <= WireCap /\ WireOK(down', tab, n)
        /\ \/ conn' = ready /\ UpTo(down', tab, n)
           \/ conn' = [ready EXCEPT !.st = "closed"]
    BY SendKeeps
  <1>2. /\ conn'.st \in {"ready", "closed"} /\ conn'.seq = n /\ conn'.pending = <<>>
        /\ conn' \in [st: {"gone", "open", "syncing", "ready", "closed"}, pending: Seq(1..n),
                      seq: 0..n, snap: 0..n]
        /\ conn'.st = "ready" => UpTo(down', tab, n)
    <2> DEFINE P == Seq(1..n)
               R == 0..n
    <2>1. <<>> \in P /\ n \in R /\ ready \in [st: {"ready"}, pending: {<<>>}, seq: {n}, snap: R]
      OBVIOUS
    <2> HIDE DEF P, R
    <2>2. /\ conn'.st \in {"ready", "closed"} /\ conn'.seq = n /\ conn'.pending = <<>>
          /\ conn' \in [st: {"gone", "open", "syncing", "ready", "closed"}, pending: P, seq: R, snap: R]
          /\ conn'.st = "ready" => UpTo(down', tab, n)
      BY <1>1, <2>1
    <2> QED
      BY <2>2 DEF P, R
  <1>3. Len(log) \in Nat /\ 0..Len(log) \subseteq 0..n /\ 1..Len(log) \subseteq 1..n
    BY HubIs
  <1>4. TabInv'
    BY <1>2, <1>3 DEF IInv, TabInv
  <1>5. ConnInv'
    BY <1>2, <1>3 DEF IInv, ConnInv
  <1>6. WireInv'
    BY <1>1, <1>2 DEF WireInv
  <1> QED
    BY <1>4, <1>5, <1>6 DEF HubInv

LEMMA ReplayKeeps ==
  ASSUME IInv, H!Replay, log' = log
  PROVE  HubInv'
  <1> DEFINE n == Len(log)
             s == tab.seq
             fs == <<[t |-> "begin"]>> \o H!Events(Run(s, n - s)) \o <<[t |-> "end", seq |-> n]>>
             ready == [conn EXCEPT !.st = "ready", !.seq = n]
  <1>1. n \in Nat /\ s \in 0..n
    BY HubIs
  <1>2. conn.st = "open" /\ hello = s /\ down = <<>> /\ Awaits(tab) /\ conn.pending = <<>>
    BY DEF H!Replay, IInv, ConnInv
  <1>3. s > 0 /\ H!Missed(hello) = Run(s, n - s)
    BY <1>2 DEF H!Replay, H!Replayable, Run
  <1>4. H!Send(fs, ready) /\ hello' = H!None /\ UNCHANGED <<old, tab>>
    BY <1>3 DEF H!Replay
  <1>5. tab.loaded /\ tab.link # "off"
    BY <1>2, <1>3 DEF IInv, TabInv
  <1>6. s + (n - s) = n /\ n - s \in Nat /\ s \in Nat
    BY <1>1
  <1>7. /\ fs \in Seq(Frames(n)) /\ GoesOn(<<>>, tab, fs) /\ fs # <<>>
        /\ fs[Len(fs)].t # "begin" /\ fs[Len(fs)].seq = n
    <2> DEFINE m == n - s
    <2>1. m \in Nat /\ s \in Nat /\ s + m = n
      BY <1>6
    <2>2. fs = <<[t |-> "begin"]>> \o H!Events(Run(s, m)) \o <<[t |-> "end", seq |-> s + m]>>
      BY <2>1
    <2> HIDE DEF m, fs, n
    <2>3. Sync(fs, tab, s + m)
      BY <1>2, <1>5, <2>1, <2>2, ReplayRow
    <2> QED
      BY <2>1, <2>3 DEF Sync
  <1> HIDE DEF fs
  <1>8. GoesOn(down, tab, fs)
    BY <1>2, <1>7
  <1>9. conn \in [st: {"gone", "open", "syncing", "ready", "closed"}, pending: Seq(1..n),
                 seq: 0..n, snap: 0..n]
    BY DEF IInv, ConnInv
  <1>10. ready \in [st: {"ready"}, pending: {<<>>}, seq: {n}, snap: 0..n]
    <2> DEFINE P == Seq(1..n)
               R == 0..n
    <2>1. conn \in [st: {"gone", "open", "syncing", "ready", "closed"}, pending: P, seq: R, snap: R]
      BY <1>9
    <2> HIDE DEF P, R
    <2>2. ready \in [st: {"ready"}, pending: {<<>>}, seq: {n}, snap: R]
      BY <1>2, <2>1
    <2> QED
      BY <2>2 DEF R
  <1>11. Len(log') = n
    OBVIOUS
  <1> HIDE DEF ready
  <1> QED
    BY <1>1, <1>4, <1>5, <1>7, <1>8, <1>10, <1>11, SentKeeps

LEMMA SnapshotSentKeeps ==
  ASSUME IInv, H!SnapshotSent, log' = log
  PROVE  HubInv'
  <1> DEFINE n == Len(log)
             s == conn.snap
             after == H!Newer(conn.pending, conn.snap)
             fs == <<[t |-> "snapshot", seq |-> s]>> \o H!Events(after)
             ready == [conn EXCEPT !.st = "ready", !.pending = <<>>, !.snap = 0,
                                   !.seq = IF after = <<>> THEN conn.snap ELSE H!Last(after)]
  <1>1. n \in Nat /\ s \in 0..n /\ tab.seq \in Nat
    BY HubIs
  <1>2. /\ conn.st = "syncing" /\ H!Send(fs, ready) /\ UNCHANGED <<old, hello, tab>>
    BY DEF H!SnapshotSent
  <1>3. /\ down = <<>> /\ Awaits(tab) /\ tab.seq <= s /\ conn.pending = Run(s, n - s) /\ hello = H!None
    BY <1>2 DEF IInv, ConnInv, Run
  <1>4. n - s \in Nat /\ s \in Nat /\ s + (n - s) = n /\ s \in 0..s
    BY <1>1
  <1>5. after = Run(s, n - s)
    BY <1>3, <1>4, NewerIs
  <1>6. ready \in [st: {"ready"}, pending: {<<>>}, seq: {n}, snap: 0..n]
    <2> DEFINE m == n - s
               last == IF after = <<>> THEN conn.snap ELSE H!Last(after)
    <2>1. m \in Nat /\ s + m = n /\ after = Run(s, m)
      BY <1>4, <1>5
    <2>2. (after = <<>> <=> m = 0) /\ (m # 0 => H!Last(after) = s + m)
      <3> HIDE DEF m, after
      <3> QED
        BY <1>4, <2>1, RunIs
    <2>3. last = n
      <3> HIDE DEF m, after
      <3> QED
        BY <1>4, <2>1, <2>2
    <2>4. ready = [conn EXCEPT !.st = "ready", !.pending = <<>>, !.snap = 0, !.seq = last]
      OBVIOUS
    <2> HIDE DEF last, after
    <2> DEFINE P == Seq(1..n)
               R == 0..n
    <2>5. /\ conn \in [st: {"gone", "open", "syncing", "ready", "closed"}, pending: P, seq: R, snap: R]
          /\ 0 \in R
      BY <1>1 DEF IInv, ConnInv
    <2> HIDE DEF P, R, ready
    <2>6. ready \in [st: {"ready"}, pending: {<<>>}, seq: {n}, snap: R]
      BY <2>3, <2>4, <2>5
    <2> QED
      BY <2>6 DEF R
  <1>7. /\ fs \in Seq(Frames(n)) /\ GoesOn(<<>>, tab, fs) /\ fs # <<>>
        /\ fs[Len(fs)].t # "begin" /\ fs[Len(fs)].seq = n
    <2> DEFINE m == n - s
    <2>1. m \in Nat /\ s + m = n /\ fs = <<[t |-> "snapshot", seq |-> s]>> \o H!Events(Run(s, m))
      BY <1>4, <1>5
    <2> HIDE DEF m, fs, n, after
    <2>2. Sync(fs, tab, s + m)
      BY <1>1, <1>3, <1>4, <2>1, SnapshotRow
    <2> QED
      BY <2>1, <2>2 DEF Sync
  <1> HIDE DEF fs, after
  <1>8. GoesOn(down, tab, fs)
    BY <1>3, <1>7
  <1>9. tab.link # "off"
    BY <1>2 DEF IInv, TabInv
  <1>10. Len(log') = n /\ hello' = H!None
    BY <1>2, <1>3
  <1> HIDE DEF ready
  <1> QED
    BY <1>1, <1>2, <1>6, <1>7, <1>8, <1>9, <1>10, SentKeeps

LEMMA PublishKeeps ==
  ASSUME IInv, NEW n \in Nat, H!Publish(n), n = Len(log')
  PROVE  HubInv'
  <1> DEFINE m == n - Len(log)
             new == [i \in 1..(n - Len(log)) |-> Len(log) + i]
  <1>1. Len(log) \in Nat /\ tab.seq \in 0..Len(log)
    BY HubIs
  <1>2. n > Len(log) /\ UNCHANGED <<old, hello, tab>>
    BY DEF H!Publish
  <1>3. /\ m \in Nat \ {0} /\ Len(log) + m = n /\ new = Run(Len(log), m)
        /\ 0..Len(log) \subseteq 0..n /\ 1..Len(log) \subseteq 1..n
    BY <1>1, <1>2 DEF Run
  <1>4. /\ conn \in [st: {"gone", "open", "syncing", "ready", "closed"}, pending: Seq(1..Len(log)),
                     seq: 0..Len(log), snap: 0..Len(log)]
        /\ old \subseteq 1..n /\ hello = IF conn.st = "open" THEN tab.seq ELSE H!None
    BY <1>3 DEF IInv, ConnInv
  <1>5. conn \in [st: {"gone", "open", "syncing", "ready", "closed"}, pending: Seq(1..n),
                  seq: 0..n, snap: 0..n]
    <2>1. conn.pending \in Seq(1..n)
      BY <1>3, <1>4, SeqMonotonic
    <2>2. conn.st \in {"gone", "open", "syncing", "ready", "closed"} /\ conn.seq \in 0..n /\ conn.snap \in 0..n
      BY <1>3, <1>4
    <2>3. conn = [st |-> conn.st, pending |-> conn.pending, seq |-> conn.seq, snap |-> conn.snap]
      BY <1>4
    <2> QED
      BY <2>1, <2>2, <2>3
  <1>6. WireOK(down, tab, n) /\ Len(down) <= WireCap
    BY <1>1, <1>2, FramesGrow DEF IInv, WireInv
  <1>7. ASSUME conn'.st = "gone" <=> conn.st = "gone", down' = down
        PROVE  TabInv'
    BY <1>2, <1>3, <1>7 DEF IInv, TabInv
  <1>8. CASE conn.st = "syncing"
    <2> DEFINE all == conn.pending \o new
    <2>1. /\ conn' = [conn EXCEPT !.pending = all, !.st = IF Len(all) > PendingCap THEN "closed" ELSE @]
          /\ down' = down
      BY <1>8 DEF H!Publish
    <2>2. /\ conn.pending = Run(conn.snap, Len(log) - conn.snap) /\ tab.seq <= conn.snap
          /\ down = <<>> /\ Awaits(tab) /\ conn.snap \in 0..Len(log)
      BY <1>8 DEF IInv, ConnInv, Run
    <2>3. all = Run(conn.snap, n - conn.snap)
      <3> DEFINE s == conn.snap
                 k == Len(log) - s
                 j == n - s
      <3>1. s \in Nat /\ k \in Nat /\ j \in Nat /\ s + k = Len(log) /\ k + m = j /\ s + j = n
        <4>1. s \in 0..Len(log) /\ Len(log) \in Nat /\ n \in Nat /\ n > Len(log)
          BY <1>1, <1>2, <2>2
        <4> HIDE DEF s
        <4> QED
          BY <4>1
      <3>2. conn.pending = Run(s, k) /\ new = Run(s + k, m)
        BY <1>3, <2>2, <3>1
      <3> HIDE DEF s, k, j, m, new
      <3>3. /\ Run(s, k) \in Seq(1..(s + k)) /\ Len(Run(s, k)) = k
            /\ \A i \in 1..k: Run(s, k)[i] = s + i
        BY <3>1, RunIs
      <3>4. /\ Run(s + k, m) \in Seq(1..(s + k + m)) /\ Len(Run(s + k, m)) = m
            /\ \A i \in 1..m: Run(s + k, m)[i] = s + k + i
        BY <1>3, <3>1, RunIs
      <3>5. /\ Run(s, j) \in Seq(1..(s + j)) /\ Len(Run(s, j)) = j
            /\ \A i \in 1..j: Run(s, j)[i] = s + i
        BY <3>1, RunIs
      <3>6. Run(s, k) \in Seq(Nat) /\ Run(s + k, m) \in Seq(Nat) /\ Run(s, j) \in Seq(Nat)
        <4>1. 1..(s + k) \subseteq Nat /\ 1..(s + k + m) \subseteq Nat /\ 1..(s + j) \subseteq Nat
          OBVIOUS
        <4> QED
          BY <3>3, <3>4, <3>5, <4>1, SeqMonotonic
      <3>7. /\ all = Run(s, k) \o Run(s + k, m) /\ all \in Seq(Nat) /\ Len(all) = j
            /\ \A i \in 1..j: all[i] = IF i <= k THEN Run(s, k)[i] ELSE Run(s + k, m)[i - k]
        <4> DEFINE a == Run(s, k)
                   b == Run(s + k, m)
        <4>1. a \in Seq(Nat) /\ b \in Seq(Nat) /\ Len(a) = k /\ Len(b) = m /\ all = a \o b
          BY <3>2, <3>3, <3>4, <3>6
        <4> HIDE DEF a, b, all
        <4>2. /\ a \o b \in Seq(Nat) /\ Len(a \o b) = Len(a) + Len(b)
              /\ \A i \in 1..Len(a) + Len(b): (a \o b)[i] = IF i <= Len(a) THEN a[i] ELSE b[i - Len(a)]
          BY <4>1, ConcatProperties
        <4>3. /\ all = a \o b /\ all \in Seq(Nat) /\ Len(all) = j
              /\ \A i \in 1..j: all[i] = IF i <= k THEN a[i] ELSE b[i - k]
          BY <3>1, <4>1, <4>2
        <4> QED
          BY <4>3 DEF a, b
      <3> HIDE DEF all
      <3>8. \A i \in 1..j: all[i] = Run(s, j)[i]
        <4> SUFFICES ASSUME NEW i \in 1..j PROVE all[i] = s + i
          BY <3>5
        <4>1. CASE i <= k
          BY <3>1, <3>3, <3>7, <4>1
        <4>2. CASE ~(i <= k)
          <5>1. i - k \in 1..m /\ s + k + (i - k) = s + i
            BY <1>3, <3>1, <4>2
          <5> QED
            BY <3>4, <3>7, <4>2, <5>1
        <4> QED
          BY <4>1, <4>2
      <3>9. all = Run(s, j)
        BY <3>5, <3>6, <3>7, <3>8, SeqEqual
      <3> QED
        BY <3>9 DEF s, j
    <2>4. all \in Seq(1..n)
      <3>1. n - conn.snap \in Nat /\ conn.snap \in Nat /\ conn.snap + (n - conn.snap) = n
        BY <1>1, <1>3, <2>2
      <3> HIDE DEF all
      <3>2. Run(conn.snap, n - conn.snap) \in Seq(1..(conn.snap + (n - conn.snap)))
        BY <3>1, RunIs
      <3> QED
        BY <2>3, <3>1, <3>2
    <2> HIDE DEF all, m, new
    <2>5. /\ conn' \in [st: {"gone", "open", "syncing", "ready", "closed"}, pending: Seq(1..n),
                        seq: 0..n, snap: 0..n]
          /\ conn'.st \in {"syncing", "closed"} /\ conn'.snap = conn.snap /\ conn'.pending = all
      <3> DEFINE P == Seq(1..n)
                 R == 0..n
      <3>1. /\ conn \in [st: {"gone", "open", "syncing", "ready", "closed"}, pending: P, seq: R, snap: R]
            /\ all \in P
        BY <1>5, <2>4
      <3> HIDE DEF P, R
      <3>2. /\ conn' \in [st: {"gone", "open", "syncing", "ready", "closed"}, pending: P, seq: R, snap: R]
            /\ conn'.st \in {"syncing", "closed"} /\ conn'.snap = conn.snap /\ conn'.pending = all
        BY <1>8, <2>1, <3>1
      <3> QED
        BY <3>2 DEF P, R
    <2>6. TabInv'
      BY <1>7, <1>8, <2>1, <2>5
    <2>7. ConnInv'
      <3>1. conn'.pending = [i \in 1..(n - conn'.snap) |-> conn'.snap + i]
        BY <2>3, <2>5 DEF Run
      <3> QED
        BY <1>2, <1>4, <1>8, <2>1, <2>2, <2>5, <3>1 DEF ConnInv
    <2>8. WireInv'
      BY <1>2, <1>6, <2>1, <2>5 DEF WireInv
    <2> QED
      BY <2>6, <2>7, <2>8 DEF HubInv
  <1>9. CASE conn.st = "ready"
    <2> DEFINE newer == H!Newer(new, conn.seq)
               fs == H!Events(newer)
               ready == [conn EXCEPT !.seq = n]
    <2>1. H!Send(fs, ready)
      BY <1>9 DEF H!Publish
    <2>2. conn.seq = Len(log) /\ UpTo(down, tab, Len(log)) /\ conn.pending = <<>> /\ hello = H!None
      BY <1>9 DEF IInv, WireInv, ConnInv
    <2>3. newer = new
      <3>1. Len(log) \in 0..Len(log) /\ m \in Nat
        BY <1>1, <1>3
      <3> QED
        BY <1>1, <1>3, <2>2, <3>1, NewerIs
    <2>4. fs = H!Events(Run(Len(log), m))
      BY <1>3, <2>3
    <2> HIDE DEF newer, fs, m, new
    <2>5. Row(fs, Len(log), m)
      BY <1>1, <1>3, <2>4, EventsAre
    <2>6. /\ fs \in Seq(Frames(n)) /\ fs # <<>> /\ fs[Len(fs)].t # "begin" /\ fs[Len(fs)].seq = n
      <3>1. /\ fs \in Seq(Frames(n)) /\ Len(fs) = m
            /\ \A i \in 1..m: fs[i] = [t |-> "event", seq |-> Len(log) + i]
        BY <1>3, <2>5 DEF Row
      <3>2. m \in 1..m /\ m # 0
        BY <1>3
      <3>3. fs[m] = [t |-> "event", seq |-> n]
        BY <1>3, <3>1, <3>2
      <3> QED
        BY <3>1, <3>2, <3>3
    <2>7. GoesOn(down, tab, fs)
      <3>1. tab.seq \in Nat
        BY <1>1
      <3> QED
        BY <1>1, <1>3, <1>6, <2>2, <2>4, <3>1, EventsGoOn
    <2>8. ready \in [st: {"ready"}, pending: {<<>>}, seq: {n}, snap: 0..n]
      <3> DEFINE P == Seq(1..n)
                 R == 0..n
      <3>1. conn \in [st: {"gone", "open", "syncing", "ready", "closed"}, pending: P, seq: R, snap: R]
        BY <1>5
      <3> HIDE DEF P, R
      <3>2. ready \in [st: {"ready"}, pending: {<<>>}, seq: {n}, snap: R]
        BY <1>9, <2>2, <3>1
      <3> QED
        BY <3>2 DEF R
    <2>9. tab.link # "off" /\ hello' = H!None /\ Len(log) <= n
      BY <1>1, <1>2, <1>9, <2>2 DEF IInv, TabInv
    <2> HIDE DEF ready
    <2> QED
      BY <1>2, <2>1, <2>6, <2>7, <2>8, <2>9, SentKeeps
  <1>10. CASE conn.st \notin {"syncing", "ready"}
    <2>1. UNCHANGED <<conn, down>>
      BY <1>10 DEF H!Publish
    <2>2. TabInv'
      BY <1>7, <2>1
    <2>3. ConnInv'
      BY <1>2, <1>4, <1>5, <1>10, <2>1 DEF IInv, ConnInv
    <2>4. WireInv'
      BY <1>2, <1>6, <1>10, <2>1 DEF WireInv
    <2> QED
      BY <2>2, <2>3, <2>4 DEF HubInv
  <1> QED
    BY <1>8, <1>9, <1>10

(* The tab has nothing buffered: only its seq and its link can change.     *)
LEMMA FlushIs ==
  ASSUME NEW t, t.buffer = <<>>, t.seq \in Nat
  PROVE  H!FlushBuffer(t) = [t EXCEPT !.buffer = <<>>, !.have = t.have, !.seq = t.seq]
  <1> DEFINE newer == {n \in Range(t.buffer): n > t.seq}
  <1>1. newer = {}
    BY DEF Range
  <1>2. H!Max(newer \cup {t.seq}) = t.seq
    <2>1. newer \cup {t.seq} = {t.seq}
      BY <1>1
    <2>2. \A x \in {t.seq}: x = t.seq
      OBVIOUS
    <2>3. H!Max({t.seq}) = t.seq
      BY <2>2 DEF H!Max
    <2> QED
      BY <2>1, <2>3
  <1>3. t.have \cup newer = t.have
    BY <1>1
  <1>4. H!FlushBuffer(t) = [t EXCEPT !.buffer = <<>>, !.have = t.have \cup newer, !.seq = H!Max(newer \cup {t.seq})]
    BY SameSets DEF H!FlushBuffer
  <1> HIDE DEF newer
  <1> QED
    BY <1>2, <1>3, <1>4

(* The tab after a frame that goes on where it is.                         *)
Tabs(n) == [link: {"off", "resyncing", "live"}, loaded: BOOLEAN, syncing: BOOLEAN,
            replaying: BOOLEAN, seq: 0..n, have: SUBSET (1..n), buffer: {<<>>}]

Took(t, u, f) ==
  /\ u.link # "off" /\ u.loaded /\ ~Awaits(u) /\ t.seq <= u.seq /\ u.have = 1..u.seq
  /\ u.seq = IF f.t = "begin" THEN t.seq ELSE f.seq

LEMMA TakesIs ==
  ASSUME NEW n \in Nat, NEW t \in Tabs(n), t.have = 1..t.seq, t.link # "off",
         t.replaying \/ ~t.syncing => t.loaded,
         NEW f \in Frames(n), First(t, f), NEW u,
         \/ f.t = "snapshot" /\ u = H!OnSnapshot(t, f)
         \/ f.t = "begin" /\ u = [t EXCEPT !.replaying = TRUE]
         \/ f.t = "end" /\ u = H!OnReplayEnd(t, f)
         \/ f.t = "event" /\ u = H!OnEvent(t, f.seq)
  PROVE  Took(t, u, f) /\ u \in Tabs(n)
  <1>1. /\ t.seq \in 0..n /\ t.seq \in Nat /\ t.buffer = <<>>
    BY DEF Tabs
  <1>2. f.t # "begin" => f.seq \in 0..n
    BY DEF Frames
  <1>3. CASE f.t = "snapshot" /\ u = H!OnSnapshot(t, f)
    <2> DEFINE v == [t EXCEPT !.loaded = TRUE, !.syncing = FALSE, !.replaying = FALSE,
                              !.seq = f.seq, !.have = 1..f.seq, !.link = "live"]
    <2>1. f.seq \in 0..n /\ f.seq >= t.seq
      <3>1. ~Goes(t.seq, f)
        BY <1>1, <1>3, GoesIs
      <3> QED
        BY <1>2, <1>3, <3>1 DEF First
    <2>2. v \in Tabs(n) /\ v.seq = f.seq /\ v.have = 1..f.seq /\ v.link = "live" /\ v.loaded /\ ~v.syncing
          /\ v.buffer = <<>>
      <3>1. 1..f.seq \in SUBSET (1..n)
        BY <2>1
      <3> QED
        BY <2>1, <3>1 DEF Tabs
    <2>3. u = H!FlushBuffer(v)
      BY <1>3 DEF H!OnSnapshot
    <2> HIDE DEF v
    <2>4. u = [v EXCEPT !.buffer = <<>>, !.have = v.have, !.seq = v.seq]
      <3>1. v.seq \in Nat /\ v.buffer = <<>>
        BY <2>1, <2>2
      <3> QED
        BY <2>3, <3>1, FlushIs
    <2>5. u = v
      BY <2>2, <2>4 DEF Tabs
    <2> QED
      BY <1>1, <1>3, <2>1, <2>2, <2>5 DEF Took, Awaits
  <1>4. CASE f.t = "begin" /\ u = [t EXCEPT !.replaying = TRUE]
    <2>1. t.loaded
      <3>1. ~Goes(t.seq, f)
        BY <1>1, <1>4, GoesIs
      <3> QED
        BY <1>4, <3>1 DEF First
    <2>2. u \in Tabs(n) /\ u.replaying /\ u.seq = t.seq /\ u.have = t.have /\ u.link = t.link /\ u.loaded = t.loaded
      BY <1>4 DEF Tabs
    <2> QED
      BY <1>1, <1>4, <2>1, <2>2 DEF Took, Awaits
  <1>5. CASE f.t = "end" /\ u = H!OnReplayEnd(t, f)
    <2>1. ~Awaits(t) /\ f.seq = t.seq
      BY <1>5 DEF First, Goes
    <2>2. t.loaded
      BY <2>1 DEF Awaits, Tabs
    <2> DEFINE v == [t EXCEPT !.replaying = FALSE, !.syncing = FALSE, !.link = "live",
                              !.seq = IF f.seq > t.seq THEN f.seq ELSE t.seq]
    <2>3. v \in Tabs(n) /\ v.seq = t.seq /\ v.have = t.have /\ v.link = "live" /\ v.loaded = t.loaded
          /\ ~v.syncing /\ v.buffer = <<>>
      BY <1>1, <2>1 DEF Tabs
    <2>4. u = H!FlushBuffer(v)
      BY <1>5 DEF H!OnReplayEnd
    <2> HIDE DEF v
    <2>5. u = [v EXCEPT !.buffer = <<>>, !.have = v.have, !.seq = v.seq]
      BY <1>1, <2>3, <2>4, FlushIs
    <2>6. u = v
      BY <2>3, <2>5 DEF Tabs
    <2>7. u.link # "off" /\ u.loaded /\ ~Awaits(u)
      BY <2>2, <2>3, <2>6 DEF Awaits
    <2>8. f.t # "begin" /\ t.seq <= u.seq /\ u.have = 1..u.seq /\ u.seq = f.seq
      BY <1>1, <1>5, <2>1, <2>3, <2>6
    <2> QED
      BY <2>3, <2>6, <2>7, <2>8 DEF Took
  <1>6. CASE f.t = "event" /\ u = H!OnEvent(t, f.seq)
    <2>1. ~Awaits(t) /\ f.seq = t.seq + 1
      BY <1>6 DEF First, Goes
    <2>2. t.loaded
      BY <2>1 DEF Awaits, Tabs
    <2>3. u = [t EXCEPT !.have = t.have \cup {f.seq}, !.seq = f.seq]
      BY <1>1, <1>6, <2>1, <2>2 DEF H!OnEvent, H!Shown, Awaits
    <2>4. f.seq \in 0..n /\ t.have \cup {f.seq} = 1..f.seq /\ 1..f.seq \in SUBSET (1..n)
      BY <1>1, <1>2, <1>6, <2>1
    <2>5. u \in Tabs(n) /\ u.seq = f.seq /\ u.have = 1..f.seq /\ u.link = t.link /\ u.loaded = t.loaded
          /\ u.syncing = t.syncing /\ u.replaying = t.replaying
      <3>1. u = [t EXCEPT !.have = 1..f.seq, !.seq = f.seq]
        BY <2>3, <2>4
      <3> QED
        BY <2>4, <3>1 DEF Tabs
    <2>6. u.link # "off" /\ u.loaded /\ ~Awaits(u)
      BY <2>1, <2>2, <2>5 DEF Awaits
    <2>7. f.t # "begin" /\ t.seq <= u.seq /\ u.have = 1..u.seq /\ u.seq = f.seq
      BY <1>1, <1>6, <2>1, <2>5
    <2> QED
      BY <2>5, <2>6, <2>7 DEF Took
  <1> QED
    BY <1>3, <1>4, <1>5, <1>6

(* What is left on the wire goes on where the tab now is.                  *)
LEMMA TailGoesOn ==
  ASSUME NEW n \in Nat, NEW d, NEW t, d # <<>>, WireOK(d, t, n), t.seq \in Nat,
         NEW u, Took(t, u, d[1])
  PROVE  /\ WireOK(Tail(d), u, n) /\ Len(Tail(d)) = Len(d) - 1
         /\ UpTo(d, t, n) => UpTo(Tail(d), u, n)
  <1> DEFINE r == Tail(d)
             len == Len(d)
  <1>1. /\ d \in Seq(Frames(n)) /\ len \in Nat
    BY LenProperties DEF WireOK
  <1>2. len # 0 /\ r \in Seq(Frames(n)) /\ Len(r) = len - 1 /\ \A i \in 1..(len - 1): r[i] = d[i + 1]
    <2>1. /\ Tail(d) \in Seq(Frames(n)) /\ Len(Tail(d)) = Len(d) - 1
          /\ \A i \in 1..Len(Tail(d)): Tail(d)[i] = d[i + 1]
      BY <1>1, HeadTailProperties
    <2> QED
      BY <1>1, <2>1
  <1> HIDE DEF r
  <1>3. r # <<>> => len >= 2
    BY <1>1, <1>2
  <1>4. \A i \in 1..(len - 1): Then(t, d[i], d[i + 1])
    BY DEF WireOK
  <1>5. r # <<>> => First(u, r[1])
    <2> SUFFICES ASSUME r # <<>> PROVE First(u, r[1])
      OBVIOUS
    <2>1. 1 \in 1..(len - 1)
      BY <1>1, <1>3
    <2>2. r[1] = d[2] /\ Then(t, d[1], d[2])
      BY <1>2, <1>4, <2>1
    <2>3. Goes(u.seq, r[1])
      BY <2>2 DEF Took, Then
    <2> QED
      BY <2>3 DEF Took, First
  <1>6. ASSUME NEW i \in 1..Len(r) - 1
        PROVE  Then(u, r[i], r[i + 1])
    <2>1. i \in 1..(len - 1) /\ i + 1 \in 1..(len - 1) /\ i + 1 \in 2..len
      BY <1>1, <1>2
    <2>2. r[i] = d[i + 1] /\ r[i + 1] = d[(i + 1) + 1] /\ Then(t, d[i + 1], d[(i + 1) + 1])
      BY <1>2, <1>4, <2>1
    <2>3. d[i + 1].t # "begin"
      BY <2>1, BeginsOnce
    <2> QED
      BY <2>2, <2>3 DEF Then
  <1>7. UpTo(d, t, n) => UpTo(r, u, n)
    <2> SUFFICES ASSUME UpTo(d, t, n) PROVE UpTo(r, u, n)
      OBVIOUS
    <2>1. d[len].t # "begin" /\ d[len].seq = n
      BY DEF UpTo
    <2>2. CASE r = <<>>
      <3>1. len = 1
        BY <1>1, <1>2, <2>2
      <3> QED
        BY <2>1, <2>2, <3>1 DEF UpTo, Took
    <2>3. CASE r # <<>>
      <3>1. r[Len(r)] = d[len]
        <4>1. len - 1 \in 1..(len - 1) /\ (len - 1) + 1 = len
          BY <1>1, <1>3, <2>3
        <4> QED
          BY <1>2, <4>1
      <3> QED
        BY <2>1, <2>3, <3>1 DEF UpTo
    <2> QED
      BY <2>2, <2>3
  <1> QED
    BY <1>2, <1>5, <1>6, <1>7 DEF WireOK, r

LEMMA ReceivesKeeps ==
  ASSUME IInv, H!TabReceives, log' = log
  PROVE  HubInv' /\ tab.seq <= tab'.seq
  <1> DEFINE n == Len(log)
             f == Head(down)
  <1>1. /\ tab.link # "off" /\ down # <<>> /\ down' = Tail(down) /\ UNCHANGED <<old, conn, hello>>
        /\ \/ f.t = "snapshot" /\ tab' = H!OnSnapshot(tab, f)
           \/ f.t = "begin" /\ tab' = [tab EXCEPT !.replaying = TRUE]
           \/ f.t = "end" /\ tab' = H!OnReplayEnd(tab, f)
           \/ f.t = "event" /\ tab' = H!OnEvent(tab, f.seq)
    BY DEF H!TabReceives
  <1>2. n \in Nat /\ Len(down) \in Nat /\ WireCap \in Nat /\ tab.seq \in Nat
    BY HubIs
  <1>3. WireOK(down, tab, n) /\ Len(down) <= WireCap
    BY DEF IInv, WireInv
  <1>4. f = down[1] /\ f \in Frames(n) /\ First(tab, f)
    <2>1. down \in Seq(Frames(n))
      BY <1>3 DEF WireOK
    <2>2. f = down[1] /\ f \in Frames(n)
      BY <1>1, <2>1, HeadTailProperties
    <2> QED
      BY <1>1, <1>3, <2>2 DEF WireOK
  <1>5. /\ tab \in Tabs(n) /\ tab.have = 1..tab.seq
        /\ tab.replaying \/ ~tab.syncing => tab.loaded
        /\ conn.st # "gone"
    BY <1>1 DEF IInv, TabInv, Tabs
  <1> HIDE DEF f, n
  <1>6. Took(tab, tab', f) /\ tab' \in Tabs(n)
    BY <1>1, <1>2, <1>4, <1>5, TakesIs
  <1>7. /\ WireOK(down', tab', n) /\ Len(down') = Len(down) - 1
        /\ UpTo(down, tab, n) => UpTo(down', tab', n)
    BY <1>1, <1>2, <1>3, <1>4, <1>6, TailGoesOn
  <1>8. conn.st \notin {"open", "syncing"}
    BY <1>1 DEF IInv, ConnInv
  <1>9. TabInv'
    BY <1>1, <1>5, <1>6 DEF TabInv, Took, Tabs, n
  <1>10. ConnInv'
    BY <1>1, <1>8 DEF IInv, ConnInv
  <1>11. WireInv'
    BY <1>1, <1>2, <1>3, <1>7 DEF IInv, WireInv, n
  <1> QED
    BY <1>6, <1>9, <1>10, <1>11 DEF HubInv, Took

-----------------------------------------------------------------------------
(* The steps of the whole.                                                 *)

LEMMA InitKeeps == Init => IInv
  <1> SUFFICES ASSUME Init PROVE IInv
    OBVIOUS
  <1>1. /\ hook = [h \in Hooks |-> IF h \in Before THEN "gone" ELSE "new"]
        /\ wire = {} /\ files = {} /\ server = "starting" /\ drain = [at |-> "read", taken |-> {}]
        /\ seen = <<>> /\ pending = {} /\ log = I!Rows(Before)
    BY DEF Init, I!Init
  <1>2. IsFiniteSet(Before) /\ Before \subseteq Nat /\ Before \in SUBSET Hooks
    BY HooksAssumption, FS_Subset
  <1>3. log \in Seq(Hooks) /\ IsInjective(log)
    BY <1>1, <1>2, RowsOf, RowsAre
  <1>4. IngestInv
    <2>1. Len(seen) <= SeenCap /\ Range(seen) = {} /\ seen \in Seq(Hooks)
      BY <1>1, CapsAssumption DEF Range
    <2>2. I!SpooledIsKept
      BY <1>1 DEF I!SpooledIsKept
    <2> QED
      BY <1>1, <1>3, <2>1, <2>2 DEF IngestInv, I!TypeOK
  <1>5. /\ old = {} /\ conn = [st |-> "gone", pending |-> <<>>, seq |-> 0, snap |-> 0]
        /\ hello = H!None /\ down = <<>>
        /\ tab = [link |-> "off", loaded |-> FALSE, syncing |-> FALSE, replaying |-> FALSE,
                  seq |-> 0, have |-> {}, buffer |-> <<>>]
    BY DEF Init, H!HubInit, H!Gone
  <1>6. Len(log) \in Nat /\ 0 \in 0..Len(log) /\ <<>> \in Seq(1..Len(log)) /\ {} = 1..0
    BY <1>3, LenProperties
  <1>7. TabInv
    BY <1>5, <1>6 DEF TabInv
  <1>8. ConnInv
    BY <1>5, <1>6 DEF ConnInv
  <1>9. WireInv
    BY <1>5, <1>6, EmptyIs, CapsAssumption DEF WireInv
  <1> QED
    BY <1>4, <1>7, <1>8, <1>9 DEF IInv

(* What a step is for the promise: the log grows, or the tab gets further. *)
Progress ==
  \/ Grown(log, log') /\ tab' = tab
  \/ log' = log /\ tab'.have = tab.have
  \/ log' = log /\ tab.seq <= tab'.seq

LEMMA PublishedKeeps ==
  ASSUME IInv, IngestInv', Grown(log, log'), Published
  PROVE  IInv' /\ Progress
  <1>1. CASE log' = log
    <2>1. UNCHANGED hubSide
      BY <1>1 DEF Published
    <2>2. HubInv'
      BY <1>1, <2>1 DEF hubSide, IInv, HubInv, TabInv, ConnInv, WireInv
    <2> QED
      BY <1>1, <2>1, <2>2 DEF hubSide, IInv, HubInv, Progress
  <1>2. CASE log' # log
    <2>1. H!Publish(Len(log'))
      BY <1>2 DEF Published
    <2>2. Len(log') \in Nat
      BY LenProperties DEF IngestInv
    <2>3. HubInv'
      BY <2>1, <2>2, PublishKeeps
    <2>4. tab' = tab
      BY <2>1 DEF H!Publish
    <2> QED
      BY <2>3, <2>4 DEF IInv, HubInv, Progress
  <1> QED
    BY <1>1, <1>2

LEMMA HubStepKeeps ==
  ASSUME IInv, UNCHANGED ingestSide, HubInv'
  PROVE  IInv'
  <1>1. IngestInv'
    BY DEF ingestSide, IInv, IngestInv, I!TypeOK, I!SpooledIsKept
  <1> QED
    BY <1>1 DEF IInv, HubInv

LEMMA FollowingKeeps ==
  ASSUME IInv, Following
  PROVE  IInv' /\ Progress
  <1>1. log' = log /\ UNCHANGED ingestSide
    BY DEF Following, ingestSide
  <1>2. CASE H!Replay
    BY <1>1, <1>2, ReplayKeeps, HubStepKeeps DEF Progress, H!Replay
  <1>3. CASE H!Snapshot
    BY <1>1, <1>3, SnapshotKeeps, HubStepKeeps DEF Progress, H!Snapshot
  <1>4. CASE H!SnapshotSent
    BY <1>1, <1>4, SnapshotSentKeeps, HubStepKeeps DEF Progress, H!SnapshotSent
  <1>5. CASE H!TabReceives
    BY <1>1, <1>5, ReceivesKeeps, HubStepKeeps DEF Progress
  <1>6. CASE H!TabClosed
    <2>1. H!Off /\ old' = old
      BY <1>6 DEF H!TabClosed
    <2>2. tab'.have = tab.have
      BY <2>1 DEF H!Off, IInv, TabInv
    <2> QED
      BY <1>1, <2>1, <2>2, OffKeeps, HubStepKeeps DEF Progress
  <1> QED
    BY <1>2, <1>3, <1>4, <1>5, <1>6 DEF Following

LEMMA NextKeeps ==
  ASSUME IInv, [Next]_vars
  PROVE  IInv' /\ Progress
  <1>1. CASE UNCHANGED vars
    <2>1. UNCHANGED ingestSide /\ UNCHANGED hubSide
      BY <1>1 DEF vars
    <2>2. HubInv'
      BY <2>1 DEF ingestSide, hubSide, IInv, HubInv, TabInv, ConnInv, WireInv
    <2> QED
      BY <2>1, <2>2, HubStepKeeps DEF ingestSide, hubSide, Progress
  <1>2. IngestInv
    BY DEF IInv
  <1>3. CASE Hooking \/ Working \/ Refused
    <2>1. IngestInv' /\ Grown(log, log') /\ Published
      BY <1>2, <1>3, IngestKeeps DEF Hooking, Working, Refused
    <2> QED
      BY <2>1, PublishedKeeps
  <1>4. CASE Stops
    <2>1. I!Stop /\ H!HubGone
      BY <1>4 DEF Stops
    <2>2. IngestInv'
      BY <1>2, <2>1, IngestKeeps
    <2>3. log' = log /\ tab' = tab
      BY <2>1 DEF I!Stop, H!HubGone
    <2>4. HubInv'
      BY <2>1, <2>3, GoneKeeps
    <2> QED
      BY <2>2, <2>3, <2>4 DEF IInv, HubInv, Progress
  <1>5. CASE Connects
    <2>1. H!Open /\ UNCHANGED ingestSide /\ log' = log
      BY <1>5 DEF Connects, ingestSide
    <2>2. tab'.have = tab.have
      BY <2>1 DEF H!Open, IInv, TabInv
    <2> QED
      BY <2>1, <2>2, OpenKeeps, HubStepKeeps DEF Progress
  <1>6. CASE Following
    BY <1>6, FollowingKeeps
  <1>7. CASE Ages
    <2>1. H!Age /\ UNCHANGED ingestSide /\ log' = log
      BY <1>7 DEF Ages, ingestSide
    <2>2. UNCHANGED <<conn, hello, down, tab>> /\ old' \subseteq 1..Len(log)
      BY <2>1 DEF H!Age, IInv, ConnInv
    <2>3. HubInv'
      BY <2>1, <2>2 DEF IInv, HubInv, TabInv, ConnInv, WireInv
    <2> QED
      BY <2>1, <2>2, <2>3, HubStepKeeps DEF Progress
  <1>8. CASE Drops
    <2>1. H!Off /\ UNCHANGED ingestSide /\ log' = log /\ old' = old
      BY <1>8 DEF Drops, H!Drop, ingestSide
    <2>2. tab'.have = tab.have
      BY <2>1 DEF H!Off, IInv, TabInv
    <2> QED
      BY <2>1, <2>2, OffKeeps, HubStepKeeps DEF Progress
  <1> QED
    BY <1>1, <1>3, <1>4, <1>5, <1>6, <1>7, <1>8 DEF Next

-----------------------------------------------------------------------------
(* In every reachable state what is remembered waits or is applied, a tab  *)
(* shows the log up to its seq, and the frames on the wire follow one      *)
(* another from there to the end of the log.                               *)
THEOREM FeedInvariant == Spec => []IInv
  <1>1. IInv /\ [Next]_vars => IInv'
    BY NextKeeps
  <1> QED
    BY <1>1, InitKeeps, PTL DEF Spec

(* An event left in the spool is there until it is in the database,        *)
(* whatever is refused, seen before, drained twice or killed in between    *)
(* (drainSpool, createIngestor, deck-hook.mjs).                            *)
THEOREM SpooledAlwaysKept == Spec => []SpooledIsKept
  <1>1. IInv => SpooledIsKept
    <2> SUFFICES ASSUME IInv PROVE SpooledIsKept
      OBVIOUS
    <2>1. I!TypeOK /\ I!SpooledIsKept
      BY DEF IInv, IngestInv
    <2>2. H!HubTypeOK
      <3>1. Len(log) \in Nat /\ tab.seq \in 0..Len(log)
        BY HubIs
      <3>2. hello \in {H!None} \cup 0..Len(log)
        BY <3>1 DEF IInv, ConnInv
      <3>3. conn.st # "syncing" => conn.pending = <<>> \/ conn.st = "closed"
        BY DEF IInv, ConnInv
      <3> QED
        BY <3>1, <3>2, <3>3 DEF H!HubTypeOK, IInv, ConnInv, TabInv, WireInv
    <2> QED
      BY <2>1, <2>2 DEF SpooledIsKept, TypeOK
  <1> QED
    BY <1>1, FeedInvariant, PTL

(* A log that grew has its old self as a prefix.                           *)
LEMMA GrownIsPrefix ==
  ASSUME NEW was \in Seq(Hooks), NEW now, Grown(was, now), now # was
  PROVE  Promise!IsStrictPrefix(was, now) /\ Promise!IsInjective(now)
  <1>1. /\ now \in Seq(Hooks) /\ Len(was) <= Len(now) /\ Len(was) \in Nat /\ Len(now) \in Nat
        /\ \A i \in 1..Len(was): now[i] = was[i] /\ was[i] \in Hooks
    BY LenProperties, ElementOfSeq DEF Grown
  <1> DEFINE k == Len(was)
             a == SubSeq(was, 1, k)
             b == SubSeq(now, 1, k)
  <1>2. a = was
    BY SubSeqFull
  <1>3. /\ b \in Seq(Hooks) /\ Len(b) = k /\ \A i \in 1..k: b[i] = now[i]
    <2>1. \A i \in 1..k: now[i] \in Hooks
      BY <1>1
    <2>2. /\ b \in Seq(Hooks) /\ Len(b) = IF 1 <= k THEN k - 1 + 1 ELSE 0
          /\ \A i \in 1..(k - 1 + 1): b[i] = now[1 + i - 1]
      BY <1>1, <2>1, SubSeqProperties
    <2> QED
      BY <1>1, <2>2
  <1> HIDE DEF b
  <1>4. b = was
    BY <1>1, <1>3, SeqEqual
  <1>5. Promise!IsInjective(now)
    BY DEF Grown, IsInjective, Promise!IsInjective
  <1> QED
    BY <1>1, <1>2, <1>4, <1>5 DEF Promise!IsStrictPrefix, Promise!IsPrefix, b

(* The whole implements the safety of FeedPromise: each event is applied   *)
(* at most once, and a tab shows a prefix of the log that never goes back  *)
(* (hub.mjs, api.js and deck-store.js over main.mjs's publish).            *)
THEOREM PromiseIsKept == Spec => Promise!Safety
  <1>1. Init => Promise!Init
    <2> SUFFICES ASSUME Init PROVE Promise!Init
      OBVIOUS
    <2>1. IsInjective(log)
      BY InitKeeps DEF IInv, IngestInv
    <2>2. tab.have = {}
      BY DEF Init, H!HubInit
    <2> QED
      BY <2>1, <2>2 DEF Promise!Init, Promise!IsInjective, IsInjective
  <1>2. IInv /\ [Next]_vars => [Promise!Grow \/ Promise!CatchUp]_<<log, tab.have>>
    <2> SUFFICES ASSUME IInv, [Next]_vars, ~(UNCHANGED <<log, tab.have>>)
                 PROVE  Promise!Grow \/ Promise!CatchUp
      OBVIOUS
    <2>1. IInv' /\ Progress
      BY NextKeeps
    <2>2. CASE Grown(log, log') /\ tab' = tab
      <3>1. log' # log /\ log \in Seq(Hooks)
        BY <2>2 DEF IInv, IngestInv
      <3> QED
        BY <2>2, <3>1, GrownIsPrefix DEF Promise!Grow
    <2>3. CASE log' = log /\ tab'.have = tab.have
      BY <2>3
    <2>4. CASE log' = log /\ tab.seq <= tab'.seq
      <3>1. /\ tab.have = 1..tab.seq /\ tab'.have = 1..tab'.seq
            /\ tab.seq \in 0..Len(log) /\ tab'.seq \in 0..Len(log') /\ Len(log) \in Nat
        BY <2>1, HubIs DEF IInv, TabInv
      <3>2. tab'.seq # tab.seq
        BY <2>4, <3>1
      <3>3. tab'.seq \in 1..Len(log) /\ tab'.seq \notin tab.have
        BY <2>4, <3>1, <3>2
      <3> QED
        BY <2>4, <3>1, <3>3 DEF Promise!CatchUp
    <2> QED
      BY <2>1, <2>2, <2>3, <2>4 DEF Progress
  <1> QED
    BY <1>1, <1>2, FeedInvariant, PTL DEF Spec, Promise!Safety
=============================================================================
