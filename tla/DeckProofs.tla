----------------------------- MODULE DeckProofs -----------------------------
(***************************************************************************)
(* Theorems about the deck's two parts, each for any values of its         *)
(* constants.  Deliver, for any set of calls and any number of answers,    *)
(* crashes and retries: the request's audit and counter agree with it and  *)
(* the deck is credited with what deckd typed; a settled answer stays;     *)
(* keys leave under the tier the request has by then.  Terminal, for any   *)
(* tabs, chunks and faults: an attached tab shows the output without a gap *)
(* or a chunk twice, deckd streams exactly while a tab reads, and a tab at *)
(* rest shows all there is.                                                *)
(***************************************************************************)
EXTENDS Deliver, Terminal, WellFoundedInduction, TLAPS

(* One answer is in flight, none while the server is down.                 *)
OneCall == \A c, d \in Calls : calls[c] # Idle /\ calls[d] # Idle => c = d
DownIsQuiet == ~up => watch = NoWatch /\ \A c \in Calls : calls[c] = Idle

(* What the row's columns say of one another.                              *)
RowAgrees ==
    /\ answer.kind \in {"final", "pending"} <=> state = "answered"
    /\ answer.kind = "pending" => delivery = "sending"
    /\ answer.kind = "final" => delivery # "sending"
    /\ state = "open" /\ delivery # "idle" => answer.kind = "sent"

(* A sent answer's keys were typed once deckd said so; those of the answer *)
(* before it always were.                                                  *)
Known == typed \cup {"none"}
Holds(a, d) ==
    /\ d \in {"verifying", "did_not_land"} => a.choice \in typed
    /\ d # "idle" => a.prior \in Known

(* Whatever the deck may come to be credited with was typed.               *)
CreditIsTyped ==
    /\ answer.kind = "sent" => Holds(answer, delivery)
    /\ answer.kind = "pending" /\ answer.refused.via = "deck" => answer.refused.choice \in typed
    /\ answer.kind = "final" /\ answer.via = "deck" => answer.choice \in typed
    /\ watch.on => watch.choice \in typed

(* What a call in flight keeps is what the row said, and once the attempt  *)
(* is recorded the row speaks of this call.                                *)
CallAgrees(call) ==
    /\ call.prior \in Known
    /\ call.wasAnswer.kind \in {"none", "sent"}
    /\ call.wasDelivery = "did_not_land" =>
          call.wasAnswer.kind = "sent" /\ Holds(call.wasAnswer, "did_not_land")
    /\ call.pc = "write" => call.sending
    /\ call.sending =>
          /\ delivery = "sending"
          /\ state = "open" => answer.choice = call.choice
          /\ answer.kind = "pending" /\ answer.accepted.via = "deck"
                => answer.accepted.choice = call.choice
CallsAgree == \A c \in Calls : calls[c] # Idle => CallAgrees(calls[c])

(* While the screen can still prove an answer, no other is in flight.      *)
WatchAgrees ==
    watch.on /\ ~watch.late =>
        /\ \A c \in Calls : calls[c] = Idle
        /\ state = "open" => delivery = "verifying"

(* The audit has the answer of the row or nothing, and an answer the watch *)
(* has still to book is not counted.                                       *)
Booked ==
    /\ audit = <<>> \/ (answer.kind = "final" /\ audit = <<answer>>)
    /\ counted \in {0, 1}
    /\ counted = 1 => answer.kind = "final" /\ answer.choice = "allow"
    /\ watch.on /\ answer.kind = "final" /\ answer.via = "deck" => counted = 0

IInv == /\ TypeOK /\ OneCall /\ DownIsQuiet /\ RowAgrees /\ CreditIsTyped
        /\ CallsAgree /\ WatchAgrees /\ Booked

-----------------------------------------------------------------------------
(* The kinds of an answer.                                                 *)

LEMMA Kinds ==
    ASSUME NEW a \in Answers
    PROVE  /\ a.kind \in {"none", "final", "sent", "pending"}
           /\ a.kind = "none" => a = NoAnswer
           /\ a.kind = "final" => a \in Finals /\ a.via \in {"deck", "terminal"} /\ a.choice \in Choice
           /\ a.kind = "sent" => a \in Sents /\ a.choice \in Choice /\ a.prior \in Choice \cup {"none"}
           /\ a.kind = "pending" => /\ a \in Pendings /\ a.choice \in Choice
                                    /\ a.accepted \in Finals /\ a.refused \in Finals
  BY DEF Answers, NoAnswer, Finals, Sents, Pendings

LEMMA FinalKind ==
    ASSUME NEW f \in Finals
    PROVE  /\ f \in Answers /\ f.kind = "final"
           /\ f.via \in {"deck", "terminal"} /\ f.choice \in Choice
           /\ <<f>> \in Seq(Finals)
  BY DEF Answers, Finals

LEMMA FinalIs ==
    ASSUME NEW via \in {"deck", "terminal"}, NEW choice \in Choice
    PROVE  /\ Final(via, choice) \in Finals
           /\ Final(via, choice).via = via /\ Final(via, choice).choice = choice
  BY DEF Final, Finals

(* The deck's answer is credited when it says what the hook says.          *)
LEMMA JudgeIs ==
    ASSUME NEW sent, NEW verdict \in Choice, NEW inTime \in BOOLEAN
    PROVE  /\ Judge(sent, verdict, inTime) \in Finals
           /\ Judge(sent, verdict, inTime).choice = verdict
           /\ Judge(sent, verdict, inTime).via = "deck" => sent = verdict
  <1>1. CASE inTime /\ sent = verdict
    BY <1>1, FinalIs DEF Judge
  <1>2. CASE ~(inTime /\ sent = verdict)
    BY <1>2, FinalIs DEF Judge, Terminal
  <1> QED
    BY <1>1, <1>2

(* A call in flight is a record, and what the assignments make of it.      *)
LEMMA InFlightIs ==
    ASSUME calls \in [Calls -> Call \cup {Idle}], NEW c \in Calls, calls[c].pc # "idle"
    PROVE  calls[c] \in Call /\ calls[c] # Idle
  BY DEF Idle

LEMMA CallIs ==
    ASSUME NEW k \in Call
    PROVE  /\ k # Idle /\ k.pc \in {"screen", "scan", "write"} /\ k.choice \in Choice
           /\ k.batch \in BOOLEAN /\ k.confirm \in BOOLEAN /\ k.sending \in BOOLEAN
           /\ k.tries \in Nat /\ k.wasDelivery \in {"idle", "did_not_land"}
           /\ k.wasAnswer \in Answers /\ k.prior \in Choice \cup {"none"}
  BY DEF Call, Idle

-----------------------------------------------------------------------------
(* The call that ends was the only one.                                    *)

LEMMA LastCall ==
    ASSUME TypeOK, OneCall, NEW c \in Calls, calls[c] # Idle,
           calls' = [calls EXCEPT ![c] = Idle]
    PROVE  calls' \in [Calls -> Call \cup {Idle}] /\ \A d \in Calls : calls'[d] = Idle
  <1>1. calls \in [Calls -> Call \cup {Idle}]
    BY DEF TypeOK
  <1>2. \A d \in Calls : d # c => calls[d] = Idle
    BY DEF OneCall
  <1> QED
    BY <1>1, <1>2

LEMMA Quiet ==
    ASSUME \A d \in Calls : calls'[d] = Idle
    PROVE  OneCall' /\ CallsAgree' /\ (~up' => \A c \in Calls : calls'[c] = Idle)
  BY DEF OneCall, CallsAgree

(* What an ended call leaves is the row's affair alone.                    *)
LEMMA FailKeeps ==
    ASSUME IInv, NEW c \in Calls, calls[c] \in Call, Fail(c),
           tier' \in Tiers, typed \subseteq typed', typed' \subseteq Choice,
           UNCHANGED <<up, bounds>>
    PROVE  IInv'
  <1> DEFINE call == calls[c]
  <1>1. /\ call # Idle /\ call.sending \in BOOLEAN /\ call.wasDelivery \in {"idle", "did_not_land"}
        /\ call.wasAnswer \in Answers
    BY CallIs
  <1>2. calls' = [calls EXCEPT ![c] = Idle] /\ up
    BY <1>1 DEF Fail, IInv, DownIsQuiet
  <1>3. calls' \in [Calls -> Call \cup {Idle}] /\ \A d \in Calls : calls'[d] = Idle
    BY <1>1, <1>2, LastCall DEF IInv
  <1>4. OneCall' /\ CallsAgree' /\ DownIsQuiet'
    BY <1>2, <1>3, Quiet DEF DownIsQuiet
  <1>5. CallAgrees(call)
    BY <1>1 DEF IInv, CallsAgree
  <1>6. /\ answer.kind = "none" => answer = NoAnswer
        /\ answer.kind = "pending" => answer.accepted \in Finals /\ answer.refused \in Finals
        /\ answer.kind \in {"none", "final", "sent", "pending"}
    BY Kinds DEF IInv, TypeOK
  <1>7. UNCHANGED <<up, answers, crashes, state>>
    BY DEF bounds, Fail
  <1>8. CASE ~call.sending
    <2>1. UNCHANGED <<delivery, answer, audit, counted, watch>>
      BY <1>8 DEF Fail
    <2>2. TypeOK'
      BY <1>3, <1>7, <2>1 DEF IInv, TypeOK
    <2>3. RowAgrees' /\ Booked' /\ WatchAgrees'
      BY <1>3, <1>7, <2>1 DEF IInv, RowAgrees, Booked, WatchAgrees
    <2>4. CreditIsTyped'
      BY <1>7, <2>1 DEF IInv, CreditIsTyped, Holds, Known
    <2> QED
      BY <1>4, <2>2, <2>3, <2>4 DEF IInv
  <1>9. CASE call.sending /\ state = "open"
    <2>1. delivery' = call.wasDelivery /\ answer' = call.wasAnswer /\ UNCHANGED <<audit, counted, watch>>
      BY <1>9 DEF Fail
    <2>2. TypeOK'
      BY <1>1, <1>3, <1>7, <2>1 DEF IInv, TypeOK
    <2>3. watch.on => watch.late
      BY <1>1 DEF IInv, WatchAgrees
    <2>4. RowAgrees' /\ WatchAgrees'
      BY <1>1, <1>5, <1>7, <1>9, <2>1, <2>3 DEF IInv, RowAgrees, WatchAgrees, CallAgrees
    <2>5. answer.kind # "final" /\ answer'.kind # "final"
      BY <1>5, <1>9, <2>1 DEF IInv, RowAgrees, CallAgrees
    <2>6. Booked'
      BY <2>1, <2>5 DEF IInv, Booked
    <2>7. CreditIsTyped'
      BY <1>1, <1>5, <1>7, <2>1, <2>5 DEF IInv, CreditIsTyped, CallAgrees, Holds, Known
    <2> QED
      BY <1>4, <2>2, <2>4, <2>6, <2>7 DEF IInv
  <1>10. CASE call.sending /\ state # "open" /\ answer.kind = "pending"
    <2> DEFINE f == answer.refused
    <2>1. /\ answer' = f /\ delivery' = (IF f.via = "deck" THEN "verifying" ELSE "idle")
          /\ watch' = NoWatch
          /\ Record(f)
          /\ \/ Count(f)
             \/ f.via = "terminal" /\ UNCHANGED counted
      <3>1. ~(~call.sending) /\ ~(state = "open")
        BY <1>10
      <3> QED
        BY <3>1, <1>10 DEF Fail
    <2>2. f \in Finals
      BY <1>6, <1>10
    <2>3. /\ f \in Answers /\ f.kind = "final" /\ f.choice \in Choice /\ <<f>> \in Seq(Finals)
      BY <2>2, FinalKind
    <2> HIDE DEF f
    <2>4. audit = <<>> /\ counted = 0
      BY <1>10 DEF IInv, Booked
    <2>5. audit' = <<f>> /\ counted' \in {0, 1} /\ (counted' = 1 => f.choice = "allow")
      BY <2>1, <2>4 DEF Record, Count
    <2>6. TypeOK'
      BY <1>3, <1>7, <2>1, <2>3, <2>5 DEF IInv, TypeOK
    <2>7. RowAgrees' /\ WatchAgrees'
      BY <1>7, <1>10, <2>1, <2>3 DEF IInv, RowAgrees, WatchAgrees, NoWatch
    <2>8. Booked'
      BY <2>1, <2>3, <2>5 DEF Booked, NoWatch
    <2>9. CreditIsTyped'
      BY <1>10, <2>1, <2>3 DEF IInv, CreditIsTyped, NoWatch, f
    <2> QED
      BY <1>4, <2>6, <2>7, <2>8, <2>9 DEF IInv
  <1>11. CASE call.sending /\ state # "open" /\ answer.kind # "pending"
    <2>1. state = "expired" /\ answer.kind # "final"
      BY <1>5, <1>11 DEF IInv, TypeOK, RowAgrees, CallAgrees
    <2>2. delivery' = "idle" /\ answer' = call.wasAnswer /\ UNCHANGED <<audit, counted, watch>>
      BY <1>11, <2>1 DEF Fail
    <2>3. TypeOK'
      BY <1>1, <1>3, <1>7, <2>2 DEF IInv, TypeOK
    <2>4. RowAgrees' /\ WatchAgrees'
      BY <1>5, <1>7, <1>3, <2>1, <2>2 DEF IInv, RowAgrees, WatchAgrees, CallAgrees
    <2>5. Booked'
      BY <1>5, <2>1, <2>2 DEF IInv, Booked, CallAgrees
    <2>6. CreditIsTyped'
      BY <1>5, <1>7, <2>2 DEF IInv, CreditIsTyped, CallAgrees, Holds, Known
    <2> QED
      BY <1>4, <2>3, <2>4, <2>5, <2>6 DEF IInv
  <1> QED
    BY <1>1, <1>8, <1>9, <1>10, <1>11

(* A call that goes on is still the only one.                              *)
LEMMA CallMoves ==
    ASSUME TypeOK, OneCall, NEW c \in Calls, calls[c] # Idle, NEW k \in Call,
           calls' = [calls EXCEPT ![c] = k]
    PROVE  /\ calls' \in [Calls -> Call \cup {Idle}] /\ OneCall'
           /\ calls'[c] = k /\ \A d \in Calls : d # c => calls'[d] = Idle
  <1>1. calls \in [Calls -> Call \cup {Idle}]
    BY DEF TypeOK
  <1>2. \A d \in Calls : d # c => calls[d] = Idle
    BY DEF OneCall
  <1> QED
    BY <1>1, <1>2 DEF OneCall

(* The attempt is recorded and the keys go out, or it fails.               *)
LEMMA SendKeeps ==
    ASSUME IInv, NEW c \in Calls, calls[c] \in Call, state = "open",
           NEW t \in Tiers, Send(c, t), tier' = t, UNCHANGED <<up, typed, bounds>>
    PROVE  IInv'
  <1> DEFINE call == calls[c]
  <1>1. /\ call # Idle /\ call.choice \in Choice /\ call.prior \in Choice \cup {"none"}
        /\ call.sending \in BOOLEAN
    BY CallIs
  <1>2. CASE ~TierAllows(call, t)
    <2>1. Fail(c)
      BY <1>2 DEF Send
    <2> QED
      BY <2>1, FailKeeps DEF IInv, TypeOK
  <1>3. CASE TierAllows(call, t)
    <2> DEFINE k == [call EXCEPT !.pc = "write", !.sending = TRUE]
               a == [kind |-> "sent", choice |-> call.choice, prior |-> call.prior]
    <2>1. /\ delivery' = "sending" /\ answer' = a
          /\ calls' = [calls EXCEPT ![c].pc = "write", ![c].sending = TRUE]
          /\ UNCHANGED <<state, audit, counted, watch>>
      BY <1>3 DEF Send
    <2>2. /\ k \in Call /\ k.pc = "write" /\ k.sending = TRUE /\ k.choice = call.choice
          /\ k.prior = call.prior /\ k.wasAnswer = call.wasAnswer /\ k.wasDelivery = call.wasDelivery
      BY DEF Call
    <2>3. calls' = [calls EXCEPT ![c] = k]
      BY <2>1 DEF IInv, TypeOK
    <2>4. a \in Answers /\ a.kind = "sent" /\ a.choice = call.choice /\ a.prior = call.prior
      BY <1>1 DEF Answers, Sents
    <2> HIDE DEF k, a
    <2>5. /\ calls' \in [Calls -> Call \cup {Idle}] /\ OneCall'
          /\ calls'[c] = k /\ \A d \in Calls : d # c => calls'[d] = Idle
      BY <1>1, <2>2, <2>3, CallMoves DEF IInv
    <2>6. UNCHANGED <<up, typed, answers, crashes>>
      BY DEF bounds
    <2>7. TypeOK'
      BY <2>1, <2>4, <2>5, <2>6 DEF IInv, TypeOK
    <2>8. DownIsQuiet'
      BY <1>1, <2>6 DEF IInv, DownIsQuiet
    <2>9. RowAgrees' /\ answer.kind # "final"
      BY <2>1, <2>4 DEF IInv, RowAgrees
    <2>10. Booked'
      BY <2>1, <2>4, <2>9 DEF IInv, Booked
    <2>11. CallAgrees(call)
      BY <1>1 DEF IInv, CallsAgree
    <2>12. CreditIsTyped'
      BY <1>1, <2>1, <2>4, <2>6, <2>11 DEF IInv, CreditIsTyped, CallAgrees, Holds, Known
    <2>13. CallsAgree'
      <3>1. /\ calls'[c].pc = "write" /\ calls'[c].sending = TRUE /\ calls'[c].choice = call.choice
            /\ calls'[c].prior = call.prior /\ calls'[c].wasAnswer = call.wasAnswer
            /\ calls'[c].wasDelivery = call.wasDelivery
        BY <2>2, <2>5
      <3>2. CallAgrees(calls[c])'
        BY <2>1, <2>4, <2>6, <2>11, <3>1 DEF CallAgrees, Holds, Known
      <3> QED
        BY <2>5, <3>2 DEF CallsAgree
    <2>14. WatchAgrees'
      BY <1>1, <2>1 DEF IInv, WatchAgrees
    <2> QED
      BY <2>5, <2>7, <2>8, <2>9, <2>10, <2>12, <2>13, <2>14 DEF IInv
  <1> QED
    BY <1>2, <1>3

(* A call goes to another step of its own before it has to be recorded, or *)
(* to another read of the screen after.                                    *)
LEMMA StepKeeps ==
    ASSUME IInv, NEW c \in Calls, calls[c] \in Call, NEW k \in Call,
           calls' = [calls EXCEPT ![c] = k], k.pc # "write",
           k.choice = calls[c].choice, k.prior = calls[c].prior, k.sending = calls[c].sending,
           k.wasAnswer = calls[c].wasAnswer, k.wasDelivery = calls[c].wasDelivery,
           UNCHANGED <<row, books, up, watch, typed, bounds>>
    PROVE  IInv'
  <1>1. calls[c] # Idle
    BY CallIs
  <1>2. /\ calls' \in [Calls -> Call \cup {Idle}] /\ OneCall'
        /\ calls'[c] = k /\ \A d \in Calls : d # c => calls'[d] = Idle
    BY <1>1, CallMoves DEF IInv
  <1>3. UNCHANGED <<state, delivery, answer, tier, audit, counted, up, watch, typed, answers, crashes>>
    BY DEF row, books, bounds
  <1>4. TypeOK'
    BY <1>2, <1>3 DEF IInv, TypeOK
  <1>5. DownIsQuiet' /\ WatchAgrees'
    BY <1>1, <1>3 DEF IInv, DownIsQuiet, WatchAgrees
  <1>6. RowAgrees' /\ Booked'
    BY <1>3 DEF IInv, RowAgrees, Booked
  <1>7. CreditIsTyped'
    BY <1>3 DEF IInv, CreditIsTyped, Holds, Known
  <1>8. CallsAgree'
    <2>1. CallAgrees(calls[c])
      BY <1>1 DEF IInv, CallsAgree
    <2>2. CallAgrees(k)'
      BY <1>3, <2>1 DEF CallAgrees, Holds, Known
    <2> QED
      BY <1>2, <2>2 DEF CallsAgree
  <1> QED
    BY <1>2, <1>4, <1>5, <1>6, <1>7, <1>8 DEF IInv

-----------------------------------------------------------------------------
(* The steps of a call.                                                    *)

LEMMA AnswerKeeps ==
    ASSUME IInv, NEW c \in Calls, NEW choice \in Choice, NEW batch \in BOOLEAN,
           NEW confirm \in BOOLEAN, Answer(c, choice, batch, confirm)
    PROVE  IInv'
  <1> DEFINE k == [pc |-> "screen", choice |-> choice, batch |-> batch,
                   confirm |-> confirm, sending |-> FALSE, tries |-> 0,
                   wasDelivery |-> delivery, wasAnswer |-> answer,
                   prior |-> IF delivery = "did_not_land" THEN answer.choice ELSE "none"]
  <1>1. /\ up /\ state = "open" /\ delivery \notin {"sending", "verifying"}
        /\ \A d \in Calls : calls[d] = Idle
        /\ answers < MaxAnswers /\ answers' = answers + 1
        /\ calls' = [calls EXCEPT ![c] = k]
    BY DEF Answer
  <1>2. UNCHANGED <<state, delivery, answer, tier, audit, counted, up, watch, typed, crashes>>
    BY DEF Answer, row, books
  <1>3. /\ answer \in Answers /\ delivery \in {"idle", "did_not_land"}
        /\ answer.kind \in {"none", "sent"}
        /\ delivery = "did_not_land" => answer.kind = "sent" /\ answer.choice \in Choice
    <2>1. answer \in Answers /\ delivery \in {"idle", "did_not_land"}
      BY <1>1 DEF IInv, TypeOK
    <2>2. answer.kind \in {"none", "sent"} /\ (delivery = "did_not_land" => answer.kind = "sent")
      BY <1>1, <2>1, Kinds DEF IInv, RowAgrees
    <2> QED
      BY <2>1, <2>2, Kinds
  <1>4. /\ k \in Call /\ k.pc = "screen" /\ k.sending = FALSE /\ k.wasAnswer = answer
        /\ k.wasDelivery = delivery
        /\ k.prior = IF delivery = "did_not_land" THEN answer.choice ELSE "none"
    BY <1>3 DEF Call
  <1> HIDE DEF k
  <1>5. /\ calls' \in [Calls -> Call \cup {Idle}] /\ OneCall'
        /\ calls'[c] = k /\ \A d \in Calls : d # c => calls'[d] = Idle
    BY <1>1, <1>4 DEF IInv, TypeOK, OneCall
  <1>6. TypeOK'
    <2>1. answers' \in 0..MaxAnswers
      BY <1>1, BoundsAssumption DEF IInv, TypeOK
    <2> QED
      BY <1>2, <1>5, <2>1 DEF IInv, TypeOK
  <1>7. DownIsQuiet' /\ RowAgrees' /\ Booked'
    BY <1>1, <1>2 DEF IInv, DownIsQuiet, RowAgrees, Booked
  <1>8. CreditIsTyped'
    BY <1>2 DEF IInv, CreditIsTyped, Holds, Known
  <1>9. WatchAgrees'
    BY <1>1, <1>2 DEF IInv, WatchAgrees
  <1>10. CallsAgree'
    <2>1. delivery = "did_not_land" => answer.choice \in typed /\ answer.prior \in Known
      BY <1>3 DEF IInv, CreditIsTyped, Holds
    <2>2. /\ calls'[c].pc = "screen" /\ calls'[c].sending = FALSE /\ calls'[c].wasAnswer = answer
          /\ calls'[c].wasDelivery = delivery
          /\ calls'[c].prior = IF delivery = "did_not_land" THEN answer.choice ELSE "none"
      BY <1>4, <1>5
    <2>3. CallAgrees(calls[c])'
      BY <1>2, <1>3, <2>1, <2>2 DEF CallAgrees, Holds, Known
    <2> QED
      BY <1>5, <2>3 DEF CallsAgree
  <1> QED
    BY <1>5, <1>6, <1>7, <1>8, <1>9, <1>10 DEF IInv

LEMMA ReadScreenKeeps ==
    ASSUME IInv, NEW c \in Calls, ReadScreen(c)
    PROVE  IInv'
  <1>1. calls[c] \in Call
    BY InFlightIs DEF ReadScreen, IInv, TypeOK
  <1>2. UNCHANGED <<tier, up, typed, bounds>>
    BY DEF ReadScreen
  <1>3. tier \in Tiers /\ typed \subseteq Choice
    BY DEF IInv, TypeOK
  <1>4. CASE Fail(c)
    BY <1>1, <1>2, <1>3, <1>4, FailKeeps
  <1>5. CASE /\ calls' = [calls EXCEPT ![c].pc = "scan"]
             /\ UNCHANGED <<state, delivery, answer, audit, counted, watch>>
    <2> DEFINE k == [calls[c] EXCEPT !.pc = "scan"]
    <2>1. /\ k \in Call /\ k.pc = "scan" /\ k.choice = calls[c].choice
          /\ k.prior = calls[c].prior /\ k.sending = calls[c].sending
          /\ k.wasAnswer = calls[c].wasAnswer /\ k.wasDelivery = calls[c].wasDelivery
      BY <1>1 DEF Call
    <2>2. calls' = [calls EXCEPT ![c] = k]
      BY <1>5 DEF IInv, TypeOK
    <2>3. UNCHANGED <<row, books, up, watch, typed, bounds>>
      BY <1>2, <1>5 DEF row, books
    <2> HIDE DEF k
    <2> QED
      BY <1>1, <2>1, <2>2, <2>3, StepKeeps
  <1>6. CASE state = "open" /\ Send(c, tier)
    BY <1>1, <1>2, <1>3, <1>6, SendKeeps
  <1> QED
    BY <1>4, <1>5, <1>6 DEF ReadScreen

LEMMA ScanKeeps ==
    ASSUME IInv, NEW c \in Calls, Scan(c)
    PROVE  IInv'
  <1>1. calls[c] \in Call
    BY InFlightIs DEF Scan, IInv, TypeOK
  <1>2. UNCHANGED <<up, typed, bounds>>
    BY DEF Scan
  <1>3. tier \in Tiers /\ typed \subseteq Choice
    BY DEF IInv, TypeOK
  <1>4. CASE Fail(c) /\ UNCHANGED tier
    BY <1>1, <1>2, <1>3, <1>4, FailKeeps
  <1>5. CASE state = "open" /\ \E t \in Tiers : Rank(t) >= Rank(tier) /\ tier' = t /\ Send(c, t)
    <2>1. PICK t \in Tiers : tier' = t /\ Send(c, t)
      BY <1>5
    <2> QED
      BY <1>1, <1>2, <1>5, <2>1, SendKeeps
  <1> QED
    BY <1>4, <1>5 DEF Scan

LEMMA WriteRefusedKeeps ==
    ASSUME IInv, NEW c \in Calls, WriteRefused(c)
    PROVE  IInv'
  <1>1. calls[c] \in Call
    BY InFlightIs DEF WriteRefused, IInv, TypeOK
  <1>2. UNCHANGED <<tier, up, bounds>>
    BY DEF WriteRefused
  <1>3. tier \in Tiers /\ typed \subseteq Choice /\ calls[c].choice \in Choice
    BY <1>1, CallIs DEF IInv, TypeOK
  <1>4. CASE Fail(c) /\ typed' \in {typed, typed \cup {calls[c].choice}}
    BY <1>1, <1>2, <1>3, <1>4, FailKeeps
  <1>5. CASE /\ calls' = [calls EXCEPT ![c].pc = "screen", ![c].tries = @ + 1]
             /\ UNCHANGED <<state, delivery, answer, audit, counted, watch, typed>>
    <2> DEFINE n == calls[c].tries + 1
               k == [calls[c] EXCEPT !.pc = "screen", !.tries = n]
    <2>0. n \in Nat
      BY <1>1, CallIs
    <2> HIDE DEF n
    <2>1. /\ k \in Call /\ k.pc = "screen" /\ k.choice = calls[c].choice
          /\ k.prior = calls[c].prior /\ k.sending = calls[c].sending
          /\ k.wasAnswer = calls[c].wasAnswer /\ k.wasDelivery = calls[c].wasDelivery
      BY <1>1, <2>0 DEF Call
    <2>2. calls' = [calls EXCEPT ![c] = k]
      BY <1>5 DEF IInv, TypeOK, n
    <2>3. UNCHANGED <<row, books, up, watch, typed, bounds>>
      BY <1>2, <1>5 DEF row, books
    <2> HIDE DEF k
    <2> QED
      BY <1>1, <2>1, <2>2, <2>3, StepKeeps
  <1> QED
    BY <1>4, <1>5 DEF WriteRefused

LEMMA WriteAcceptedKeeps ==
    ASSUME IInv, NEW c \in Calls, WriteAccepted(c)
    PROVE  IInv'
  <1> DEFINE call == calls[c]
  <1>1. call \in Call /\ call.pc = "write"
    BY InFlightIs DEF WriteAccepted, IInv, TypeOK
  <1>2. /\ call # Idle /\ call.choice \in Choice /\ call.wasAnswer \in Answers
    BY <1>1, CallIs
  <1>3. /\ calls' = [calls EXCEPT ![c] = Idle] /\ typed' = typed \cup {call.choice}
        /\ UNCHANGED <<tier, up, answers, crashes, state>>
    BY DEF WriteAccepted, bounds
  <1>4. calls' \in [Calls -> Call \cup {Idle}] /\ \A d \in Calls : calls'[d] = Idle
    BY <1>2, <1>3, LastCall DEF IInv
  <1>5. OneCall' /\ CallsAgree'
    BY <1>4, Quiet
  <1>6. up /\ DownIsQuiet'
    BY <1>2, <1>3, <1>4 DEF IInv, DownIsQuiet
  <1>7. CallAgrees(call) /\ call.sending
    <2>1. CallAgrees(call)
      BY <1>2 DEF IInv, CallsAgree
    <2> QED
      BY <1>1, <2>1 DEF CallAgrees
  <1>8. /\ answer.kind = "sent" => answer.choice \in Choice
        /\ answer.kind = "pending" => answer.accepted \in Finals /\ answer.refused \in Finals
        /\ answer.kind \in {"none", "final", "sent", "pending"}
    BY Kinds DEF IInv, TypeOK
  <1>9. delivery = "sending" /\ answer.kind # "final"
    BY <1>7 DEF CallAgrees, IInv, RowAgrees
  <1>10. CASE state = "open"
    <2>1. /\ delivery' = "verifying" /\ UNCHANGED <<answer, audit, counted>>
          /\ watch' = [on |-> TRUE, late |-> FALSE, choice |-> call.choice]
      BY <1>10 DEF WriteAccepted
    <2>2. watch' \in Watch /\ watch'.choice = call.choice
      BY <1>2, <2>1 DEF Watch
    <2>3. answer.kind = "sent" /\ answer.choice = call.choice
      BY <1>7, <1>9, <1>10 DEF IInv, RowAgrees, CallAgrees
    <2>4. TypeOK'
      BY <1>2, <1>3, <1>4, <2>1, <2>2 DEF IInv, TypeOK
    <2>5. RowAgrees'
      BY <1>3, <1>10, <2>1, <2>3 DEF IInv, RowAgrees
    <2>6. WatchAgrees'
      BY <1>4, <2>1 DEF WatchAgrees
    <2>7. Booked'
      BY <2>1, <2>3 DEF IInv, Booked
    <2>8. CreditIsTyped'
      BY <1>3, <1>9, <2>1, <2>2, <2>3 DEF IInv, CreditIsTyped, Holds, Known
    <2> QED
      BY <1>5, <1>6, <2>4, <2>5, <2>6, <2>7, <2>8 DEF IInv
  <1>11. CASE state # "open" /\ answer.kind = "pending"
    <2> DEFINE f == answer.accepted
    <2>1. /\ answer' = f /\ delivery' = (IF f.via = "deck" THEN "verifying" ELSE "idle")
          /\ Record(f) /\ watch' = NoWatch
          /\ \/ Count(f)
             \/ f.via = "terminal" /\ UNCHANGED counted
      <3>1. ~(state = "open")
        BY <1>11
      <3> QED
        BY <3>1, <1>11 DEF WriteAccepted
    <2>2. f \in Finals /\ (f.via = "deck" => f.choice = call.choice)
      BY <1>7, <1>8, <1>11 DEF CallAgrees
    <2>3. f \in Answers /\ f.kind = "final" /\ f.choice \in Choice /\ <<f>> \in Seq(Finals)
      BY <2>2, FinalKind
    <2> HIDE DEF f
    <2>4. audit = <<>> /\ counted = 0
      BY <1>11 DEF IInv, Booked
    <2>5. audit' = <<f>> /\ counted' \in {0, 1} /\ (counted' = 1 => f.choice = "allow")
      BY <2>1, <2>4 DEF Record, Count
    <2>6. TypeOK'
      BY <1>2, <1>3, <1>4, <2>1, <2>3, <2>5 DEF IInv, TypeOK
    <2>7. RowAgrees' /\ WatchAgrees'
      BY <1>3, <1>11, <2>1, <2>3 DEF IInv, RowAgrees, WatchAgrees, NoWatch
    <2>8. Booked'
      BY <2>1, <2>3, <2>5 DEF Booked, NoWatch
    <2>9. CreditIsTyped'
      BY <1>3, <2>1, <2>2, <2>3 DEF CreditIsTyped, NoWatch
    <2> QED
      BY <1>5, <1>6, <2>6, <2>7, <2>8, <2>9 DEF IInv
  <1>12. CASE state # "open" /\ answer.kind # "pending"
    <2>1. state = "expired"
      BY <1>9, <1>12 DEF IInv, TypeOK, RowAgrees
    <2>2. /\ delivery' = "idle" /\ answer' = call.wasAnswer /\ watch' = NoWatch
          /\ UNCHANGED <<audit, counted>>
      BY <1>12, <2>1 DEF WriteAccepted
    <2>3. TypeOK'
      BY <1>2, <1>3, <1>4, <2>2 DEF IInv, TypeOK
    <2>4. RowAgrees' /\ WatchAgrees'
      BY <1>3, <1>7, <2>1, <2>2 DEF IInv, RowAgrees, WatchAgrees, CallAgrees, NoWatch
    <2>5. Booked'
      BY <1>7, <1>9, <2>2 DEF IInv, Booked, CallAgrees, NoWatch
    <2>6. CreditIsTyped'
      BY <1>7, <2>2 DEF CreditIsTyped, CallAgrees, Holds, NoWatch
    <2> QED
      BY <1>5, <1>6, <2>3, <2>4, <2>5, <2>6 DEF IInv
  <1> QED
    BY <1>10, <1>11, <1>12

-----------------------------------------------------------------------------
(* The steps of the watch.                                                 *)

(* A step of the watch leaves the calls alone, and stops it or makes it    *)
(* late.                                                                   *)
LEMMA WatchLeaves ==
    ASSUME IInv, up, UNCHANGED <<up, calls>>
    PROVE  OneCall' /\ DownIsQuiet' /\ calls' \in [Calls -> Call \cup {Idle}]
  BY DEF IInv, TypeOK, OneCall, DownIsQuiet

LEMMA ClosedByHookKeeps ==
    ASSUME IInv, up, watch.on, ClosedByHook, UNCHANGED <<up, calls, typed, bounds>>
    PROVE  IInv'
  <1>1. /\ state # "open" /\ answer.kind # "pending" /\ watch' = NoWatch
        /\ UNCHANGED <<state, delivery, answer, tier, up, calls, typed, answers, crashes>>
    BY DEF ClosedByHook, row, bounds
  <1>2. OneCall' /\ DownIsQuiet' /\ calls' \in [Calls -> Call \cup {Idle}]
    BY <1>1, WatchLeaves
  <1>3. /\ audit' \in Seq(Finals) /\ counted' \in Nat
        /\ audit' = <<>> \/ (answer.kind = "final" /\ audit' = <<answer>>)
        /\ counted' \in {0, 1}
        /\ counted' = 1 => answer.kind = "final" /\ answer.choice = "allow"
    <2>1. CASE state = "answered"
      <3>1. answer \in Answers /\ answer.kind = "final"
        BY <1>1, <2>1 DEF IInv, TypeOK, RowAgrees
      <3>2. answer \in Finals /\ <<answer>> \in Seq(Finals) /\ answer.via \in {"deck", "terminal"}
        BY <3>1, Kinds, FinalKind
      <3>3. /\ Record(answer)
            /\ IF answer.via = "deck" THEN Count(answer) ELSE UNCHANGED counted
        BY <2>1 DEF ClosedByHook, Proved
      <3>4. audit' \in {<<>>, <<answer>>} /\ audit' \in Seq(Finals)
        BY <3>2, <3>3 DEF Record, IInv, Booked, TypeOK
      <3>5. CASE answer.via = "deck"
        BY <3>1, <3>3, <3>4, <3>5 DEF Count, IInv, Booked
      <3>6. CASE answer.via = "terminal"
        BY <3>1, <3>3, <3>4, <3>6 DEF IInv, Booked, TypeOK
      <3> QED
        BY <3>2, <3>5, <3>6
    <2>2. CASE state # "answered"
      BY <2>2 DEF ClosedByHook, books, IInv, Booked, TypeOK
    <2> QED
      BY <2>1, <2>2
  <1>4. TypeOK'
    BY <1>1, <1>2, <1>3 DEF IInv, TypeOK
  <1>5. RowAgrees' /\ WatchAgrees' /\ Booked'
    BY <1>1, <1>3 DEF IInv, RowAgrees, WatchAgrees, Booked, NoWatch
  <1>6. CreditIsTyped'
    BY <1>1 DEF IInv, CreditIsTyped, Holds, Known, NoWatch
  <1>7. CallsAgree'
    BY <1>1 DEF IInv, CallsAgree, CallAgrees, Holds, Known
  <1> QED
    BY <1>2, <1>4, <1>5, <1>6, <1>7 DEF IInv

LEMMA PromptGoneKeeps ==
    ASSUME IInv, PromptGone
    PROVE  IInv'
  <1>1. up /\ watch.on /\ ~watch.late /\ UNCHANGED <<up, calls, typed, bounds>>
    BY DEF PromptGone
  <1>2. CASE ClosedByHook
    BY <1>1, <1>2, ClosedByHookKeeps
  <1>3. CASE /\ state = "open" /\ state' = "answered"
             /\ answer' = Final("deck", watch.choice) /\ Proved(answer')
             /\ watch' = NoWatch /\ UNCHANGED <<delivery, tier>>
    <2> DEFINE f == Final("deck", watch.choice)
    <2>1. watch \in Watch /\ watch.choice \in Choice
      <3>1. watch \in Watch
        BY <1>1 DEF IInv, TypeOK, NoWatch
      <3> QED
        BY <3>1 DEF Watch
    <2>2. f \in Finals /\ f.via = "deck" /\ f.choice = watch.choice
      BY <2>1, FinalIs
    <2>3. f \in Answers /\ f.kind = "final" /\ <<f>> \in Seq(Finals)
      BY <2>2, FinalKind
    <2> HIDE DEF f
    <2>4. /\ delivery = "verifying" /\ \A c \in Calls : calls[c] = Idle
          /\ answer.kind = "sent" /\ audit = <<>> /\ counted = 0
      BY <1>1, <1>3 DEF IInv, WatchAgrees, RowAgrees, Booked
    <2>5. answer' = f /\ Record(answer') /\ Count(answer')
      BY <1>3, <2>2 DEF Proved, f
    <2>6. audit' = <<f>> /\ counted' \in {0, 1} /\ (counted' = 1 => f.choice = "allow")
      BY <2>4, <2>5 DEF Record, Count
    <2>7. UNCHANGED <<up, calls, typed, answers, crashes, delivery, tier>>
      BY <1>1, <1>3 DEF bounds
    <2>8. OneCall' /\ DownIsQuiet' /\ calls' \in [Calls -> Call \cup {Idle}]
      BY <1>1, <2>7, WatchLeaves
    <2>9. TypeOK'
      BY <1>3, <2>3, <2>5, <2>6, <2>7, <2>8 DEF IInv, TypeOK
    <2>10. RowAgrees' /\ WatchAgrees' /\ Booked'
      BY <1>3, <2>3, <2>4, <2>5, <2>6, <2>7 DEF RowAgrees, WatchAgrees, Booked, NoWatch
    <2>11. CreditIsTyped'
      BY <1>1, <1>3, <2>2, <2>3, <2>5, <2>7 DEF IInv, CreditIsTyped, NoWatch
    <2>12. CallsAgree'
      BY <2>4, <2>7 DEF CallsAgree
    <2> QED
      BY <2>8, <2>9, <2>10, <2>11, <2>12 DEF IInv
  <1> QED
    BY <1>2, <1>3 DEF PromptGone

LEMMA VerifyTimeoutKeeps ==
    ASSUME IInv, VerifyTimeout
    PROVE  IInv'
  <1>1. up /\ watch.on /\ ~watch.late /\ UNCHANGED <<up, calls, typed, bounds>>
    BY DEF VerifyTimeout
  <1>2. CASE ClosedByHook
    BY <1>1, <1>2, ClosedByHookKeeps
  <1>3. CASE /\ state = "open" /\ delivery' = "did_not_land"
             /\ watch' = [watch EXCEPT !.late = TRUE]
             /\ UNCHANGED <<state, answer, tier, books>>
    <2>1. watch \in Watch
      BY <1>1 DEF IInv, TypeOK, NoWatch
    <2>2. watch' \in Watch /\ watch'.on /\ watch'.late = TRUE /\ watch'.choice = watch.choice
      BY <1>3, <2>1 DEF Watch
    <2>3. /\ delivery = "verifying" /\ \A c \in Calls : calls[c] = Idle
          /\ answer.kind = "sent"
      BY <1>1, <1>3 DEF IInv, WatchAgrees, RowAgrees
    <2>4. UNCHANGED <<up, calls, typed, answers, crashes, audit, counted, state, answer, tier>>
      BY <1>1, <1>3 DEF bounds, books
    <2>5. OneCall' /\ DownIsQuiet' /\ calls' \in [Calls -> Call \cup {Idle}]
      BY <1>1, <2>4, WatchLeaves
    <2>6. TypeOK'
      BY <1>3, <2>2, <2>4, <2>5 DEF IInv, TypeOK
    <2>7. RowAgrees' /\ WatchAgrees' /\ Booked'
      BY <1>3, <2>2, <2>3, <2>4 DEF IInv, RowAgrees, WatchAgrees, Booked
    <2>8. CreditIsTyped'
      BY <1>1, <1>3, <2>2, <2>3, <2>4 DEF IInv, CreditIsTyped, Holds, Known
    <2>9. CallsAgree'
      BY <2>3, <2>4 DEF CallsAgree
    <2> QED
      BY <2>5, <2>6, <2>7, <2>8, <2>9 DEF IInv
  <1> QED
    BY <1>2, <1>3 DEF VerifyTimeout

LEMMA LateTimeoutKeeps ==
    ASSUME IInv, LateTimeout
    PROVE  IInv'
  <1>1. /\ up /\ watch' = NoWatch
        /\ UNCHANGED <<state, delivery, answer, tier, audit, counted, up, calls, typed, answers, crashes>>
    BY DEF LateTimeout, row, books, bounds
  <1>2. OneCall' /\ DownIsQuiet' /\ calls' \in [Calls -> Call \cup {Idle}]
    BY <1>1, WatchLeaves
  <1>3. TypeOK'
    BY <1>1, <1>2 DEF IInv, TypeOK
  <1>4. RowAgrees' /\ WatchAgrees' /\ Booked'
    BY <1>1 DEF IInv, RowAgrees, WatchAgrees, Booked, NoWatch
  <1>5. CreditIsTyped'
    BY <1>1 DEF IInv, CreditIsTyped, Holds, Known, NoWatch
  <1>6. CallsAgree'
    BY <1>1 DEF IInv, CallsAgree, CallAgrees, Holds, Known
  <1> QED
    BY <1>2, <1>3, <1>4, <1>5, <1>6 DEF IInv

-----------------------------------------------------------------------------
(* The hooks, and what happens beside the deck.                            *)

LEMMA HookKeeps ==
    ASSUME IInv, NEW verdict \in Choice, NEW inTime \in BOOLEAN, NEW priorInTime \in BOOLEAN,
           Hook(verdict, inTime, priorInTime)
    PROVE  IInv'
  <1>1. /\ up /\ state = "open" /\ state' = "answered"
        /\ answer' = ClosingAnswer(verdict, inTime, priorInTime)
        /\ UNCHANGED <<delivery, tier, up, calls, watch, typed, answers, crashes>>
    BY DEF Hook, bounds
  <1>2. /\ answer.kind \in {"none", "sent"} /\ audit = <<>> /\ counted = 0
        /\ delivery # "idle" => answer.kind = "sent"
        /\ answer.kind = "sent" => answer.choice \in Choice /\ answer.prior \in Choice \cup {"none"}
    BY <1>1, Kinds DEF IInv, TypeOK, RowAgrees, Booked
  <1>3. OneCall' /\ DownIsQuiet' /\ WatchAgrees' /\ calls' \in [Calls -> Call \cup {Idle}]
    BY <1>1 DEF IInv, TypeOK, OneCall, DownIsQuiet, WatchAgrees
  <1>4. \A c \in Calls : calls[c] # Idle => CallAgrees(calls[c])
    BY DEF IInv, CallsAgree
  <1>5. CASE delivery = "sending"
    <2> DEFINE a == Judge(answer.choice, verdict, inTime)
               r == Judge(answer.prior, verdict, priorInTime)
               p == [kind |-> "pending", choice |-> verdict, accepted |-> a, refused |-> r]
    <2>1. answer' = p
      BY <1>1, <1>5 DEF ClosingAnswer
    <2>2. /\ a \in Finals /\ a.choice = verdict /\ (a.via = "deck" => answer.choice = verdict)
          /\ r \in Finals /\ r.choice = verdict /\ (r.via = "deck" => answer.prior = verdict)
      BY JudgeIs
    <2> HIDE DEF a, r
    <2>3. p \in Answers /\ p.kind = "pending" /\ p.accepted = a /\ p.refused = r
      BY <2>2 DEF Answers, Pendings
    <2> HIDE DEF p
    <2>4. UNCHANGED <<audit, counted>>
      BY <2>1, <2>3 DEF Hook, books
    <2>5. TypeOK'
      BY <1>1, <1>3, <2>1, <2>3, <2>4 DEF IInv, TypeOK
    <2>6. RowAgrees' /\ Booked'
      BY <1>1, <1>2, <1>5, <2>1, <2>3, <2>4 DEF RowAgrees, Booked
    <2>7. CreditIsTyped'
      <3>1. r.via = "deck" => r.choice \in typed
        BY <1>2, <1>5, <2>2 DEF IInv, CreditIsTyped, Holds, Known, Choice
      <3> QED
        BY <1>1, <2>1, <2>3, <3>1 DEF IInv, CreditIsTyped
    <2>8. CallsAgree'
      <3>1. ASSUME NEW c \in Calls, calls[c] # Idle PROVE CallAgrees(calls[c])'
        BY <1>1, <1>4, <2>1, <2>2, <2>3, <3>1 DEF CallAgrees, Holds, Known
      <3> QED
        BY <1>1, <3>1 DEF CallsAgree
    <2> QED
      BY <1>3, <2>5, <2>6, <2>7, <2>8 DEF IInv
  <1>6. CASE delivery # "sending"
    <2> DEFINE f == ClosingAnswer(verdict, inTime, priorInTime)
    <2>1. f \in Finals /\ (f.via = "deck" => f.choice \in typed)
      <3>1. CASE delivery \in {"verifying", "did_not_land"}
        <4>1. f = Judge(answer.choice, verdict, inTime)
          BY <1>6, <3>1 DEF ClosingAnswer
        <4>2. answer.choice \in typed
          BY <1>2, <3>1 DEF IInv, CreditIsTyped, Holds
        <4> QED
          BY <4>1, <4>2, JudgeIs
      <3>2. CASE delivery \notin {"verifying", "did_not_land"}
        <4>1. f = Final("terminal", verdict)
          BY <1>6, <3>2 DEF ClosingAnswer, Terminal
        <4> QED
          BY <4>1, FinalIs
      <3> QED
        BY <3>1, <3>2
    <2>2. /\ f \in Answers /\ f.kind = "final" /\ f.via \in {"deck", "terminal"}
          /\ <<f>> \in Seq(Finals)
      BY <2>1, FinalKind
    <2> HIDE DEF f
    <2>3. answer' = f
      BY <1>1 DEF f
    <2>4. /\ audit' \in {<<>>, <<f>>} /\ counted' \in {0, 1}
          /\ counted' = 1 => f.choice = "allow"
          /\ f.via = "deck" => counted' = 0
      <3>1. CASE f.via = "terminal"
        <4>1. Record(answer') /\ (Count(answer') \/ UNCHANGED counted)
          BY <2>2, <2>3, <3>1 DEF Hook
        <4> QED
          BY <1>2, <2>3, <3>1, <4>1 DEF Record, Count
      <3>2. CASE f.via = "deck"
        BY <1>2, <2>3, <3>2 DEF Hook, books
      <3> QED
        BY <2>2, <3>1, <3>2
    <2>5. audit' \in Seq(Finals)
      BY <1>2, <2>2, <2>4 DEF IInv, TypeOK
    <2>6. TypeOK'
      BY <1>1, <1>3, <2>2, <2>3, <2>4, <2>5 DEF IInv, TypeOK
    <2>7. RowAgrees' /\ Booked'
      BY <1>1, <1>6, <2>2, <2>3, <2>4 DEF RowAgrees, Booked
    <2>8. CreditIsTyped'
      BY <1>1, <2>1, <2>2, <2>3 DEF IInv, CreditIsTyped
    <2>9. CallsAgree'
      <3>1. ASSUME NEW c \in Calls, calls[c] # Idle PROVE CallAgrees(calls[c])'
        BY <1>1, <1>4, <1>6, <3>1 DEF CallAgrees, Holds, Known
      <3> QED
        BY <1>1, <3>1 DEF CallsAgree
    <2> QED
      BY <1>3, <2>6, <2>7, <2>8, <2>9 DEF IInv
  <1> QED
    BY <1>5, <1>6

LEMMA ExpireKeeps ==
    ASSUME IInv, Expire
    PROVE  IInv'
  <1>1. /\ state = "open" /\ state' = "expired"
        /\ UNCHANGED <<delivery, answer, tier, audit, counted, up, calls, watch, typed, answers, crashes>>
    BY DEF Expire, books, bounds
  <1>2. answer.kind \notin {"final", "pending"}
    BY <1>1 DEF IInv, RowAgrees
  <1>3. TypeOK' /\ OneCall' /\ DownIsQuiet'
    BY <1>1 DEF IInv, TypeOK, OneCall, DownIsQuiet
  <1>4. RowAgrees' /\ WatchAgrees' /\ Booked'
    BY <1>1, <1>2 DEF IInv, RowAgrees, WatchAgrees, Booked
  <1>5. CreditIsTyped'
    BY <1>1 DEF IInv, CreditIsTyped, Holds, Known
  <1>6. CallsAgree'
    BY <1>1 DEF IInv, CallsAgree, CallAgrees, Holds, Known
  <1> QED
    BY <1>3, <1>4, <1>5, <1>6 DEF IInv

(* No part of the invariant but the typing speaks of the tier.             *)
LEMMA RaiseTierKeeps ==
    ASSUME IInv, RaiseTier
    PROVE  IInv'
  <1>1. /\ tier' \in Tiers
        /\ UNCHANGED <<state, delivery, answer, audit, counted, up, calls, watch, typed, answers, crashes>>
    BY DEF RaiseTier, books, bounds
  <1>2. TypeOK' /\ OneCall' /\ DownIsQuiet'
    BY <1>1 DEF IInv, TypeOK, OneCall, DownIsQuiet
  <1>3. RowAgrees' /\ WatchAgrees' /\ Booked'
    BY <1>1 DEF IInv, RowAgrees, WatchAgrees, Booked
  <1>4. CreditIsTyped'
    BY <1>1 DEF IInv, CreditIsTyped, Holds, Known
  <1>5. CallsAgree'
    BY <1>1 DEF IInv, CallsAgree, CallAgrees, Holds, Known
  <1> QED
    BY <1>2, <1>3, <1>4, <1>5 DEF IInv

(* A crash ends every call and the watch; deckd may still type.            *)
LEMMA CrashKeeps ==
    ASSUME IInv, Crash
    PROVE  IInv'
  <1>1. PICK late \in SUBSET {calls[c].choice : c \in {d \in Calls : calls[d].pc = "write"}} :
           typed' = typed \cup late
    BY DEF Crash
  <1>2. /\ up' = FALSE /\ crashes < MaxCrashes /\ crashes' = crashes + 1 /\ watch' = NoWatch
        /\ calls' = [c \in Calls |-> Idle]
        /\ UNCHANGED <<state, delivery, answer, tier, audit, counted, answers>>
    BY DEF Crash, row, books
  <1>3. late \subseteq Choice
    <2>1. \A d \in Calls : calls[d].pc = "write" => calls[d].choice \in Choice
      <3>1. ASSUME NEW d \in Calls, calls[d].pc = "write" PROVE calls[d].choice \in Choice
        BY <3>1, InFlightIs, CallIs DEF IInv, TypeOK
      <3> QED
        BY <3>1
    <2> QED
      BY <1>1, <2>1
  <1>4. TypeOK'
    <2>1. crashes' \in 0..MaxCrashes
      BY <1>2, BoundsAssumption DEF IInv, TypeOK
    <2>2. calls' \in [Calls -> Call \cup {Idle}]
      BY <1>2
    <2> QED
      BY <1>1, <1>2, <1>3, <2>1, <2>2 DEF IInv, TypeOK
  <1>5. \A d \in Calls : calls'[d] = Idle
    BY <1>2
  <1>6. OneCall' /\ CallsAgree'
    BY <1>5, Quiet
  <1>7. DownIsQuiet' /\ RowAgrees' /\ WatchAgrees' /\ Booked'
    BY <1>2, <1>5 DEF IInv, DownIsQuiet, RowAgrees, WatchAgrees, Booked, NoWatch
  <1>8. CreditIsTyped'
    BY <1>1, <1>2 DEF IInv, CreditIsTyped, Holds, Known, NoWatch
  <1> QED
    BY <1>4, <1>6, <1>7, <1>8 DEF IInv

LEMMA RestartKeeps ==
    ASSUME IInv, Restart
    PROVE  IInv'
  <1>1. /\ ~up /\ up' = TRUE
        /\ UNCHANGED <<state, tier, counted, calls, watch, typed, answers, crashes>>
    BY DEF Restart, bounds
  <1>2. watch = NoWatch /\ \A c \in Calls : calls[c] = Idle
    BY <1>1 DEF IInv, DownIsQuiet
  <1>3. OneCall' /\ CallsAgree'
    BY <1>1, <1>2, Quiet
  <1>4. DownIsQuiet' /\ WatchAgrees' /\ ~watch'.on
    BY <1>1, <1>2 DEF DownIsQuiet, WatchAgrees, NoWatch
  <1>5. /\ answer.kind = "sent" => answer.choice \in Choice /\ answer.prior \in Choice \cup {"none"}
        /\ answer.kind = "pending" => answer.choice \in Choice
        /\ answer.kind \in {"none", "final", "sent", "pending"}
    BY Kinds DEF IInv, TypeOK
  <1>6. CASE state = "open" /\ delivery \in {"sending", "verifying"}
    <2>1. answer.kind = "sent" /\ audit = <<>> /\ counted = 0
      BY <1>6 DEF IInv, RowAgrees, Booked
    <2>2. /\ delivery' = "idle" /\ UNCHANGED audit
          /\ answer' = IF answer.prior = "none" THEN NoAnswer
                       ELSE [kind |-> "sent", choice |-> answer.prior, prior |-> "none"]
      BY <1>6 DEF Restart
    <2>3. answer' \in Answers /\ answer'.kind \in {"none", "sent"}
      <3>1. CASE answer.prior = "none"
        BY <2>2, <3>1 DEF Answers, NoAnswer
      <3>2. CASE answer.prior # "none"
        BY <1>5, <2>1, <2>2, <3>2 DEF Answers, Sents
      <3> QED
        BY <3>1, <3>2
    <2>4. TypeOK'
      BY <1>1, <2>2, <2>3 DEF IInv, TypeOK
    <2>5. RowAgrees' /\ Booked'
      BY <1>1, <1>4, <1>6, <2>1, <2>2, <2>3 DEF RowAgrees, Booked
    <2>6. CreditIsTyped'
      BY <1>4, <2>2, <2>3 DEF CreditIsTyped, Holds
    <2> QED
      BY <1>3, <1>4, <2>4, <2>5, <2>6 DEF IInv
  <1>7. CASE state # "open" /\ (answer.kind = "pending" \/ delivery = "sending")
    <2>1. answer.kind # "final" /\ audit = <<>> /\ counted = 0
      BY <1>7 DEF IInv, RowAgrees, Booked
    <2>2. /\ delivery' = "idle"
          /\ answer' = IF state = "answered" THEN Terminal(answer.choice) ELSE NoAnswer
          /\ IF state = "answered" THEN Record(answer') ELSE UNCHANGED audit
      BY <1>7 DEF Restart
    <2>3. CASE state = "answered"
      <3> DEFINE f == Final("terminal", answer.choice)
      <3>1. answer.choice \in Choice
        BY <1>5, <2>1, <2>3 DEF IInv, RowAgrees
      <3>2. f \in Finals /\ f.via = "terminal"
        BY <3>1, FinalIs
      <3>3. f \in Answers /\ f.kind = "final" /\ <<f>> \in Seq(Finals)
        BY <3>2, FinalKind
      <3>4. answer' = f
        BY <2>2, <2>3 DEF Terminal
      <3> HIDE DEF f
      <3>5. audit' = <<f>>
        BY <2>1, <2>2, <2>3, <3>4 DEF Record
      <3>6. TypeOK'
        BY <1>1, <2>2, <3>3, <3>4, <3>5 DEF IInv, TypeOK
      <3>7. RowAgrees' /\ Booked'
        BY <1>1, <1>4, <2>1, <2>2, <2>3, <3>3, <3>4, <3>5 DEF RowAgrees, Booked
      <3>8. CreditIsTyped'
        BY <1>4, <3>2, <3>3, <3>4 DEF CreditIsTyped
      <3> QED
        BY <1>3, <1>4, <3>6, <3>7, <3>8 DEF IInv
    <2>4. CASE state # "answered"
      <3>1. answer' = NoAnswer /\ UNCHANGED audit
        BY <2>2, <2>4
      <3>2. TypeOK'
        BY <1>1, <2>2, <3>1 DEF IInv, TypeOK, Answers
      <3>3. RowAgrees' /\ Booked' /\ CreditIsTyped'
        BY <1>1, <1>4, <2>1, <2>2, <2>4, <3>1 DEF RowAgrees, Booked, CreditIsTyped, NoAnswer
      <3> QED
        BY <1>3, <1>4, <3>2, <3>3 DEF IInv
    <2> QED
      BY <2>3, <2>4
  <1>8. CASE /\ ~(state = "open" /\ delivery \in {"sending", "verifying"})
             /\ ~(state # "open" /\ (answer.kind = "pending" \/ delivery = "sending"))
    <2>1. UNCHANGED <<delivery, answer, audit>>
      BY <1>8 DEF Restart
    <2>2. TypeOK'
      BY <1>1, <2>1 DEF IInv, TypeOK
    <2>3. RowAgrees' /\ Booked'
      BY <1>1, <2>1 DEF IInv, RowAgrees, Booked
    <2>4. CreditIsTyped'
      BY <1>1, <2>1 DEF IInv, CreditIsTyped, Holds, Known
    <2> QED
      BY <1>3, <1>4, <2>2, <2>3, <2>4 DEF IInv
  <1> QED
    BY <1>6, <1>7, <1>8

-----------------------------------------------------------------------------
LEMMA InitHolds == Init => IInv
  <1> SUFFICES ASSUME Init PROVE IInv
    OBVIOUS
  <1>1. /\ state = "open" /\ delivery = "idle" /\ answer = NoAnswer /\ answer.kind = "none"
        /\ audit = <<>> /\ counted = 0 /\ up = TRUE /\ watch = NoWatch /\ watch.on = FALSE
        /\ typed = {} /\ \A c \in Calls : calls[c] = Idle
    BY DEF Init, NoAnswer, NoWatch
  <1>2. TypeOK
    BY BoundsAssumption DEF Init, TypeOK, Answers, Tiers
  <1>3. OneCall /\ DownIsQuiet /\ CallsAgree /\ WatchAgrees
    BY <1>1 DEF OneCall, DownIsQuiet, CallsAgree, WatchAgrees
  <1>4. RowAgrees /\ CreditIsTyped /\ Booked
    BY <1>1 DEF RowAgrees, CreditIsTyped, Booked
  <1> QED
    BY <1>2, <1>3, <1>4 DEF IInv

LEMMA StutterKeeps == IInv /\ UNCHANGED vars => IInv'
  <1> SUFFICES ASSUME IInv, UNCHANGED vars PROVE IInv'
    OBVIOUS
  <1>1. UNCHANGED <<state, delivery, answer, tier, audit, counted, up, calls, watch,
                    typed, answers, crashes>>
    BY DEF vars
  <1>2. TypeOK' /\ OneCall' /\ DownIsQuiet'
    BY <1>1 DEF IInv, TypeOK, OneCall, DownIsQuiet
  <1>3. RowAgrees' /\ WatchAgrees' /\ Booked'
    BY <1>1 DEF IInv, RowAgrees, WatchAgrees, Booked
  <1>4. CreditIsTyped' /\ CallsAgree'
    BY <1>1 DEF IInv, CreditIsTyped, CallsAgree, CallAgrees, Holds, Known
  <1> QED
    BY <1>2, <1>3, <1>4 DEF IInv

(* The disjuncts of Next.                                                  *)
LEMMA Steps ==
    ASSUME Next
    PROVE  \/ \E c \in Calls, choice \in Choice, batch, confirm \in BOOLEAN :
                  Answer(c, choice, batch, confirm)
           \/ \E c \in Calls : ReadScreen(c)
           \/ \E c \in Calls : Scan(c)
           \/ \E c \in Calls : WriteAccepted(c)
           \/ \E c \in Calls : WriteRefused(c)
           \/ Poll \/ PromptGone \/ VerifyTimeout \/ LateTimeout
           \/ Expire \/ RaiseTier \/ Crash \/ Restart
           \/ \E verdict \in Choice, inTime, priorInTime \in BOOLEAN :
                  Hook(verdict, inTime, priorInTime)
  BY DEF Next, Deck, Server, Watching, Others

LEMMA StepHolds == IInv /\ [Next]_vars => IInv'
  <1> SUFFICES ASSUME IInv, Next PROVE IInv'
    BY StutterKeeps
  <1>1. CASE \E c \in Calls, choice \in Choice, batch, confirm \in BOOLEAN :
                 Answer(c, choice, batch, confirm)
    BY <1>1, AnswerKeeps
  <1>2. CASE \E c \in Calls : ReadScreen(c)
    BY <1>2, ReadScreenKeeps
  <1>3. CASE \E c \in Calls : Scan(c)
    BY <1>3, ScanKeeps
  <1>4. CASE \E c \in Calls : WriteAccepted(c)
    BY <1>4, WriteAcceptedKeeps
  <1>5. CASE \E c \in Calls : WriteRefused(c)
    BY <1>5, WriteRefusedKeeps
  <1>6. CASE Poll
    BY <1>6, ClosedByHookKeeps DEF Poll
  <1>7. CASE PromptGone
    BY <1>7, PromptGoneKeeps
  <1>8. CASE VerifyTimeout
    BY <1>8, VerifyTimeoutKeeps
  <1>9. CASE LateTimeout
    BY <1>9, LateTimeoutKeeps
  <1>10. CASE Expire
    BY <1>10, ExpireKeeps
  <1>11. CASE RaiseTier
    BY <1>11, RaiseTierKeeps
  <1>12. CASE Crash
    BY <1>12, CrashKeeps
  <1>13. CASE Restart
    BY <1>13, RestartKeeps
  <1>14. CASE \E verdict \in Choice, inTime, priorInTime \in BOOLEAN :
                  Hook(verdict, inTime, priorInTime)
    BY <1>14, HookKeeps
  <1> QED
    BY Steps, <1>1, <1>2, <1>3, <1>4, <1>5, <1>6, <1>7, <1>8, <1>9, <1>10, <1>11,
       <1>12, <1>13, <1>14

(* The inductive invariant: one answer in flight at most, a row whose      *)
(* columns agree, no credit before the keys, and books that follow the row.*)
THEOREM DeliveryInvariant == Spec => []IInv
  <1>1. Init => IInv
    BY InitHolds
  <1>2. IInv /\ [Next]_vars => IInv'
    BY StepHolds
  <1> QED
    BY <1>1, <1>2, PTL DEF Spec

(* The request, its audit and the counter of its rule agree, and the deck  *)
(* is credited only with keys that deckd typed.                            *)
THEOREM BooksAlwaysAgree == Spec => []BooksAgree
  <1>1. IInv => BooksAgree
    <2> SUFFICES ASSUME IInv PROVE BooksAgree
      OBVIOUS
    <2>1. answer.kind = "final" => answer \in Finals /\ state = "answered"
      BY Kinds DEF IInv, TypeOK, RowAgrees
    <2>2. Len(audit) <= 1 /\ (audit # <<>> => answer.kind = "final" /\ answer = audit[1])
      <3>1. CASE audit = <<>>
        BY <3>1
      <3>2. CASE answer.kind = "final" /\ audit = <<answer>>
        BY <3>2
      <3> QED
        BY <3>1, <3>2 DEF IInv, Booked
    <2>3. /\ counted <= 1
          /\ counted = 1 => answer.kind = "final" /\ answer.choice = "allow"
      BY DEF IInv, Booked
    <2> QED
      BY <2>1, <2>2, <2>3 DEF IInv, BooksAgree, CreditIsTyped
  <1> QED
    BY <1>1, DeliveryInvariant, PTL

(* What a request was answered with, and that it was, never changes: the   *)
(* recovery and a failed attempt rewrite only what is not settled.         *)
THEOREM SettledStays == Spec => SettledIsFinal
  <1>1. IInv /\ [Next]_vars => [answer.kind = "final" => answer' = answer /\ state' = state]_vars
    <2> SUFFICES ASSUME IInv, Next, answer.kind = "final"
                 PROVE  answer' = answer /\ state' = state
      OBVIOUS
    <2>1. state = "answered" /\ delivery # "sending"
      BY DEF IInv, RowAgrees
    <2>2. ASSUME NEW c \in Calls, calls[c] \in Call PROVE ~calls[c].sending
      <3>1. CallAgrees(calls[c])
        BY <2>2, CallIs DEF IInv, CallsAgree
      <3> QED
        BY <2>1, <3>1 DEF CallAgrees
    <2>3. ASSUME NEW c \in Calls, calls[c] \in Call, Fail(c) PROVE answer' = answer /\ state' = state
      BY <2>2, <2>3 DEF Fail
    <2>4. CASE \E c \in Calls : ReadScreen(c) \/ Scan(c) \/ WriteAccepted(c) \/ WriteRefused(c)
      <3>1. PICK c \in Calls : ReadScreen(c) \/ Scan(c) \/ WriteAccepted(c) \/ WriteRefused(c)
        BY <2>4
      <3>2. calls[c] \in Call
        BY <3>1, InFlightIs DEF ReadScreen, Scan, WriteAccepted, WriteRefused, IInv, TypeOK
      <3>3. CASE ReadScreen(c)
        BY <2>1, <2>3, <3>2, <3>3 DEF ReadScreen
      <3>4. CASE Scan(c)
        BY <2>1, <2>3, <3>2, <3>4 DEF Scan
      <3>5. CASE WriteAccepted(c)
        <4>1. CallAgrees(calls[c]) /\ calls[c].pc = "write"
          BY <3>2, <3>5, CallIs DEF IInv, CallsAgree, WriteAccepted
        <4> QED
          BY <2>2, <3>2, <4>1 DEF CallAgrees
      <3>6. CASE WriteRefused(c)
        BY <2>3, <3>2, <3>6 DEF WriteRefused
      <3> QED
        BY <3>1, <3>3, <3>4, <3>5, <3>6
    <2>5. CASE \E c \in Calls, choice \in Choice, batch, confirm \in BOOLEAN :
                   Answer(c, choice, batch, confirm)
      BY <2>5 DEF Answer, row
    <2>6. CASE Poll \/ PromptGone \/ VerifyTimeout \/ LateTimeout
      BY <2>1, <2>6 DEF Poll, PromptGone, VerifyTimeout, LateTimeout, ClosedByHook, row
    <2>7. CASE Expire \/ RaiseTier \/ Crash
      BY <2>1, <2>7 DEF Expire, RaiseTier, Crash, row
    <2>8. CASE Restart
      BY <2>1, <2>8 DEF Restart
    <2>9. CASE \E verdict \in Choice, inTime, priorInTime \in BOOLEAN :
                   Hook(verdict, inTime, priorInTime)
      BY <2>1, <2>9 DEF Hook
    <2> QED
      BY Steps, <2>4, <2>5, <2>6, <2>7, <2>8, <2>9
  <1> QED
    BY <1>1, DeliveryInvariant, PTL DEF Spec, SettledIsFinal

(* Keys leave for deckd only under the tier the request has at that moment.*)
THEOREM SentUnderTheRules == Spec => SentUnderRules
  <1>1. /\ IInv /\ [Next]_vars
        => [\A c \in Calls : calls[c].pc # "write" /\ calls'[c].pc = "write"
                => TierAllows(calls[c], tier')]_vars
    <2> SUFFICES ASSUME IInv, Next, NEW c \in Calls, calls[c].pc # "write", calls'[c].pc = "write"
                 PROVE  TierAllows(calls[c], tier')
      OBVIOUS
    <2>1. calls \in [Calls -> Call \cup {Idle}] /\ Idle.pc = "idle"
      BY DEF IInv, TypeOK, Idle
    <2>2. calls'[c] # calls[c]
      OBVIOUS
    <2>3. ASSUME NEW d \in Calls, Fail(d) PROVE FALSE
      BY <2>1, <2>3 DEF Fail
    <2>4. ASSUME NEW d \in Calls, NEW t \in Tiers, Send(d, t), tier' = t
          PROVE  TierAllows(calls[c], tier')
      <3>1. TierAllows(calls[d], t) /\ calls' = [calls EXCEPT ![d].pc = "write", ![d].sending = TRUE]
        BY <2>3, <2>4 DEF Send
      <3>2. c = d
        BY <2>1, <2>2, <3>1
      <3> QED
        BY <2>4, <3>1, <3>2
    <2>5. CASE \E d \in Calls : ReadScreen(d)
      <3>1. PICK d \in Calls : ReadScreen(d)
        BY <2>5
      <3>2. tier' = tier /\ tier \in Tiers
        BY <3>1 DEF ReadScreen, IInv, TypeOK
      <3>3. calls' = [calls EXCEPT ![d].pc = "scan"] => FALSE
        <4>1. calls[d] \in Call
          BY <2>1, <3>1, InFlightIs DEF ReadScreen
        <4>2. calls' = [calls EXCEPT ![d].pc = "scan"] => calls'[d].pc = "scan" /\ \A e \in Calls : e # d => calls'[e] = calls[e]
          BY <2>1, <4>1 DEF Call
        <4> QED
          BY <2>2, <4>2
      <3> QED
        BY <2>3, <2>4, <3>1, <3>2, <3>3 DEF ReadScreen
    <2>6. CASE \E d \in Calls : Scan(d)
      BY <2>3, <2>4, <2>6 DEF Scan
    <2>7. CASE \E d \in Calls : WriteAccepted(d)
      BY <2>1, <2>7 DEF WriteAccepted
    <2>8. CASE \E d \in Calls : WriteRefused(d)
      <3>1. PICK d \in Calls : WriteRefused(d)
        BY <2>8
      <3>2. calls' = [calls EXCEPT ![d].pc = "screen", ![d].tries = @ + 1] => FALSE
        <4>1. calls[d] \in Call
          BY <2>1, <3>1, InFlightIs DEF WriteRefused
        <4>2. calls' = [calls EXCEPT ![d].pc = "screen", ![d].tries = @ + 1]
                => calls'[d].pc = "screen" /\ \A e \in Calls : e # d => calls'[e] = calls[e]
          BY <2>1, <4>1 DEF Call
        <4> QED
          BY <2>2, <4>2
      <3> QED
        BY <2>3, <3>1, <3>2 DEF WriteRefused
    <2>9. CASE \E d \in Calls, choice \in Choice, batch, confirm \in BOOLEAN :
                   Answer(d, choice, batch, confirm)
      <3>1. PICK d \in Calls, choice \in Choice, batch \in BOOLEAN, confirm \in BOOLEAN :
                Answer(d, choice, batch, confirm)
        BY <2>9
      <3>2. \A e \in Calls : calls'[e].pc = "screen" \/ calls'[e] = calls[e]
        BY <2>1, <3>1 DEF Answer
      <3> QED
        BY <3>2
    <2>10. CASE Poll \/ PromptGone \/ VerifyTimeout \/ LateTimeout
      BY <2>10 DEF Poll, PromptGone, VerifyTimeout, LateTimeout
    <2>11. CASE Expire \/ RaiseTier \/ Restart
      BY <2>11 DEF Expire, RaiseTier, Restart
    <2>12. CASE Crash
      BY <2>1, <2>12 DEF Crash
    <2>13. CASE \E verdict \in Choice, inTime, priorInTime \in BOOLEAN :
                    Hook(verdict, inTime, priorInTime)
      BY <2>13 DEF Hook
    <2> QED
      BY Steps, <2>5, <2>6, <2>7, <2>8, <2>9, <2>10, <2>11, <2>12, <2>13
  <1> QED
    BY <1>1, DeliveryInvariant, PTL DEF Spec, SentUnderRules

(* A behaviour whose hooks are prompt is one of Spec, so that all of the   *)
(* above holds of it.                                                      *)
THEOREM PromptIsDelivery == PromptSpec => Spec
  <1>1. [PromptNext]_vars => [Next]_vars
    BY DEF PromptNext, Next
  <1> QED
    BY <1>1, PTL DEF PromptSpec, Spec

-----------------------------------------------------------------------------
(* Terminal.  What its variables hold.                                     *)
Request == [tab: Tabs, turn: Nat]
Message ==
  [t: {"output"}, n: Nat] \cup [t: {"dropped", "exit"}] \cup [t: {"done"}, ok: BOOLEAN]
    \cup [t: {"screen"}, s: Request, ok: BOOLEAN, n: Nat]
Op == {"attach", "detach", "watch"}
TabRecord == [at: {"off", "lost", "syncing", "live"}, ready: BOOLEAN, buffer: Seq(Nat),
              dropping: BOOLEAN, turn: Nat]

Typed ==
  /\ pty \in [out: 0..MaxOut, ended: BOOLEAN]
  /\ conn \in [stream: BOOLEAN, watch: BOOLEAN, episode: {"none", "open", "more"}, callbacks: Nat]
  /\ connected \in BOOLEAN /\ wire \in Seq(Message) /\ screens \subseteq Request
  /\ chain \in Seq(Op) /\ taken \in BOOLEAN /\ arrived \in 0..pty.out
  /\ settled \subseteq [m: Message, seam: Nat] /\ running \in BOOLEAN
  /\ session \in {"live", "told", "over"}
  /\ tab \in [Tabs -> TabRecord] /\ again \subseteq Tabs /\ shown \in [Tabs -> Int]
  /\ spent \in Nat

IsOutput(m) == m.t = "output"
IsDone(m) == m.t = "done"
IsScreen(m) == m.t = "screen"
IsExit(m) == m.t = "exit"

(* Chunks arrive in order, and what is buffered or answered is older than  *)
(* what is on the wire.                                                    *)
Ordered ==
  /\ \A j \in DOMAIN wire: IsOutput(wire[j]) => arrived < wire[j].n /\ wire[j].n <= pty.out
  /\ \A i, j \in DOMAIN wire: i < j /\ IsOutput(wire[i]) /\ IsOutput(wire[j]) => wire[i].n < wire[j].n
  /\ \A j \in DOMAIN wire: IsScreen(wire[j]) => wire[j].n <= pty.out
  /\ \A s \in settled: s.seam <= arrived /\ (IsScreen(s.m) => s.m.n <= pty.out)
  /\ \A s \in settled: IsDone(s.m) \/ IsScreen(s.m)
  /\ \A t \in Tabs: \A i \in DOMAIN tab[t].buffer: tab[t].buffer[i] <= arrived

(* While the link is down there is nothing on the way, and no tab reads.   *)
DownInv ==
  /\ ~connected => /\ wire = <<>> /\ chain = <<>> /\ screens = {} /\ settled = {}
                   /\ conn = NoConn /\ ~taken
  /\ \A t \in Tabs: /\ tab[t].at = "lost" => ~connected
                    /\ tab[t].at \in {"lost", "off"} => ~tab[t].ready
                    /\ ~connected => tab[t].at \in {"lost", "off"}

(* One request of the chain is under way at a time, and is answered once.  *)
OneRequest ==
  /\ taken => chain # <<>>
  /\ \A j \in DOMAIN wire: IsDone(wire[j]) => taken /\ \A s \in settled: ~IsDone(s.m)
  /\ \A s \in settled: IsDone(s.m) => taken
  /\ \A i, j \in DOMAIN wire: IsDone(wire[i]) /\ IsDone(wire[j]) => i = j
  /\ \A r, s \in settled: IsDone(r.m) /\ IsDone(s.m) => r = s

Alive == connected /\ session = "live"
Succ(op) == CASE op = "attach" -> "detach" [] op = "detach" -> "watch" [] op = "watch" -> "attach"

(* Until the exit is told, attach, detach and watch go round, and the last *)
(* request of the chain is what the tabs want.                             *)
Cycle == Alive => \A i \in 1..(Len(chain) - 1): chain[i + 1] = Succ(chain[i])
Ends == Alive =>
  IF chain = <<>> THEN Waiting = {}
  ELSE /\ Reading = Waiting
       /\ chain[Len(chain)] = IF Reading = {} THEN "watch" ELSE "attach"

(* What deckd did last.                                                    *)
Executed == IF chain = <<>> THEN IF Reading = {} THEN "watch" ELSE "attach"
            ELSE IF taken THEN Head(chain) ELSE Succ(Succ(Head(chain)))
Streams == Alive /\ ~pty.ended =>
  conn.stream = (Executed = "attach") /\ conn.watch = (Executed # "detach")
Watched == \A i \in 1..Len(chain): chain[i] = "detach" => i < Len(chain) /\ chain[i + 1] = "watch"
ChainInv == OneRequest /\ Cycle /\ Ends /\ Streams /\ Watched

(* The exit is the last thing deckd tells of a PTY but for refusals.       *)
Exits ==
  /\ Alive => (pty.ended <=> \E j \in DOMAIN wire: IsExit(wire[j]))
  /\ session # "live" => pty.ended /\ \A j \in DOMAIN wire: ~IsExit(wire[j])
  /\ \A i, j \in DOMAIN wire: i < j /\ IsExit(wire[i]) =>
       ~IsExit(wire[j]) /\ ~(IsDone(wire[j]) /\ wire[j].ok)
  /\ Alive => /\ \A s \in settled: IsDone(s.m) => s.m.ok
              /\ \A j \in DOMAIN wire: IsDone(wire[j]) /\ ~wire[j].ok =>
                   \E i \in DOMAIN wire: i < j /\ IsExit(wire[i])
(* After it no attach succeeds, so no tab gets ready any more.             *)
Over == connected /\ session # "live" =>
  /\ Reading = Waiting
  /\ Waiting # {} => \E i \in DOMAIN chain: chain[i] = "attach"
  /\ \A j \in DOMAIN wire: ~(IsDone(wire[j]) /\ wire[j].ok)
  /\ \A s \in settled: IsDone(s.m) /\ s.m.ok => Reading = {}
ExitInv == Exits /\ Over

Episodes == conn.episode # "none" => conn.callbacks > 0

(* A screen request has a turn of its own and is answered once.            *)
Asked(t) == [tab |-> t, turn |-> tab[t].turn]
Syncing(t) == tab[t].at = "syncing" /\ tab[t].ready
OnWire(r) == \E j \in DOMAIN wire: IsScreen(wire[j]) /\ wire[j].s = r
Settled(r) == \E s \in settled: IsScreen(s.m) /\ s.m.s = r
Outstanding(r) == r \in screens \/ OnWire(r) \/ Settled(r)
Unique ==
  /\ \A i, j \in DOMAIN wire: IsScreen(wire[i]) /\ IsScreen(wire[j]) /\ wire[i].s = wire[j].s => i = j
  /\ \A r, s \in settled: IsScreen(r.m) /\ IsScreen(s.m) /\ r.m.s = s.m.s => r = s
  /\ \A r \in screens: ~OnWire(r) /\ ~Settled(r)
  /\ \A r \in Request: OnWire(r) => ~Settled(r)
Answered == \A t \in Tabs: Syncing(t) => Outstanding(Asked(t))
Bounded == \A t \in Tabs: \E b \in Nat: \A r \in Request: Outstanding(r) /\ r.tab = t => r.turn <= b
TurnInv == Unique /\ Answered /\ Bounded

(* What comes after position i of the wire goes on from chunk n.           *)
Silent(i, j) == \A k \in (i + 1)..(j - 1): wire[k].t \notin {"output", "dropped"}
Follows(i, n) ==
  /\ \A j \in DOMAIN wire: i < j /\ Silent(i, j) /\ IsOutput(wire[j]) => wire[j].n = n + 1
  /\ Silent(i, Len(wire) + 1) /\ conn.episode # "more" => pty.out = n

(* deckd has done the attach of the tabs that read; what it sent since.    *)
Attachment == Alive /\ Reading # {} /\ (chain = <<>> \/ (taken /\ Len(chain) = 1))
Since(i) == \A k \in i..Len(wire): ~IsDone(wire[k])
WireFollows == Attachment =>
  \A i \in DOMAIN wire: Since(i) /\ IsOutput(wire[i]) => Follows(i, wire[i].n)
LiveFollows == Alive => \A t \in Tabs: Attached(t) /\ ~tab[t].dropping => Follows(0, shown[t])
ScreenFollows == Alive => \A t \in Tabs: Syncing(t) =>
  \A j \in DOMAIN wire: IsScreen(wire[j]) /\ wire[j].s = Asked(t) /\ wire[j].ok => Follows(j, wire[j].n)
LateFollows == Alive => \A t \in Tabs: Syncing(t) =>
  \A s \in settled: IsScreen(s.m) /\ s.m.s = Asked(t) /\ s.m.ok =>
    LET late == Later(tab[t].buffer, s.seam)
    IN  /\ \A i \in 1..Len(late): late[i] = s.m.n + i
        /\ Follows(0, s.m.n + Len(late))
ShownInv == \A t \in Tabs: Attached(t) => shown[t] \in 0..pty.out
FollowInv == WireFollows /\ LiveFollows /\ ScreenFollows /\ LateFollows /\ ShownInv

TermInv == Typed /\ Ordered /\ DownInv /\ ChainInv /\ ExitInv /\ Episodes /\ TurnInv /\ FollowInv

-----------------------------------------------------------------------------
(* Messages, sequences and turns.                                          *)

LEMMA MessageIs ==
  ASSUME NEW m \in Message
  PROVE  /\ m.t \in {"output", "dropped", "exit", "done", "screen"}
         /\ IsOutput(m) => m.n \in Nat
         /\ IsDone(m) => m.ok \in BOOLEAN
         /\ IsScreen(m) => m.s \in Request /\ m.ok \in BOOLEAN /\ m.n \in Nat
  BY DEF Message, IsOutput, IsDone, IsScreen

LEMMA Messages ==
  /\ \A n \in Nat: [t |-> "output", n |-> n] \in Message
  /\ [t |-> "dropped"] \in Message /\ [t |-> "exit"] \in Message
  /\ \A b \in BOOLEAN: [t |-> "done", ok |-> b] \in Message
  /\ \A r \in Request, b \in BOOLEAN, n \in Nat: [t |-> "screen", s |-> r, ok |-> b, n |-> n] \in Message
  BY DEF Message

LEMMA AppendIs ==
  ASSUME NEW S, NEW s \in Seq(S), NEW e \in S
  PROVE  /\ Append(s, e) \in Seq(S) /\ Append(s, e) # <<>>
         /\ Len(s) \in Nat /\ Len(Append(s, e)) = Len(s) + 1
         /\ DOMAIN s = 1..Len(s) /\ DOMAIN Append(s, e) = 1..(Len(s) + 1)
         /\ \A i \in 1..Len(s): Append(s, e)[i] = s[i]
         /\ Append(s, e)[Len(s) + 1] = e
  OBVIOUS

LEMMA TailIs ==
  ASSUME NEW S, NEW s \in Seq(S), s # <<>>
  PROVE  /\ Tail(s) \in Seq(S) /\ Head(s) = s[1] /\ Head(s) \in S
         /\ Len(s) \in Nat \ {0} /\ Len(Tail(s)) = Len(s) - 1
         /\ DOMAIN s = 1..Len(s) /\ DOMAIN Tail(s) = 1..(Len(s) - 1)
         /\ \A i \in 1..(Len(s) - 1): Tail(s)[i] = s[i + 1]
  OBVIOUS

LEMMA LastIs ==
  ASSUME NEW S, NEW s \in Seq(S)
  PROVE  /\ Len(s) \in Nat /\ DOMAIN s = 1..Len(s) /\ (s = <<>> <=> Len(s) = 0)
         /\ \A i \in 1..Len(s): s[i] \in S
  OBVIOUS

LEMMA EndIs ==
  ASSUME NEW S, NEW s \in Seq(S), NEW m \in 0..Len(s)
  PROVE  /\ SubSeq(s, 1 + m, Len(s)) \in Seq(S)
         /\ Len(SubSeq(s, 1 + m, Len(s))) = Len(s) - m
         /\ \A i \in 1..(Len(s) - m): SubSeq(s, 1 + m, Len(s))[i] = s[m + i]
  OBVIOUS

LEMMA SameSeq ==
  ASSUME NEW S, NEW s \in Seq(S), NEW t \in Seq(S), Len(s) = Len(t), \A i \in 1..Len(s): s[i] = t[i]
  PROVE  s = t
  OBVIOUS

LEMMA GreatestOf ==
  ASSUME NEW n \in Nat, NEW S \in SUBSET (0..n), S # {}
  PROVE  \E m \in S : \A y \in S : y <= m
  <1> DEFINE R == OpToRel(<, Nat)
             above == {u \in Nat : \A y \in S : y <= u}
  <1>1. IsWellFoundedOn(R, Nat)
    BY NatLessThanWellFounded
  <1>2. above \subseteq Nat /\ n \in above
    OBVIOUS
  <1>3. PICK m \in above : \A u \in above : ~ (<<u, m>> \in R)
    <2> HIDE DEF R, above
    <2> QED
      BY <1>1, <1>2, WFMin
  <1>4. \A u \in above : ~(u < m)
    BY <1>2, <1>3 DEF OpToRel
  <1>5. m \in S
    <2> SUFFICES ASSUME m \notin S PROVE FALSE
      OBVIOUS
    <2>1. m \in Nat /\ \A y \in S : y \in Nat /\ y < m
      OBVIOUS
    <2>2. m # 0
      <3>1. PICK y \in S : TRUE
        OBVIOUS
      <3> QED
        BY <2>1, <3>1
    <2>3. m - 1 \in above
      BY <2>1, <2>2
    <2> QED
      BY <1>4, <2>1, <2>2, <2>3
  <1> QED
    BY <1>5


LEMMA MaxIs ==
  ASSUME NEW n \in Nat, NEW S \in SUBSET (0..n), S # {}
  PROVE  Max(S) \in S /\ \A y \in S: y <= Max(S)
  <1>1. PICK m \in S: \A y \in S: y <= m
    BY GreatestOf
  <1>2. \E x \in S: \A y \in S: x >= y
    BY <1>1
  <1>3. Max(S) \in S /\ \A y \in S: Max(S) >= y
    BY <1>2 DEF Max
  <1> QED
    BY <1>3

LEMMA NextTurnIs ==
  ASSUME Typed, Bounded, NEW t \in Tabs
  PROVE  /\ NextTurn(t) \in Nat
         /\ \A r \in Request: Outstanding(r) /\ r.tab = t => r.turn < NextTurn(t)
  <1> DEFINE snapshots == {m \in Range(wire) \cup {a.m: a \in settled}: m.t = "screen"}
             mine == {s \in screens \cup {m.s: m \in snapshots}: s.tab = t}
             S == {0} \cup {s.turn + 1: s \in mine}
  <1>1. \A r: r \in mine <=> Outstanding(r) /\ r.tab = t
    BY DEF Outstanding, OnWire, Settled, IsScreen, Range
  <1>2. \A r: Outstanding(r) => r \in Request
    <2>1. \A j \in DOMAIN wire: wire[j] \in Message
      BY LastIs DEF Typed
    <2>2. \A s \in settled: s.m \in Message
      BY DEF Typed
    <2>3. \A r: OnWire(r) => r \in Request
      BY <2>1, MessageIs DEF OnWire
    <2>4. \A r: Settled(r) => r \in Request
      BY <2>2, MessageIs DEF Settled
    <2> QED
      BY <2>3, <2>4 DEF Outstanding, Typed
  <1>3. PICK b \in Nat: \A r \in Request: Outstanding(r) /\ r.tab = t => r.turn <= b
    BY DEF Bounded
  <1>4. NextTurn(t) = Max(S)
    BY DEF NextTurn
  <1> HIDE DEF snapshots, mine
  <1>5. \A r \in mine: r \in Request /\ r.turn \in Nat /\ r.turn <= b
    BY <1>1, <1>2, <1>3 DEF Request
  <1>6. S \in SUBSET (0..(b + 1)) /\ S # {} /\ \A y \in S: y \in Nat
    BY <1>5
  <1>7. \A r \in mine: r.turn + 1 \in S
    OBVIOUS
  <1> HIDE DEF S
  <1>8. Max(S) \in S /\ \A y \in S: y <= Max(S)
    BY <1>6, MaxIs, b + 1 \in Nat
  <1>9. Max(S) \in Nat
    BY <1>6, <1>8
  <1>10. \A r \in mine: r.turn < Max(S)
    BY <1>5, <1>7, <1>8, <1>9
  <1> QED
    BY <1>1, <1>4, <1>9, <1>10

(* What is buffered after the seam is the end of the buffer.               *)
LEMMA LaterIs ==
  ASSUME NEW b \in Seq(Nat), NEW seam \in Nat
  PROVE  /\ Later(b, seam) \in Seq(Nat)
         /\ (\A i \in DOMAIN b: b[i] <= seam) => Later(b, seam) = <<>>
         /\ \A n \in Nat: n > seam => Later(Append(b, n), seam) = Append(Later(b, seam), n)
         /\ \A i \in DOMAIN Later(b, seam): \E k \in DOMAIN b: Later(b, seam)[i] = b[k]
  <1> DEFINE S == {0} \cup {i \in DOMAIN b: b[i] <= seam}
  <1>1. Len(b) \in Nat /\ DOMAIN b = 1..Len(b) /\ \A i \in 1..Len(b): b[i] \in Nat
    BY LastIs
  <1>2. Max(S) \in S /\ (\A y \in S: y <= Max(S)) /\ \A y \in S: y \in 0..Len(b)
    <2>1. S \in SUBSET (0..Len(b)) /\ S # {} /\ \A y \in S: y \in 0..Len(b)
      BY <1>1
    <2> HIDE DEF S
    <2> QED
      BY <1>1, <2>1, MaxIs
  <1>3. Later(b, seam) = SubSeq(b, 1 + Max(S), Len(b))
    BY DEF Later
  <1>4. (\A i \in DOMAIN b: b[i] <= seam) => Later(b, seam) = <<>>
    <2> SUFFICES ASSUME \A i \in DOMAIN b: b[i] <= seam PROVE Later(b, seam) = <<>>
      OBVIOUS
    <2>1. Len(b) \in S
      BY <1>1
    <2> HIDE DEF S
    <2>2. Max(S) = Len(b)
      BY <1>1, <1>2, <2>1
    <2> QED
      BY <1>1, <1>3, <2>2
  <1>5. ASSUME NEW n \in Nat, n > seam
        PROVE  Later(Append(b, n), seam) = Append(Later(b, seam), n)
    <2>1. {0} \cup {i \in DOMAIN Append(b, n): Append(b, n)[i] <= seam} = S
      BY <1>1, <1>5, AppendIs
    <2>2. Later(Append(b, n), seam) = SubSeq(Append(b, n), 1 + Max(S), Len(b) + 1)
      BY <1>1, <2>1, AppendIs DEF Later
    <2> HIDE DEF S
    <2>3. Max(S) \in 0..Len(b)
      BY <1>2
    <2> DEFINE c == Append(b, n)
               old == SubSeq(b, 1 + Max(S), Len(b))
               new == SubSeq(c, 1 + Max(S), Len(c))
    <2>4. /\ c \in Seq(Nat) /\ Len(c) = Len(b) + 1 /\ c[Len(b) + 1] = n
          /\ \A i \in 1..Len(b): c[i] = b[i]
      BY AppendIs
    <2>5. /\ old \in Seq(Nat) /\ Len(old) = Len(b) - Max(S)
          /\ \A i \in 1..(Len(b) - Max(S)): old[i] = b[Max(S) + i]
      BY <2>3, EndIs
    <2>6. Max(S) \in 0..Len(c)
      BY <1>1, <2>3, <2>4
    <2>7. /\ new \in Seq(Nat) /\ Len(new) = Len(c) - Max(S)
          /\ \A i \in 1..(Len(c) - Max(S)): new[i] = c[Max(S) + i]
      BY <2>4, <2>6, EndIs
    <2> HIDE DEF c, old, new
    <2>8. /\ Append(old, n) \in Seq(Nat) /\ Len(Append(old, n)) = Len(old) + 1
          /\ Append(old, n)[Len(old) + 1] = n /\ \A i \in 1..Len(old): Append(old, n)[i] = old[i]
      BY <2>5, AppendIs
    <2>9. Len(new) = Len(Append(old, n))
      BY <1>1, <2>3, <2>4, <2>5, <2>7, <2>8
    <2>10. ASSUME NEW i \in 1..Len(new) PROVE new[i] = Append(old, n)[i]
      <3>0. /\ Len(b) \in Nat /\ Max(S) \in 0..Len(b) /\ Len(old) = Len(b) - Max(S)
            /\ Len(new) = Len(old) + 1 /\ i \in 1..(Len(c) - Max(S))
        BY <1>1, <2>3, <2>4, <2>5, <2>7, <2>8, <2>9
      <3>1. CASE i \in 1..Len(old)
        <4>1. i \in 1..(Len(b) - Max(S)) /\ Max(S) + i \in 1..Len(b)
          BY <3>0, <3>1
        <4>2. new[i] = c[Max(S) + i] /\ old[i] = b[Max(S) + i] /\ c[Max(S) + i] = b[Max(S) + i]
          BY <2>4, <2>5, <2>7, <3>0, <4>1
        <4> QED
          BY <2>8, <3>1, <4>2
      <3>2. CASE i = Len(old) + 1
        <4>1. Max(S) + i = Len(b) + 1
          BY <3>0, <3>2
        <4>2. new[i] = c[Len(b) + 1]
          BY <2>7, <3>0, <4>1
        <4> QED
          BY <2>4, <2>8, <3>2, <4>2
      <3> QED
        BY <3>0, <3>1, <3>2
    <2>11. new = Append(old, n)
      BY <2>7, <2>8, <2>9, <2>10, SameSeq
    <2> QED
      BY <1>3, <2>2, <2>4, <2>11 DEF new, old, c
  <1> HIDE DEF S
  <1>6. Max(S) \in 0..Len(b)
    BY <1>2
  <1>7. /\ Later(b, seam) \in Seq(Nat) /\ Len(Later(b, seam)) = Len(b) - Max(S)
        /\ \A i \in 1..(Len(b) - Max(S)): Later(b, seam)[i] = b[Max(S) + i]
    BY <1>3, <1>6, EndIs
  <1>8. \A i \in DOMAIN Later(b, seam): \E k \in DOMAIN b: Later(b, seam)[i] = b[k]
    <2>1. DOMAIN Later(b, seam) = 1..(Len(b) - Max(S))
      BY <1>7
    <2>2. \A i \in 1..(Len(b) - Max(S)): Max(S) + i \in DOMAIN b
      BY <1>1, <1>6
    <2> QED
      BY <1>7, <2>1, <2>2
  <1> QED
    BY <1>4, <1>5, <1>7, <1>8

(* What the wire holds when deckd sends and when the server reads.         *)
LEMMA WireGrows ==
  ASSUME Typed, NEW m \in Message, wire' = Append(wire, m)
  PROVE  /\ wire' \in Seq(Message) /\ wire' # <<>> /\ Len(wire) \in Nat /\ Len(wire') = Len(wire) + 1
         /\ DOMAIN wire = 1..Len(wire) /\ DOMAIN wire' = 1..(Len(wire) + 1)
         /\ \A i \in 1..Len(wire): wire'[i] = wire[i] /\ wire[i] \in Message
         /\ wire'[Len(wire) + 1] = m
  BY AppendIs, LastIs DEF Typed

LEMMA WireShrinks ==
  ASSUME Typed, wire # <<>>, wire' = Tail(wire)
  PROVE  /\ wire' \in Seq(Message) /\ Head(wire) = wire[1] /\ Head(wire) \in Message
         /\ Len(wire) \in Nat \ {0} /\ Len(wire') = Len(wire) - 1
         /\ DOMAIN wire = 1..Len(wire) /\ DOMAIN wire' = 1..(Len(wire) - 1)
         /\ \A i \in 1..(Len(wire) - 1): wire'[i] = wire[i + 1]
         /\ \A i \in 1..Len(wire): wire[i] \in Message
  BY TailIs, LastIs DEF Typed

LEMMA FollowsStays ==
  ASSUME UNCHANGED wire, NEW i, NEW n, Follows(i, n),
         conn'.episode # "more" => pty'.out = pty.out /\ conn.episode # "more"
  PROVE  Follows(i, n)'
  BY DEF Follows, Silent, IsOutput

LEMMA FollowsGrows ==
  ASSUME Typed, NEW m \in Message, wire' = Append(wire, m),
         NEW i \in 0..Len(wire), NEW n \in Int, Follows(i, n),
         m.t = "output" => conn.episode # "more" /\ m.n = pty.out + 1,
         m.t \in {"output", "dropped"}
           \/ (pty'.out = pty.out /\ (conn'.episode # "more" => conn.episode # "more"))
  PROVE  Follows(i, n)'
  <1> DEFINE L == Len(wire)
  <1>1. /\ L \in Nat /\ Len(wire') = L + 1 /\ DOMAIN wire = 1..L /\ DOMAIN wire' = 1..(L + 1)
        /\ \A k \in 1..L: wire'[k] = wire[k]
        /\ wire'[L + 1] = m
    BY WireGrows
  <1>2. \A j \in 1..(L + 1): Silent(i, j)' <=> Silent(i, j)
    <2> SUFFICES ASSUME NEW j \in 1..(L + 1) PROVE Silent(i, j)' <=> Silent(i, j)
      OBVIOUS
    <2>1. \A k \in (i + 1)..(j - 1): wire'[k] = wire[k]
      BY <1>1
    <2> QED
      BY <2>1 DEF Silent
  <1>3. ASSUME NEW j \in DOMAIN wire', i < j, Silent(i, j)', IsOutput(wire[j])'
        PROVE  wire'[j].n = n + 1
    <2>1. CASE j \in 1..L
      BY <1>1, <1>2, <1>3, <2>1 DEF Follows, IsOutput
    <2>2. CASE j = L + 1
      <3>1. m.t = "output" /\ Silent(i, Len(wire) + 1)
        BY <1>1, <1>2, <1>3, <2>2 DEF IsOutput
      <3>2. pty.out = n
        BY <3>1 DEF Follows
      <3> QED
        BY <1>1, <2>2, <3>1, <3>2
    <2> QED
      BY <1>1, <2>1, <2>2
  <1>4. ASSUME Silent(i, Len(wire) + 1)', conn'.episode # "more"
        PROVE  pty'.out = n
    <2>1. m.t \notin {"output", "dropped"}
      <3>1. L + 1 \in (i + 1)..((Len(wire') + 1) - 1)
        BY <1>1
      <3> QED
        BY <1>1, <1>4, <3>1 DEF Silent
    <2>2. Silent(i, L + 1)
      <3>1. \A k \in (i + 1)..L: wire'[k].t \notin {"output", "dropped"}
        BY <1>1, <1>4 DEF Silent
      <3>2. \A k \in (i + 1)..L: k \in 1..L
        BY <1>1
      <3> QED
        BY <1>1, <3>1, <3>2 DEF Silent
    <2> QED
      BY <1>4, <2>1, <2>2 DEF Follows
  <1> QED
    BY <1>3, <1>4 DEF Follows

LEMMA FollowsShrinks ==
  ASSUME Typed, wire # <<>>, wire' = Tail(wire), UNCHANGED <<pty, conn>>, NEW i \in Nat, NEW n,
         \/ Follows(i + 1, n)
         \/ i = 0 /\ Follows(0, n) /\ Head(wire).t \notin {"output", "dropped"}
  PROVE  Follows(i, n)'
  <1> DEFINE L == Len(wire)
  <1>1. /\ L \in Nat \ {0} /\ Len(wire') = L - 1 /\ DOMAIN wire = 1..L /\ DOMAIN wire' = 1..(L - 1)
        /\ \A k \in 1..(L - 1): wire'[k] = wire[k + 1]
        /\ Head(wire) = wire[1]
    BY WireShrinks
  <1>2. PICK b \in {i, i + 1}: /\ Follows(b, n)
                               /\ b = i => i = 0 /\ wire[1].t \notin {"output", "dropped"}
    BY <1>1
  <1>3. ASSUME NEW j \in 1..L, i < j, Silent(i, j)' PROVE Silent(b, j + 1)
    <2> SUFFICES ASSUME NEW k \in (b + 1)..((j + 1) - 1) PROVE wire[k].t \notin {"output", "dropped"}
      BY DEF Silent
    <2>1. CASE k = 1
      BY <1>1, <1>2, <2>1
    <2>2. CASE k # 1
      <3>1. k - 1 \in (i + 1)..(j - 1) /\ k - 1 \in 1..(L - 1) /\ (k - 1) + 1 = k
        BY <1>1, <1>2, <2>2
      <3>2. wire'[k - 1] = wire[k]
        BY <1>1, <3>1
      <3> QED
        BY <1>3, <3>1, <3>2 DEF Silent
    <2> QED
      BY <2>1, <2>2
  <1>4. ASSUME NEW j \in DOMAIN wire', i < j, Silent(i, j)', IsOutput(wire[j])'
        PROVE  wire'[j].n = n + 1
    <2>1. j \in 1..L /\ j + 1 \in DOMAIN wire /\ wire'[j] = wire[j + 1] /\ b < j + 1
      BY <1>1, <1>2, <1>4
    <2>2. Silent(b, j + 1)
      BY <1>3, <1>4, <2>1
    <2> QED
      BY <1>2, <1>4, <2>1, <2>2 DEF Follows, IsOutput
  <1>5. ASSUME Silent(i, Len(wire) + 1)', conn'.episode # "more"
        PROVE  pty'.out = n
    <2>1. Silent(b, L + 1)
      <3>1. CASE i < L
        <4>1. \A l \in {L}: Silent(i, l)'
          BY <1>1, <1>5 DEF Silent
        <4> QED
          BY <1>1, <1>3, <3>1, <4>1
      <3>2. CASE i >= L
        <4>1. CASE b = i
          BY <1>1, <1>2, <3>2, <4>1
        <4>2. CASE b = i + 1
          BY <1>1, <3>2, <4>2 DEF Silent
        <4> QED
          BY <4>1, <4>2
      <3> QED
        BY <1>1, <3>1, <3>2
    <2> QED
      BY <1>2, <1>5, <2>1 DEF Follows
  <1> QED
    BY <1>4, <1>5 DEF Follows

(* A chunk at the head of the wire is the one after what is shown.         *)
LEMMA HeadFollows ==
  ASSUME Typed, wire # <<>>, Head(wire).t = "output", NEW n, Follows(0, n)
  PROVE  Head(wire).n = n + 1
  <1>1. 1 \in DOMAIN wire /\ Head(wire) = wire[1]
    BY TailIs DEF Typed
  <1>2. Silent(0, 1)
    BY DEF Silent
  <1> QED
    BY <1>1, <1>2 DEF Follows, IsOutput

(* A tab whose attach was answered has the chain to itself.                *)
LEMMA ReadyIs ==
  ASSUME TermInv, NEW t \in Tabs, tab[t].at \in {"syncing", "live"}, tab[t].ready
  PROVE  /\ Alive /\ chain = <<>> /\ ~taken /\ Attachment /\ Executed = "attach"
         /\ \A i \in Nat \ {0}: Since(i)
  <1>1. t \in Reading /\ t \notin Waiting
    BY DEF Reading, Waiting
  <1>2. Alive
    BY <1>1 DEF Alive, TermInv, DownInv, ExitInv, Over
  <1>3. chain = <<>>
    BY <1>1, <1>2 DEF TermInv, ChainInv, Ends
  <1>4. ~taken /\ \A j \in DOMAIN wire: ~IsDone(wire[j])
    BY <1>3 DEF TermInv, ChainInv, OneRequest
  <1>5. Attachment /\ Executed = "attach"
    BY <1>1, <1>2, <1>3 DEF Attachment, Executed
  <1>6. ASSUME NEW i \in Nat \ {0} PROVE Since(i)
    <2>1. DOMAIN wire = 1..Len(wire)
      BY LastIs DEF TermInv, Typed
    <2>2. \A k \in 1..Len(wire): ~IsDone(wire[k])
      BY <1>4, <2>1
    <2> QED
      BY <2>2 DEF Since
  <1> QED
    BY <1>2, <1>3, <1>4, <1>5, <1>6

LEMMA AttachmentIs ==
  ASSUME TermInv, Attachment
  PROVE  Alive /\ Reading # {} /\ Executed = "attach"
  <1>1. chain # <<>> => Len(chain) = 1 /\ Head(chain) = chain[1] /\ taken
    BY LastIs DEF Attachment, TermInv, Typed
  <1> QED
    BY <1>1 DEF Attachment, Executed, TermInv, ChainInv, Ends

(* What is not a screen's reply leaves the screen requests alone.          *)
LEMMA TurnsGrow ==
  ASSUME Typed, NEW m \in Message, ~IsScreen(m), wire' = Append(wire, m), UNCHANGED <<screens, settled>>
  PROVE  /\ \A r: Outstanding(r)' <=> Outstanding(r)
         /\ Unique => Unique'
         /\ Bounded => Bounded'
  <1> DEFINE L == Len(wire)
  <1>1. /\ L \in Nat /\ DOMAIN wire = 1..L /\ DOMAIN wire' = 1..(L + 1)
        /\ (\A k \in 1..L: wire'[k] = wire[k]) /\ wire'[L + 1] = m
    BY WireGrows
  <1>2. \A r: (OnWire(r)' <=> OnWire(r)) /\ (Settled(r)' <=> Settled(r))
    BY <1>1 DEF OnWire, Settled, IsScreen
  <1>3. \A r: Outstanding(r)' <=> Outstanding(r)
    BY <1>2 DEF Outstanding
  <1>4. Unique => Unique'
    BY <1>1, <1>2 DEF Unique, IsScreen
  <1> QED
    BY <1>3, <1>4 DEF Bounded

RepliesOnce ==
  /\ \A i, j \in DOMAIN wire: IsScreen(wire[i]) /\ IsScreen(wire[j]) /\ wire[i].s = wire[j].s => i = j
  /\ \A r, s \in settled: IsScreen(r.m) /\ IsScreen(s.m) /\ r.m.s = s.m.s => r = s
  /\ \A r \in Request: OnWire(r) => ~Settled(r)

LEMMA RepliesShrink ==
  ASSUME Typed, wire # <<>>, wire' = Tail(wire), ~IsScreen(Head(wire)), UNCHANGED settled
  PROVE  /\ \A r: (OnWire(r)' <=> OnWire(r)) /\ (Settled(r)' <=> Settled(r))
         /\ Unique => RepliesOnce'
  <1> DEFINE L == Len(wire)
  <1>1. /\ L \in Nat \ {0} /\ DOMAIN wire = 1..L /\ DOMAIN wire' = 1..(L - 1)
        /\ (\A k \in 1..(L - 1): wire'[k] = wire[k + 1]) /\ ~IsScreen(wire[1])
    BY WireShrinks
  <1>2. \A r: (OnWire(r)' <=> OnWire(r)) /\ (Settled(r)' <=> Settled(r))
    <2> SUFFICES ASSUME NEW r PROVE OnWire(r)' <=> OnWire(r)
      BY DEF Settled
    <2>1. ASSUME OnWire(r) PROVE OnWire(r)'
      <3>1. PICK j \in 1..L: IsScreen(wire[j]) /\ wire[j].s = r
        BY <1>1, <2>1 DEF OnWire
      <3>2. j - 1 \in 1..(L - 1) /\ wire'[j - 1] = wire[j]
        BY <1>1, <3>1
      <3> QED
        BY <1>1, <3>1, <3>2 DEF OnWire, IsScreen
    <2>2. ASSUME OnWire(r)' PROVE OnWire(r)
      BY <1>1, <2>2 DEF OnWire, IsScreen
    <2> QED
      BY <2>1, <2>2
  <1>3. Unique => RepliesOnce'
    BY <1>1, <1>2 DEF Unique, RepliesOnce, IsScreen
  <1> QED
    BY <1>2, <1>3

LEMMA TurnsShrink ==
  ASSUME Typed, wire # <<>>, wire' = Tail(wire), ~IsScreen(Head(wire)), UNCHANGED <<screens, settled>>
  PROVE  /\ \A r: Outstanding(r)' <=> Outstanding(r)
         /\ Unique => Unique'
         /\ Bounded => Bounded'
  <1>1. /\ \A r: (OnWire(r)' <=> OnWire(r)) /\ (Settled(r)' <=> Settled(r))
        /\ Unique => RepliesOnce'
    BY RepliesShrink
  <1>2. \A r: Outstanding(r)' <=> Outstanding(r)
    BY <1>1 DEF Outstanding
  <1>3. Unique => Unique'
    BY <1>1 DEF Unique, RepliesOnce
  <1> QED
    BY <1>2, <1>3 DEF Bounded

(* The reply of a request of the chain has been handled.                   *)
LEMMA RepliesStay ==
  ASSUME UNCHANGED wire, NEW s, ~IsScreen(s.m), settled' = settled \ {s}
  PROVE  /\ \A r: (OnWire(r)' <=> OnWire(r)) /\ (Settled(r)' <=> Settled(r))
         /\ Unique => RepliesOnce'
  <1>1. \A r: (OnWire(r)' <=> OnWire(r)) /\ (Settled(r)' <=> Settled(r))
    BY DEF OnWire, Settled, IsScreen
  <1>2. Unique => RepliesOnce'
    BY <1>1 DEF Unique, RepliesOnce, IsScreen
  <1> QED
    BY <1>1, <1>2

(* Screens that are asked for have turns of their own.                     *)
LEMMA TurnsAsk ==
  ASSUME TermInv, NEW T \in SUBSET Tabs,
         screens' = screens \cup {[tab |-> t, turn |-> NextTurn(t)]: t \in T},
         \A r: (OnWire(r)' <=> OnWire(r)) /\ (Settled(r)' <=> Settled(r)),
         RepliesOnce'
  PROVE  /\ \A t \in T: NextTurn(t) \in Nat
         /\ screens' \subseteq Request
         /\ Unique' /\ Bounded'
         /\ \A r: Outstanding(r) => Outstanding(r)'
         /\ \A t \in T: \A a: a = [tab |-> t, turn |-> NextTurn(t)] =>
              Outstanding(a)' /\ ~OnWire(a)' /\ ~Settled(a)'
  <1> DEFINE new == {[tab |-> t, turn |-> NextTurn(t)]: t \in T}
  <1>1. Typed /\ Unique /\ Bounded
    BY DEF TermInv, TurnInv
  <1>2. \A t \in T: NextTurn(t) \in Nat
    BY <1>1, NextTurnIs
  <1>3. new \subseteq Request /\ screens' \subseteq Request
    BY <1>1, <1>2 DEF Request, Typed
  <1>4. ASSUME NEW a \in new PROVE ~Outstanding(a)
    <2>1. PICK t \in T: a = [tab |-> t, turn |-> NextTurn(t)]
      OBVIOUS
    <2>2. a \in Request /\ a.tab = t /\ a.turn = NextTurn(t)
      BY <1>3, <2>1
    <2>3. Outstanding(a) => a.turn < NextTurn(t)
      BY <1>1, <2>2, NextTurnIs
    <2> QED
      BY <1>2, <2>2, <2>3
  <1>5. \A r: Outstanding(r)' <=> Outstanding(r) \/ r \in new
    BY DEF Outstanding
  <1>6. \A a \in new: ~OnWire(a)' /\ ~Settled(a)'
    BY <1>4 DEF Outstanding
  <1>7. Unique'
    <2>1. \A r \in screens: ~OnWire(r)' /\ ~Settled(r)'
      BY <1>1 DEF Unique
    <2>2. \A r \in screens': ~OnWire(r)' /\ ~Settled(r)'
      BY <1>6, <2>1
    <2> QED
      BY <2>2 DEF Unique, RepliesOnce
  <1>8. Bounded'
    <2> SUFFICES ASSUME NEW t \in Tabs
                 PROVE  \E b \in Nat: \A r \in Request: Outstanding(r)' /\ r.tab = t => r.turn <= b
      BY DEF Bounded
    <2>1. NextTurn(t) \in Nat /\ \A r \in Request: Outstanding(r) /\ r.tab = t => r.turn < NextTurn(t)
      BY <1>1, NextTurnIs
    <2>2. \A r \in new: r.tab = t => r.turn = NextTurn(t)
      OBVIOUS
    <2>3. ASSUME NEW r \in Request, Outstanding(r)', r.tab = t PROVE r.turn <= NextTurn(t)
      <3>1. r.turn \in Nat
        BY DEF Request
      <3> QED
        BY <1>5, <2>1, <2>2, <2>3, <3>1
    <2> QED
      BY <2>1, <2>3
  <1> HIDE DEF new
  <1>9. \A t \in T: [tab |-> t, turn |-> NextTurn(t)] \in new
    BY DEF new
  <1> QED
    BY <1>2, <1>3, <1>5, <1>6, <1>7, <1>8, <1>9

LEMMA TurnsStay ==
  ASSUME UNCHANGED <<wire, screens, settled>>
  PROVE  /\ \A r: Outstanding(r)' <=> Outstanding(r)
         /\ Unique => Unique'
         /\ Bounded => Bounded'
  <1>1. \A r: Outstanding(r)' <=> Outstanding(r)
    BY DEF Outstanding, OnWire, Settled, IsScreen
  <1>2. Unique => Unique'
    BY DEF Unique, OnWire, Settled, IsScreen
  <1> QED
    BY <1>1, <1>2 DEF Bounded

(* A message of deckd, or none, when what it is about follows.             *)
LEMMA FollowKept ==
  ASSUME TermInv, UNCHANGED <<connected, chain, session, tab, shown, settled>>,
         pty'.out \in Nat, pty.out <= pty'.out,
         \/ wire' = wire /\ taken' = taken
         \/ \E m \in Message:
              /\ wire' = Append(wire, m) /\ (~IsDone(m) => taken' = taken)
              /\ \A k \in {Len(wire) + 1}: IsOutput(m) \/ IsScreen(m) => Follows(k, m.n)',
         \A i \in 0..Len(wire), n \in Int: Attachment /\ Follows(i, n) => Follows(i, n)'
  PROVE  FollowInv'
  <1> DEFINE L == Len(wire)
  <1>1. Typed /\ FollowInv
    BY DEF TermInv
  <1>2. /\ L \in Nat /\ DOMAIN wire = 1..L
        /\ \A k \in 1..L: wire'[k] = wire[k] /\ wire[k] \in Message
    BY <1>1, WireGrows, LastIs DEF Typed
  <1>3. \/ DOMAIN wire' = 1..L /\ taken' = taken
        \/ /\ DOMAIN wire' = 1..(L + 1) /\ Len(wire') = L + 1
           /\ ~IsDone(wire'[L + 1]) => taken' = taken
           /\ IsOutput(wire'[L + 1]) \/ IsScreen(wire'[L + 1]) =>
                \A k \in {L + 1}: Follows(k, wire[k].n)'
    <2>1. CASE wire' = wire /\ taken' = taken
      BY <1>2, <2>1
    <2>2. CASE \E m \in Message:
              /\ wire' = Append(wire, m) /\ (~IsDone(m) => taken' = taken)
              /\ \A k \in {Len(wire) + 1}: IsOutput(m) \/ IsScreen(m) => Follows(k, m.n)'
      <3>1. PICK m \in Message:
              /\ wire' = Append(wire, m) /\ (~IsDone(m) => taken' = taken)
              /\ \A k \in {Len(wire) + 1}: IsOutput(m) \/ IsScreen(m) => Follows(k, m.n)'
        BY <2>2
      <3>2. DOMAIN wire' = 1..(L + 1) /\ Len(wire') = L + 1 /\ wire'[L + 1] = m
        BY <1>1, <3>1, WireGrows
      <3> QED
        BY <3>1, <3>2
    <2> QED
      BY <2>1, <2>2
  <1>5. Alive' <=> Alive
    BY DEF Alive
  <1>6. Reading' = Reading /\ Waiting' = Waiting
    BY DEF Reading, Waiting
  <1>7. \A t \in Tabs: /\ Attached(t)' <=> Attached(t)
                       /\ Syncing(t)' <=> Syncing(t)
                       /\ Asked(t)' = Asked(t)
                       /\ Attached(t) \/ Syncing(t) => tab[t].at \in {"syncing", "live"} /\ tab[t].ready
    BY DEF Attached, Syncing, Asked
  <1>8. \A t \in Tabs: Alive /\ (Attached(t) \/ Syncing(t)) => Attachment
    BY <1>7, ReadyIs
  <1>9. WireFollows'
    <2> SUFFICES ASSUME Attachment', NEW i \in DOMAIN wire', Since(i)', IsOutput(wire[i])'
                 PROVE  Follows(i, wire[i].n)'
      BY DEF WireFollows
    <2>1. IsOutput(wire'[i])
      BY DEF IsOutput
    <2>2. CASE i \in 1..L
      <3>1. taken' = taken
        BY <1>2, <1>3, <2>2 DEF Since, IsDone
      <3>2. Attachment
        BY <1>5, <1>6, <3>1 DEF Attachment
      <3>3. Since(i)
        BY <1>2, <1>3, <2>2 DEF Since, IsDone
      <3>4. wire'[i] = wire[i] /\ wire[i] \in Message /\ wire[i].n \in Int
        BY <1>2, <2>1, <2>2, MessageIs
      <3>5. Follows(i, wire[i].n)
        BY <1>1, <1>2, <2>1, <2>2, <3>2, <3>3, <3>4 DEF FollowInv, WireFollows
      <3> QED
        BY <1>2, <2>2, <3>2, <3>4, <3>5
    <2>3. CASE i = L + 1
      BY <1>2, <1>3, <2>1, <2>3
    <2> QED
      BY <1>3, <2>2, <2>3
  <1>10. LiveFollows'
    <2> SUFFICES ASSUME Alive', NEW t \in Tabs, Attached(t)', ~tab'[t].dropping
                 PROVE  Follows(0, shown[t])'
      BY DEF LiveFollows
    <2>1. Follows(0, shown[t]) /\ Attachment
      BY <1>1, <1>5, <1>7, <1>8 DEF FollowInv, LiveFollows
    <2>2. shown[t] \in Int /\ 0 \in 0..L
      BY <1>1, <1>2 DEF Typed
    <2> QED
      BY <2>1, <2>2
  <1>11. ScreenFollows'
    <2> SUFFICES ASSUME Alive', NEW t \in Tabs, Syncing(t)', NEW j \in DOMAIN wire',
                        IsScreen(wire[j])', wire'[j].s = Asked(t)', wire'[j].ok
                 PROVE  Follows(j, wire[j].n)'
      BY DEF ScreenFollows
    <2>1. IsScreen(wire'[j])
      BY DEF IsScreen
    <2>2. CASE j \in 1..L
      <3>1. wire'[j] = wire[j] /\ wire[j].n \in Int
        BY <1>2, <2>1, <2>2, MessageIs
      <3>2. Follows(j, wire[j].n) /\ Attachment
        BY <1>1, <1>2, <1>5, <1>7, <1>8, <2>1, <2>2, <3>1 DEF FollowInv, ScreenFollows
      <3> QED
        BY <1>2, <2>2, <3>1, <3>2
    <2>3. CASE j = L + 1
      BY <1>2, <1>3, <2>1, <2>3
    <2> QED
      BY <1>3, <2>2, <2>3
  <1>12. LateFollows'
    <2> SUFFICES ASSUME Alive', NEW t \in Tabs, Syncing(t)', NEW s \in settled,
                        IsScreen(s.m), s.m.s = Asked(t)', s.m.ok
                 PROVE  LET late == Later(tab[t].buffer, s.seam)
                        IN  /\ \A i \in 1..Len(late): late[i] = s.m.n + i
                            /\ Follows(0, s.m.n + Len(late))'
      BY DEF LateFollows, IsScreen
    <2> DEFINE late == Later(tab[t].buffer, s.seam)
    <2>1. /\ \A i \in 1..Len(late): late[i] = s.m.n + i
          /\ Follows(0, s.m.n + Len(late))
      BY <1>1, <1>5, <1>7 DEF FollowInv, LateFollows
    <2>2. Attachment
      BY <1>5, <1>7, <1>8
    <2>3. s.m.n \in Nat /\ late \in Seq(Nat)
      <3>1. s.m \in Message /\ s.seam \in Nat /\ tab[t].buffer \in Seq(Nat)
        BY <1>1 DEF Typed, TabRecord
      <3> QED
        BY <3>1, MessageIs, LaterIs
    <2>4. s.m.n + Len(late) \in Int /\ 0 \in 0..L
      BY <1>2, <2>3, LastIs
    <2>5. \A n \in {s.m.n + Len(late)}: Follows(0, n)'
      BY <2>1, <2>2, <2>4
    <2>6. tab' = tab
      OBVIOUS
    <2> HIDE DEF late
    <2> QED
      BY <2>1, <2>5, <2>6 DEF late
  <1>13. ShownInv'
    <2>1. \A t \in Tabs: Attached(t) => shown[t] \in 0..pty.out
      BY <1>1 DEF FollowInv, ShownInv
    <2>2. pty.out \in Nat
      BY <1>1 DEF Typed
    <2> QED
      BY <1>7, <2>1, <2>2 DEF ShownInv
  <1> QED
    BY <1>9, <1>10, <1>11, <1>12, <1>13 DEF FollowInv

-----------------------------------------------------------------------------
(* What deckd does.                                                        *)

LEMMA OutputStep ==
  ASSUME TermInv, Output
  PROVE  TermInv'
  <1> DEFINE L == Len(wire)
             sent == [t |-> "output", n |-> pty.out + 1]
             lost == [t |-> "dropped"]
  <1>0. Typed /\ TermInv
    BY DEF TermInv
  <1>1. /\ ~pty.ended /\ pty.out < MaxOut /\ pty'.out = pty.out + 1 /\ ~pty'.ended
        /\ pty' \in [out: 0..MaxOut, ended: BOOLEAN] /\ pty.out \in Nat
        /\ UNCHANGED <<connected, screens, chain, taken, arrived, settled, running, session, tab, again, shown, spent>>
    <2>1. pty \in [out: 0..MaxOut, ended: BOOLEAN] /\ MaxOut \in Nat
      BY <1>0, TerminalBounds DEF Typed
    <2>2. ~pty.ended /\ pty.out < MaxOut /\ pty' = [pty EXCEPT !.out = @ + 1]
      BY DEF Output
    <2>3. UNCHANGED <<connected, screens, chain, taken, arrived, settled, running, session, tab, again, shown, spent>>
      BY DEF Output, replies, tabSide
    <2> QED
      BY <2>1, <2>2, <2>3
  <1>2. sent \in Message /\ lost \in Message /\ ~IsScreen(sent) /\ ~IsScreen(lost)
    BY <1>1, Messages, pty.out + 1 \in Nat DEF IsScreen
  <1>3. \/ ~conn.stream /\ UNCHANGED <<conn, wire>>
        \/ conn.stream /\ conn.episode = "none" /\ wire' = Append(wire, sent) /\ UNCHANGED conn
        \/ /\ conn.stream /\ conn.episode = "none" /\ wire' = Append(wire, lost)
           /\ conn' = [conn EXCEPT !.episode = "open", !.callbacks = @ + 1]
        \/ /\ conn.stream /\ conn.episode # "none" /\ conn' = [conn EXCEPT !.episode = "more"]
           /\ UNCHANGED wire
    BY DEF Output
  <1>4. \/ wire' = wire
        \/ conn.stream /\ wire' = Append(wire, sent)
        \/ conn.stream /\ wire' = Append(wire, lost)
    BY <1>3
  <1>5. /\ L \in Nat /\ DOMAIN wire = 1..L /\ \A k \in 1..L: wire[k] \in Message
        /\ \/ wire' = wire
           \/ /\ conn.stream /\ DOMAIN wire' = 1..(L + 1) /\ wire' \in Seq(Message)
              /\ \A k \in 1..L: wire'[k] = wire[k]
              /\ wire'[L + 1] \in {sent, lost}
    BY <1>0, <1>2, <1>4, WireGrows, LastIs DEF Typed
  <1>6. conn.stream => connected
    BY DEF TermInv, DownInv, NoConn
  <1>7. /\ conn'.stream = conn.stream /\ conn'.watch = conn.watch
        /\ conn' \in [stream: BOOLEAN, watch: BOOLEAN, episode: {"none", "open", "more"}, callbacks: Nat]
        /\ conn'.episode # "none" => conn'.callbacks > 0
        /\ ~conn.stream => conn' = conn
    <2>1. conn \in [stream: BOOLEAN, watch: BOOLEAN, episode: {"none", "open", "more"}, callbacks: Nat]
      BY <1>0 DEF Typed
    <2>2. conn.episode # "none" => conn.callbacks > 0
      BY DEF TermInv, Episodes
    <2>3. CASE conn' = conn
      BY <2>1, <2>2, <2>3
    <2>4. CASE conn.stream /\ conn' = [conn EXCEPT !.episode = "open", !.callbacks = @ + 1]
      <3>1. conn.callbacks \in Nat /\ conn.callbacks + 1 \in Nat /\ conn.callbacks + 1 > 0
        BY <2>1
      <3>2. conn'.callbacks = conn.callbacks + 1
        BY <2>1, <2>4
      <3> QED
        BY <2>1, <2>4, <3>1, <3>2
    <2>5. CASE conn.stream /\ conn.episode # "none" /\ conn' = [conn EXCEPT !.episode = "more"]
      BY <2>1, <2>2, <2>5
    <2> QED
      BY <1>3, <2>3, <2>4, <2>5
  <1>8. \A j \in DOMAIN wire': \/ j \in DOMAIN wire /\ wire'[j] = wire[j]
                               \/ j = L + 1 /\ wire'[j] \in {sent, lost} /\ connected
    BY <1>5, <1>6
  <1>9. \A j \in DOMAIN wire: j \in DOMAIN wire' /\ wire'[j] = wire[j] /\ j < L + 1 /\ j \in Nat
    BY <1>5
  <1>10. Typed'
    BY <1>0, <1>1, <1>5, <1>7 DEF Typed
  <1>11. Ordered'
    <2>1. Ordered
      BY DEF TermInv
    <2>2. arrived \in Nat /\ arrived <= pty.out /\ \A j \in DOMAIN wire: IsOutput(wire[j]) => wire[j].n \in Nat
      BY <1>0, <1>5, MessageIs DEF Typed
    <2>3. \A j \in DOMAIN wire: IsScreen(wire[j]) => wire[j].n \in Nat
      BY <1>5, MessageIs
    <2>4. \A s \in settled: IsScreen(s.m) => s.m.n \in Nat
      BY <1>0, MessageIs DEF Typed
    <2>5. \A j \in DOMAIN wire': IsOutput(wire'[j]) => arrived < wire'[j].n /\ wire'[j].n <= pty.out + 1
      BY <1>1, <1>8, <2>1, <2>2 DEF Ordered, IsOutput
    <2>6. \A i, j \in DOMAIN wire': i < j /\ IsOutput(wire'[i]) /\ IsOutput(wire'[j]) => wire'[i].n < wire'[j].n
      <3> SUFFICES ASSUME NEW i \in DOMAIN wire', NEW j \in DOMAIN wire', i < j,
                          IsOutput(wire'[i]), IsOutput(wire'[j])
                   PROVE  wire'[i].n < wire'[j].n
        OBVIOUS
      <3>1. i \in DOMAIN wire /\ wire'[i] = wire[i]
        BY <1>5, <1>8
      <3>2. CASE j \in DOMAIN wire
        BY <1>9, <2>1, <3>1, <3>2 DEF Ordered
      <3>3. CASE wire'[j] \in {sent, lost}
        BY <1>1, <2>1, <2>2, <3>1, <3>3 DEF Ordered, IsOutput
      <3> QED
        BY <1>8, <3>2, <3>3
    <2>7. \A j \in DOMAIN wire': IsScreen(wire'[j]) => wire'[j].n <= pty.out + 1
      BY <1>1, <1>2, <1>8, <2>1, <2>3 DEF Ordered
    <2> QED
      BY <1>1, <2>1, <2>4, <2>5, <2>6, <2>7 DEF Ordered, IsOutput, IsScreen, IsDone
  <1>12. DownInv'
    BY <1>1, <1>3, <1>6 DEF TermInv, DownInv, NoConn
  <1>13. ChainInv'
    <2>1. OneRequest'
      <3>1. \A j \in DOMAIN wire': IsDone(wire'[j]) => j \in DOMAIN wire /\ wire'[j] = wire[j]
        BY <1>8 DEF IsDone
      <3> QED
        BY <1>1, <1>9, <3>1 DEF TermInv, ChainInv, OneRequest, IsDone
    <2>2. Cycle' /\ Ends' /\ Watched'
      BY <1>1 DEF TermInv, ChainInv, Cycle, Ends, Watched, Alive, Reading, Waiting
    <2>3. Streams'
      BY <1>1, <1>7 DEF TermInv, ChainInv, Streams, Executed, Alive, Reading
    <2> QED
      BY <2>1, <2>2, <2>3 DEF ChainInv
  <1>14. ExitInv'
    <2>1. \A j \in DOMAIN wire': IsExit(wire'[j]) \/ IsDone(wire'[j]) => j \in DOMAIN wire /\ wire'[j] = wire[j]
      BY <1>8 DEF IsExit, IsDone
    <2>2. Alive' <=> Alive
      BY <1>1 DEF Alive
    <2>3. Exits /\ Over
      BY DEF TermInv, ExitInv
    <2>4. Exits'
      BY <1>1, <1>9, <2>1, <2>2, <2>3 DEF Exits, IsExit, IsDone
    <2>5. session = "live"
      BY <1>1, <2>3 DEF Exits
    <2> QED
      BY <1>1, <2>4, <2>5 DEF ExitInv, Over
  <1>15. Episodes'
    BY <1>7 DEF Episodes
  <1>16. TurnInv'
    <2>1. (\A r: Outstanding(r)' <=> Outstanding(r)) /\ Unique' /\ Bounded'
      BY <1>0, <1>1, <1>2, <1>4, TurnsGrow, TurnsStay DEF TermInv, TurnInv
    <2>2. Answered'
      <3>1. \A t \in Tabs: (Syncing(t)' <=> Syncing(t)) /\ Asked(t)' = Asked(t)
        BY <1>1 DEF Syncing, Asked
      <3> QED
        BY <2>1, <3>1 DEF Answered, TermInv, TurnInv
    <2> QED
      BY <2>1, <2>2 DEF TurnInv
  <1>17. FollowInv'
    <2>1. ASSUME NEW i \in 0..Len(wire), NEW n \in Int, Attachment, Follows(i, n)
          PROVE  Follows(i, n)'
      <3>1. conn.stream
        BY <1>1, <2>1, AttachmentIs DEF TermInv, ChainInv, Streams
      <3>2. CASE wire' = wire /\ conn' = [conn EXCEPT !.episode = "more"]
        <4>1. conn'.episode = "more"
          BY <1>0, <3>2 DEF Typed
        <4> QED
          BY <2>1, <3>2, <4>1, FollowsStays
      <3>3. CASE wire' = Append(wire, sent) /\ conn.episode = "none"
        BY <1>0, <1>2, <2>1, <3>3, FollowsGrows
      <3>4. CASE wire' = Append(wire, lost)
        BY <1>0, <1>2, <2>1, <3>4, FollowsGrows
      <3> QED
        BY <1>3, <3>1, <3>2, <3>3, <3>4
    <2>2. ASSUME wire' = Append(wire, sent)
          PROVE  \A k \in {L + 1}, n \in {sent.n}: Follows(k, n)'
      <3>1. Len(wire') = L + 1 /\ sent.n = pty'.out /\ DOMAIN wire' = 1..(L + 1)
        BY <1>0, <1>1, <1>2, <2>2, WireGrows
      <3> QED
        BY <3>1 DEF Follows
    <2>3. \/ wire' = wire /\ taken' = taken
          \/ \E m \in Message:
              /\ wire' = Append(wire, m) /\ (~IsDone(m) => taken' = taken)
              /\ \A k \in {Len(wire) + 1}: IsOutput(m) \/ IsScreen(m) => Follows(k, m.n)'
      <3>1. ~IsOutput(lost) /\ ~IsScreen(lost) /\ ~IsScreen(sent)
        BY <1>2 DEF IsOutput, IsScreen
      <3>2. CASE wire' = Append(wire, lost)
        BY <1>1, <1>2, <3>1, <3>2
      <3>3. CASE wire' = Append(wire, sent)
        <4>1. PICK m \in Message: m = sent
          BY <1>2
        <4>2. \A k \in {L + 1}: Follows(k, m.n)'
          BY <2>2, <3>3, <4>1
        <4>3. wire' = Append(wire, m)
          BY <3>3, <4>1
        <4> QED
          BY <1>1, <4>2, <4>3
      <3> QED
        BY <1>1, <1>4, <3>2, <3>3
    <2> QED
      BY <1>0, <1>1, <2>1, <2>3, FollowKept
  <1> QED
    BY <1>10, <1>11, <1>12, <1>13, <1>14, <1>15, <1>16, <1>17 DEF TermInv

LEMMA EndEpisodeStep ==
  ASSUME TermInv, EndEpisode
  PROVE  TermInv'
  <1> DEFINE L == Len(wire)
             lost == [t |-> "dropped"]
  <1>0. Typed
    BY DEF TermInv
  <1>1. /\ conn.callbacks > 0 /\ conn' = [conn EXCEPT !.callbacks = @ - 1, !.episode = "none"]
        /\ UNCHANGED <<pty, connected, screens, chain, taken, arrived, settled, running, session, tab,
                       again, shown, spent>>
        /\ \/ wire' = wire /\ conn.episode # "more"
           \/ wire' = Append(wire, lost)
    BY DEF EndEpisode, replies, tabSide
  <1>2. lost \in Message /\ ~IsScreen(lost) /\ ~IsOutput(lost) /\ ~IsDone(lost) /\ ~IsExit(lost)
    BY Messages DEF IsScreen, IsOutput, IsDone, IsExit
  <1>3. /\ conn'.stream = conn.stream /\ conn'.watch = conn.watch /\ conn'.episode = "none"
        /\ conn' \in [stream: BOOLEAN, watch: BOOLEAN, episode: {"none", "open", "more"}, callbacks: Nat]
    <2>1. conn \in [stream: BOOLEAN, watch: BOOLEAN, episode: {"none", "open", "more"}, callbacks: Nat]
      BY <1>0 DEF Typed
    <2>2. conn.callbacks - 1 \in Nat
      BY <1>1, <2>1
    <2> QED
      BY <1>1, <2>1, <2>2
  <1>4. connected
    BY <1>1 DEF TermInv, DownInv, NoConn
  <1>5. /\ L \in Nat /\ DOMAIN wire = 1..L /\ \A k \in 1..L: wire[k] \in Message
        /\ \/ wire' = wire
           \/ /\ DOMAIN wire' = 1..(L + 1) /\ wire' \in Seq(Message)
              /\ \A k \in 1..L: wire'[k] = wire[k]
              /\ wire'[L + 1] = lost
    BY <1>0, <1>1, <1>2, WireGrows, LastIs DEF Typed
  <1>6. \A j \in DOMAIN wire': \/ j \in DOMAIN wire /\ wire'[j] = wire[j]
                               \/ wire'[j] = lost
    BY <1>5
  <1>7. \A j \in DOMAIN wire: j \in DOMAIN wire' /\ wire'[j] = wire[j]
    BY <1>5
  <1>8. \A j \in DOMAIN wire': IsOutput(wire'[j]) \/ IsScreen(wire'[j]) \/ IsExit(wire'[j]) \/ IsDone(wire'[j])
          => j \in DOMAIN wire /\ wire'[j] = wire[j]
    BY <1>2, <1>6
  <1>10. Typed'
    BY <1>0, <1>1, <1>3, <1>5 DEF Typed
  <1>11. Ordered'
    BY <1>1, <1>7, <1>8 DEF TermInv, Ordered, IsOutput, IsScreen, IsDone
  <1>12. DownInv'
    BY <1>1, <1>4 DEF TermInv, DownInv
  <1>13. ChainInv'
    <2>1. OneRequest'
      BY <1>1, <1>7, <1>8 DEF TermInv, ChainInv, OneRequest, IsDone
    <2>2. Cycle' /\ Ends' /\ Watched'
      BY <1>1 DEF TermInv, ChainInv, Cycle, Ends, Watched, Alive, Reading, Waiting
    <2>3. Streams'
      BY <1>1, <1>3 DEF TermInv, ChainInv, Streams, Executed, Alive, Reading
    <2> QED
      BY <2>1, <2>2, <2>3 DEF ChainInv
  <1>14. ExitInv'
    <2>1. (Alive' <=> Alive) /\ Reading' = Reading /\ Waiting' = Waiting
      BY <1>1 DEF Alive, Reading, Waiting
    <2>2. Exits'
      BY <1>1, <1>7, <1>8, <2>1 DEF TermInv, ExitInv, Exits, IsExit, IsDone
    <2>3. Over'
      BY <1>1, <1>7, <1>8, <2>1 DEF TermInv, ExitInv, Over, IsDone
    <2> QED
      BY <2>2, <2>3 DEF ExitInv
  <1>15. Episodes'
    BY <1>3 DEF Episodes
  <1>16. TurnInv'
    <2>1. (\A r: Outstanding(r)' <=> Outstanding(r)) /\ Unique' /\ Bounded'
      BY <1>0, <1>1, <1>2, TurnsGrow, TurnsStay DEF TermInv, TurnInv
    <2>2. \A t \in Tabs: (Syncing(t)' <=> Syncing(t)) /\ Asked(t)' = Asked(t)
      BY <1>1 DEF Syncing, Asked
    <2> QED
      BY <2>1, <2>2 DEF TermInv, TurnInv, Answered
  <1>17. FollowInv'
    <2>1. ASSUME NEW i \in 0..Len(wire), NEW n \in Int, Follows(i, n)
          PROVE  Follows(i, n)'
      BY <1>0, <1>1, <1>2, <2>1, FollowsStays, FollowsGrows DEF IsOutput
    <2>2. \/ wire' = wire /\ taken' = taken
          \/ \E m \in Message:
              /\ wire' = Append(wire, m) /\ (~IsDone(m) => taken' = taken)
              /\ \A k \in {Len(wire) + 1}: IsOutput(m) \/ IsScreen(m) => Follows(k, m.n)'
      BY <1>1, <1>2
    <2>3. pty'.out \in Nat /\ pty.out <= pty'.out
      BY <1>0, <1>1 DEF Typed
    <2> QED
      BY <1>1, <2>1, <2>2, <2>3, FollowKept
  <1> QED
    BY <1>10, <1>11, <1>12, <1>13, <1>14, <1>15, <1>16, <1>17 DEF TermInv

LEMMA ExitStep ==
  ASSUME TermInv, Exit
  PROVE  TermInv'
  <1> DEFINE L == Len(wire)
             told == [t |-> "exit"]
  <1>0. Typed
    BY DEF TermInv
  <1>1. /\ ~pty.ended /\ pty' = [pty EXCEPT !.ended = TRUE]
        /\ conn' = [conn EXCEPT !.watch = FALSE, !.stream = FALSE]
        /\ UNCHANGED <<connected, screens, chain, taken, arrived, settled, running, session, tab,
                       again, shown, spent>>
        /\ \/ ~connected /\ wire' = wire
           \/ connected /\ wire' = Append(wire, told)
    BY <1>0 DEF Exit, replies, tabSide, Typed
  <1>2. told \in Message /\ ~IsScreen(told) /\ ~IsOutput(told) /\ ~IsDone(told) /\ IsExit(told)
    BY Messages DEF IsScreen, IsOutput, IsDone, IsExit
  <1>3. /\ conn'.episode = conn.episode /\ conn'.callbacks = conn.callbacks
        /\ conn' \in [stream: BOOLEAN, watch: BOOLEAN, episode: {"none", "open", "more"}, callbacks: Nat]
        /\ pty'.out = pty.out /\ pty'.ended /\ pty' \in [out: 0..MaxOut, ended: BOOLEAN]
        /\ conn = NoConn => conn' = NoConn
    <2>1. /\ conn \in [stream: BOOLEAN, watch: BOOLEAN, episode: {"none", "open", "more"}, callbacks: Nat]
          /\ pty \in [out: 0..MaxOut, ended: BOOLEAN]
      BY <1>0 DEF Typed
    <2>2. conn' = [stream |-> FALSE, watch |-> FALSE, episode |-> conn.episode, callbacks |-> conn.callbacks]
      BY <1>1, <2>1
    <2>3. conn = NoConn => conn' = NoConn
      BY <2>2 DEF NoConn
    <2> QED
      BY <1>1, <2>1, <2>2, <2>3
  <1>4. session = "live"
    BY <1>1 DEF TermInv, ExitInv, Exits
  <1>5. /\ L \in Nat /\ DOMAIN wire = 1..L /\ \A k \in 1..L: wire[k] \in Message
        /\ \/ ~connected /\ wire' = wire
           \/ /\ connected /\ DOMAIN wire' = 1..(L + 1) /\ wire' \in Seq(Message)
              /\ \A k \in 1..L: wire'[k] = wire[k]
              /\ wire'[L + 1] = told
    BY <1>0, <1>1, <1>2, WireGrows, LastIs DEF Typed
  <1>6. \A j \in DOMAIN wire': \/ j \in DOMAIN wire /\ wire'[j] = wire[j]
                               \/ j = L + 1 /\ wire'[j] = told
    BY <1>5
  <1>7. \A j \in DOMAIN wire: j \in DOMAIN wire' /\ wire'[j] = wire[j] /\ j \in 1..L
    BY <1>5
  <1>8. \A j \in DOMAIN wire': IsOutput(wire'[j]) \/ IsScreen(wire'[j]) \/ IsDone(wire'[j])
          => j \in DOMAIN wire /\ wire'[j] = wire[j]
    BY <1>2, <1>6
  <1>10. Typed'
    BY <1>0, <1>1, <1>3, <1>5 DEF Typed
  <1>11. Ordered'
    BY <1>1, <1>3, <1>7, <1>8 DEF TermInv, Ordered, IsOutput, IsScreen, IsDone
  <1>12. DownInv'
    BY <1>1, <1>3 DEF TermInv, DownInv
  <1>13. ChainInv'
    <2>1. OneRequest'
      BY <1>1, <1>7, <1>8 DEF TermInv, ChainInv, OneRequest, IsDone
    <2>2. Cycle' /\ Ends' /\ Watched'
      BY <1>1 DEF TermInv, ChainInv, Cycle, Ends, Watched, Alive, Reading, Waiting
    <2>3. Streams'
      BY <1>3 DEF Streams
    <2> QED
      BY <2>1, <2>2, <2>3 DEF ChainInv
  <1>14. ExitInv'
    <2>1. \A j \in DOMAIN wire: Alive => ~IsExit(wire[j]) /\ ~(IsDone(wire[j]) /\ ~wire[j].ok)
      BY <1>1 DEF TermInv, ExitInv, Exits
    <2>2. Alive' => Alive /\ connected
      BY <1>1 DEF Alive
    <2>3. Alive' => \E j \in DOMAIN wire': IsExit(wire'[j])
      BY <1>2, <1>5, <2>2
    <2>4. \A i, j \in DOMAIN wire': i < j /\ IsExit(wire'[i]) =>
            ~IsExit(wire'[j]) /\ ~(IsDone(wire'[j]) /\ wire'[j].ok)
      <3> SUFFICES ASSUME NEW i \in DOMAIN wire', NEW j \in DOMAIN wire', i < j, IsExit(wire'[i])
                   PROVE  FALSE
        OBVIOUS
      <3>1. CASE connected
        <4>1. Alive
          BY <1>4, <3>1 DEF Alive
        <4>2. ~(i \in DOMAIN wire)
          BY <1>7, <2>1, <4>1
        <4>3. i = L + 1 /\ j \in 1..(L + 1)
          BY <1>5, <1>6, <3>1, <4>2
        <4> QED
          BY <1>5, <4>3
      <3>2. CASE ~connected
        <4>1. wire = <<>> /\ wire' = wire
          BY <1>1, <3>2 DEF TermInv, DownInv
        <4> QED
          BY <4>1
      <3> QED
        BY <3>1, <3>2
    <2>5. \A s \in settled: Alive /\ IsDone(s.m) => s.m.ok
      BY DEF TermInv, ExitInv, Exits
    <2>6. \A j \in DOMAIN wire': Alive => ~(IsDone(wire'[j]) /\ ~wire'[j].ok)
      BY <1>8, <2>1
    <2>7. Exits'
      BY <1>1, <1>3, <1>4, <2>2, <2>3, <2>4, <2>5, <2>6 DEF Exits, IsExit, IsDone
    <2> QED
      BY <1>1, <1>4, <2>7 DEF ExitInv, Over
  <1>15. Episodes'
    BY <1>3 DEF TermInv, Episodes
  <1>16. TurnInv'
    <2>1. (\A r: Outstanding(r)' <=> Outstanding(r)) /\ Unique' /\ Bounded'
      BY <1>0, <1>1, <1>2, TurnsGrow, TurnsStay DEF TermInv, TurnInv
    <2>2. \A t \in Tabs: (Syncing(t)' <=> Syncing(t)) /\ Asked(t)' = Asked(t)
      BY <1>1 DEF Syncing, Asked
    <2> QED
      BY <2>1, <2>2 DEF TermInv, TurnInv, Answered
  <1>17. FollowInv'
    <2>1. ASSUME NEW i \in 0..Len(wire), NEW n \in Int, Follows(i, n)
          PROVE  Follows(i, n)'
      BY <1>0, <1>1, <1>2, <1>3, <2>1, FollowsStays, FollowsGrows DEF IsOutput
    <2>2. \/ wire' = wire /\ taken' = taken
          \/ \E m \in Message:
              /\ wire' = Append(wire, m) /\ (~IsDone(m) => taken' = taken)
              /\ \A k \in {Len(wire) + 1}: IsOutput(m) \/ IsScreen(m) => Follows(k, m.n)'
      BY <1>1, <1>2
    <2>3. pty'.out \in Nat /\ pty.out <= pty'.out
      BY <1>0, <1>3 DEF Typed
    <2> QED
      BY <1>1, <2>1, <2>2, <2>3, FollowKept
  <1> QED
    BY <1>10, <1>11, <1>12, <1>13, <1>14, <1>15, <1>16, <1>17 DEF TermInv

LEMMA TakeRequestStep ==
  ASSUME TermInv, TakeRequest
  PROVE  TermInv'
  <1> DEFINE L == Len(wire)
             done == [t |-> "done", ok |-> ~pty.ended]
  <1>0. Typed
    BY DEF TermInv
  <1>1. /\ connected /\ chain # <<>> /\ ~taken /\ taken' = TRUE /\ wire' = Append(wire, done)
        /\ UNCHANGED <<pty, connected, screens, chain, arrived, settled, running, session, tab,
                       again, shown, spent>>
        /\ pty.ended => conn' = conn
        /\ ~pty.ended /\ Head(chain) = "attach" => conn' = [conn EXCEPT !.stream = TRUE]
        /\ ~pty.ended /\ Head(chain) = "detach" =>
             conn' = [conn EXCEPT !.stream = FALSE, !.watch = FALSE, !.episode = "none"]
        /\ ~pty.ended /\ Head(chain) = "watch" => conn' = [conn EXCEPT !.watch = TRUE]
    BY DEF TakeRequest, replies, tabSide
  <1>2. /\ done \in Message /\ ~IsScreen(done) /\ ~IsOutput(done) /\ IsDone(done) /\ ~IsExit(done)
        /\ done.t \notin {"output", "dropped"} /\ (done.ok <=> ~pty.ended)
    <2>1. (~pty.ended) \in BOOLEAN
      OBVIOUS
    <2>2. done \in Message
      BY <2>1, Messages
    <2> QED
      BY <2>2 DEF IsScreen, IsOutput, IsDone, IsExit
  <1>3. /\ conn' \in [stream: BOOLEAN, watch: BOOLEAN, episode: {"none", "open", "more"}, callbacks: Nat]
        /\ conn'.callbacks = conn.callbacks
        /\ conn'.episode = conn.episode \/ conn'.episode = "none"
        /\ ~pty.ended =>
             /\ Head(chain) = "attach" => conn'.stream /\ conn'.watch = conn.watch
             /\ Head(chain) = "detach" => ~conn'.stream /\ ~conn'.watch
             /\ Head(chain) = "watch" => conn'.watch /\ conn'.stream = conn.stream
    <2>1. conn \in [stream: BOOLEAN, watch: BOOLEAN, episode: {"none", "open", "more"}, callbacks: Nat]
      BY <1>0 DEF Typed
    <2>2. Head(chain) \in {"attach", "detach", "watch"}
      BY <1>0, <1>1, TailIs DEF Typed, Op
    <2>3. CASE pty.ended
      BY <1>1, <2>1, <2>3
    <2>4. CASE ~pty.ended /\ Head(chain) = "attach"
      BY <1>1, <2>1, <2>4
    <2>5. CASE ~pty.ended /\ Head(chain) = "detach"
      BY <1>1, <2>1, <2>5
    <2>6. CASE ~pty.ended /\ Head(chain) = "watch"
      BY <1>1, <2>1, <2>6
    <2> QED
      BY <2>2, <2>3, <2>4, <2>5, <2>6
  <1>4. Head(chain) \in {"attach", "detach", "watch"}
    BY <1>0, <1>1, TailIs DEF Typed, Op
  <1>5. /\ L \in Nat /\ DOMAIN wire = 1..L /\ (\A k \in 1..L: wire[k] \in Message)
        /\ DOMAIN wire' = 1..(L + 1) /\ wire' \in Seq(Message) /\ Len(wire') = L + 1
        /\ \A k \in 1..L: wire'[k] = wire[k]
        /\ wire'[L + 1] = done
    BY <1>0, <1>1, <1>2, WireGrows
  <1>6. \A j \in DOMAIN wire': \/ j \in DOMAIN wire /\ wire'[j] = wire[j]
                               \/ j = L + 1 /\ wire'[j] = done
    BY <1>5
  <1>7. \A j \in DOMAIN wire: j \in DOMAIN wire' /\ wire'[j] = wire[j] /\ j \in 1..L
    BY <1>5
  <1>8. \A j \in DOMAIN wire': IsOutput(wire'[j]) \/ IsScreen(wire'[j]) \/ IsExit(wire'[j])
          => j \in DOMAIN wire /\ wire'[j] = wire[j]
    BY <1>2, <1>6
  <1>9. /\ \A j \in DOMAIN wire: ~IsDone(wire[j])
        /\ \A s \in settled: ~IsDone(s.m)
    BY <1>1 DEF TermInv, ChainInv, OneRequest
  <1>10. Typed'
    BY <1>0, <1>1, <1>3, <1>5 DEF Typed
  <1>11. Ordered'
    BY <1>1, <1>7, <1>8 DEF TermInv, Ordered, IsOutput, IsScreen, IsDone
  <1>12. DownInv'
    BY <1>1 DEF TermInv, DownInv
  <1>13. ChainInv'
    <2>1. \A j \in DOMAIN wire': IsDone(wire'[j]) => j = L + 1
      BY <1>6, <1>9
    <2>2. OneRequest'
      BY <1>1, <1>9, <2>1 DEF OneRequest, IsDone
    <2>3. Cycle' /\ Ends' /\ Watched'
      BY <1>1 DEF TermInv, ChainInv, Cycle, Ends, Watched, Alive, Reading, Waiting
    <2>4. Streams'
      <3> SUFFICES ASSUME Alive, ~pty.ended
                   PROVE  /\ conn'.stream = (Head(chain) = "attach")
                          /\ conn'.watch = (Head(chain) # "detach")
        BY <1>1 DEF Streams, Executed, Alive
      <3>1. /\ conn.stream = (Succ(Succ(Head(chain))) = "attach")
            /\ conn.watch = (Succ(Succ(Head(chain))) # "detach")
        BY <1>1 DEF TermInv, ChainInv, Streams, Executed
      <3>2. conn \in [stream: BOOLEAN, watch: BOOLEAN, episode: {"none", "open", "more"}, callbacks: Nat]
        BY <1>0 DEF Typed
      <3>3. CASE Head(chain) = "attach"
        BY <1>3, <3>1, <3>2, <3>3 DEF Succ
      <3>4. CASE Head(chain) = "detach"
        BY <1>3, <3>1, <3>2, <3>4 DEF Succ
      <3>5. CASE Head(chain) = "watch"
        BY <1>3, <3>1, <3>2, <3>5 DEF Succ
      <3> QED
        BY <1>4, <3>3, <3>4, <3>5
    <2> QED
      BY <2>2, <2>3, <2>4 DEF ChainInv
  <1>14. ExitInv'
    <2>1. (Alive' <=> Alive) /\ Reading' = Reading /\ Waiting' = Waiting
      BY <1>1 DEF Alive, Reading, Waiting
    <2>2. \A j \in DOMAIN wire': IsDone(wire'[j]) => j = L + 1 /\ (wire'[j].ok <=> ~pty.ended)
      BY <1>2, <1>6, <1>9
    <2>3. \/ Alive /\ (pty.ended <=> \E j \in DOMAIN wire: IsExit(wire[j]))
          \/ ~Alive /\ pty.ended /\ \A j \in DOMAIN wire: ~IsExit(wire[j])
      BY <1>0, <1>1 DEF TermInv, ExitInv, Exits, Alive, Typed
    <2>4. \A j \in DOMAIN wire: IsExit(wire[j]) => pty.ended
      BY <2>3
    <2>5. Alive => (pty.ended <=> \E j \in DOMAIN wire': IsExit(wire'[j]))
      BY <1>7, <1>8, <2>3
    <2>6. session # "live" => pty.ended /\ \A j \in DOMAIN wire': ~IsExit(wire'[j])
      BY <1>8 DEF TermInv, ExitInv, Exits
    <2>7. \A i, j \in DOMAIN wire': i < j /\ IsExit(wire'[i]) =>
            ~IsExit(wire'[j]) /\ ~(IsDone(wire'[j]) /\ wire'[j].ok)
      <3> SUFFICES ASSUME NEW i \in DOMAIN wire', NEW j \in DOMAIN wire', i < j, IsExit(wire'[i])
                   PROVE  ~IsExit(wire'[j]) /\ ~(IsDone(wire'[j]) /\ wire'[j].ok)
        OBVIOUS
      <3>1. i \in DOMAIN wire /\ wire'[i] = wire[i] /\ pty.ended
        BY <1>8, <2>4
      <3>2. ~IsExit(wire'[j])
        BY <1>8, <3>1 DEF TermInv, ExitInv, Exits
      <3> QED
        BY <2>2, <3>1, <3>2
    <2>8. Alive => \A j \in DOMAIN wire': IsDone(wire'[j]) /\ ~wire'[j].ok =>
                     \E i \in DOMAIN wire': i < j /\ IsExit(wire'[i])
      <3> SUFFICES ASSUME Alive, NEW j \in DOMAIN wire', IsDone(wire'[j]), ~wire'[j].ok
                   PROVE  \E i \in DOMAIN wire': i < j /\ IsExit(wire'[i])
        OBVIOUS
      <3>1. j = L + 1 /\ \E i \in DOMAIN wire: IsExit(wire[i])
        BY <2>2, <2>3
      <3> QED
        BY <1>5, <1>7, <3>1
    <2>9. Exits'
      BY <1>1, <1>9, <2>1, <2>5, <2>6, <2>7, <2>8 DEF Exits, IsExit, IsDone
    <2>10. Over'
      <3>1. session # "live" => pty.ended
        BY <2>6
      <3> QED
        BY <1>1, <1>9, <2>1, <2>2, <3>1 DEF TermInv, ExitInv, Over, IsDone
    <2> QED
      BY <2>9, <2>10 DEF ExitInv
  <1>15. Episodes'
    BY <1>3 DEF TermInv, Episodes
  <1>16. TurnInv'
    <2>1. (\A r: Outstanding(r)' <=> Outstanding(r)) /\ Unique' /\ Bounded'
      BY <1>0, <1>1, <1>2, TurnsGrow DEF TermInv, TurnInv
    <2>2. \A t \in Tabs: (Syncing(t)' <=> Syncing(t)) /\ Asked(t)' = Asked(t)
      BY <1>1 DEF Syncing, Asked
    <2> QED
      BY <2>1, <2>2 DEF TermInv, TurnInv, Answered
  <1>17. FollowInv'
    <2>1. ~Attachment
      BY <1>1 DEF Attachment
    <2>2. \E m \in Message:
              /\ wire' = Append(wire, m) /\ (~IsDone(m) => taken' = taken)
              /\ \A k \in {Len(wire) + 1}: IsOutput(m) \/ IsScreen(m) => Follows(k, m.n)'
      BY <1>1, <1>2
    <2>3. pty'.out \in Nat /\ pty.out <= pty'.out
      BY <1>0, <1>1 DEF Typed
    <2> QED
      BY <1>1, <2>1, <2>2, <2>3, FollowKept
  <1> QED
    BY <1>10, <1>11, <1>12, <1>13, <1>14, <1>15, <1>16, <1>17 DEF TermInv

LEMMA TakeScreenStep ==
  ASSUME TermInv, TakeScreen
  PROVE  TermInv'
  <1> DEFINE L == Len(wire)
  <1>0. Typed /\ Unique
    BY DEF TermInv, TurnInv
  <1>1. PICK s \in screens:
          /\ screens' = screens \ {s}
          /\ wire' = Append(wire, [t |-> "screen", s |-> s, ok |-> ~pty.ended, n |-> pty.out])
    BY DEF TakeScreen
  <1>2. UNCHANGED <<pty, conn, connected, chain, taken, arrived, settled, running, session, tab, again, shown, spent>>
    BY DEF TakeScreen, replies, tabSide
  <1>3. PICK m: m = [t |-> "screen", s |-> s, ok |-> ~pty.ended, n |-> pty.out]
    OBVIOUS
  <1>4. /\ m \in Message /\ IsScreen(m) /\ ~IsOutput(m) /\ ~IsDone(m) /\ ~IsExit(m)
        /\ m.t = "screen" /\ m.s = s /\ m.n = pty.out /\ s \in Request /\ pty.out \in Nat
        /\ wire' = Append(wire, m)
    <2>1. s \in Request /\ pty.out \in Nat /\ (~pty.ended) \in BOOLEAN
      BY <1>0 DEF Typed
    <2>2. m \in Message
      BY <1>3, <2>1, Messages
    <2> QED
      BY <1>1, <1>3, <2>1, <2>2 DEF IsScreen, IsOutput, IsDone, IsExit
  <1>5. /\ L \in Nat /\ DOMAIN wire = 1..L /\ (\A k \in 1..L: wire[k] \in Message)
        /\ DOMAIN wire' = 1..(L + 1) /\ wire' \in Seq(Message) /\ Len(wire') = L + 1
        /\ \A k \in 1..L: wire'[k] = wire[k]
        /\ wire'[L + 1] = m
    BY <1>0, <1>4, WireGrows
  <1>6. \A j \in DOMAIN wire': \/ j \in DOMAIN wire /\ wire'[j] = wire[j]
                               \/ j = L + 1 /\ wire'[j] = m
    BY <1>5
  <1>7. \A j \in DOMAIN wire: j \in DOMAIN wire' /\ wire'[j] = wire[j] /\ j \in 1..L
    BY <1>5
  <1>8. \A j \in DOMAIN wire': IsOutput(wire'[j]) \/ IsDone(wire'[j]) \/ IsExit(wire'[j])
          => j \in DOMAIN wire /\ wire'[j] = wire[j]
    BY <1>4, <1>6
  <1>9. connected
    BY <1>1 DEF TermInv, DownInv
  <1>10. Typed'
    BY <1>0, <1>1, <1>2, <1>5 DEF Typed
  <1>11. Ordered'
    <2>1. \A j \in DOMAIN wire': IsScreen(wire'[j]) => wire'[j].n <= pty.out
      BY <1>4, <1>6 DEF TermInv, Ordered
    <2> QED
      BY <1>2, <1>7, <1>8, <2>1 DEF TermInv, Ordered, IsOutput, IsScreen, IsDone
  <1>12. DownInv'
    BY <1>2, <1>9 DEF TermInv, DownInv
  <1>13. ChainInv'
    <2>1. OneRequest'
      BY <1>2, <1>7, <1>8 DEF TermInv, ChainInv, OneRequest, IsDone
    <2>2. Cycle' /\ Ends' /\ Watched'
      BY <1>2 DEF TermInv, ChainInv, Cycle, Ends, Watched, Alive, Reading, Waiting
    <2>3. Streams'
      BY <1>2 DEF TermInv, ChainInv, Streams, Executed, Alive, Reading
    <2> QED
      BY <2>1, <2>2, <2>3 DEF ChainInv
  <1>14. ExitInv'
    <2>1. (Alive' <=> Alive) /\ Reading' = Reading /\ Waiting' = Waiting
      BY <1>2 DEF Alive, Reading, Waiting
    <2>2. Exits'
      BY <1>2, <1>7, <1>8, <2>1 DEF TermInv, ExitInv, Exits, IsExit, IsDone
    <2>3. Over'
      BY <1>2, <1>7, <1>8, <2>1 DEF TermInv, ExitInv, Over, IsDone
    <2> QED
      BY <2>2, <2>3 DEF ExitInv
  <1>15. Episodes'
    BY <1>2 DEF TermInv, Episodes
  <1>16. TurnInv'
    <2>1. \A r: OnWire(r)' <=> OnWire(r) \/ r = s
      BY <1>4, <1>6, <1>7, <1>5 DEF OnWire, IsScreen
    <2>2. \A r: Settled(r)' <=> Settled(r)
      BY <1>2 DEF Settled, IsScreen
    <2>3. \A r: Outstanding(r)' <=> Outstanding(r)
      BY <1>1, <2>1, <2>2 DEF Outstanding
    <2>4. Unique'
      <3>1. ~OnWire(s) /\ ~Settled(s)
        BY <1>0, <1>1 DEF Unique
      <3>2. \A i, j \in DOMAIN wire': IsScreen(wire'[i]) /\ IsScreen(wire'[j]) /\ wire'[i].s = wire'[j].s => i = j
        BY <1>0, <1>4, <1>6, <3>1 DEF Unique, OnWire
      <3>3. \A a, b \in settled: IsScreen(a.m) /\ IsScreen(b.m) /\ a.m.s = b.m.s => a = b
        BY <1>0 DEF Unique
      <3>4. \A r \in screens': ~OnWire(r)' /\ ~Settled(r)'
        BY <1>0, <1>1, <2>1, <2>2 DEF Unique
      <3>5. \A r \in Request: OnWire(r)' => ~Settled(r)'
        BY <1>0, <2>1, <2>2, <3>1 DEF Unique
      <3> QED
        BY <1>2, <3>2, <3>3, <3>4, <3>5 DEF Unique, IsScreen
    <2>5. \A t \in Tabs: (Syncing(t)' <=> Syncing(t)) /\ Asked(t)' = Asked(t)
      BY <1>2 DEF Syncing, Asked
    <2>6. Answered' /\ Bounded'
      BY <2>3, <2>5 DEF TermInv, TurnInv, Answered, Bounded
    <2> QED
      BY <2>4, <2>6 DEF TurnInv
  <1>17. FollowInv'
    <2>1. ASSUME NEW i \in 0..Len(wire), NEW n \in Int, Follows(i, n)
          PROVE  Follows(i, n)'
      BY <1>0, <1>2, <1>4, <2>1, FollowsGrows
    <2>2. \A k \in {L + 1}: Follows(k, m.n)'
      BY <1>2, <1>4, <1>5 DEF Follows
    <2>3. pty'.out \in Nat /\ pty.out <= pty'.out
      BY <1>2, <1>4
    <2> QED
      BY <1>2, <1>4, <2>1, <2>2, <2>3, FollowKept
  <1> QED
    BY <1>10, <1>11, <1>12, <1>13, <1>14, <1>15, <1>16, <1>17 DEF TermInv

-----------------------------------------------------------------------------
(* What arrives from deckd.                                                *)

LEMMA ReadIs ==
  ASSUME TermInv, NEW type, Reads(type)
  PROVE  /\ connected /\ ~running /\ wire # <<>> /\ wire' = Tail(wire)
         /\ Head(wire) = wire[1] /\ wire[1].t = type /\ wire[1] \in Message
         /\ wire' \in Seq(Message) /\ Len(wire) \in Nat \ {0} /\ Len(wire') = Len(wire) - 1
         /\ DOMAIN wire = 1..Len(wire) /\ 1 \in DOMAIN wire /\ DOMAIN wire' = 1..(Len(wire) - 1)
         /\ \A j \in DOMAIN wire: wire[j] \in Message
         /\ \A j \in DOMAIN wire': j \in Nat \ {0} /\ j + 1 \in DOMAIN wire /\ wire'[j] = wire[j + 1]
         /\ \A j \in DOMAIN wire: j # 1 => j - 1 \in DOMAIN wire' /\ wire'[j - 1] = wire[j] /\ 1 < j
  <1>1. ~running /\ wire # <<>> /\ wire' = Tail(wire) /\ Head(wire).t = type
    BY DEF Reads
  <1>2. /\ wire' \in Seq(Message) /\ Head(wire) = wire[1] /\ Head(wire) \in Message
        /\ Len(wire) \in Nat \ {0} /\ Len(wire') = Len(wire) - 1
        /\ DOMAIN wire = 1..Len(wire) /\ DOMAIN wire' = 1..(Len(wire) - 1)
        /\ \A i \in 1..(Len(wire) - 1): wire'[i] = wire[i + 1]
        /\ \A i \in 1..Len(wire): wire[i] \in Message
    BY <1>1, WireShrinks DEF TermInv
  <1>3. connected
    BY <1>1 DEF TermInv, DownInv
  <1>4. \A j \in DOMAIN wire: j # 1 => j - 1 \in DOMAIN wire' /\ wire'[j - 1] = wire[j] /\ 1 < j
    <2> SUFFICES ASSUME NEW j \in DOMAIN wire, j # 1
                 PROVE  j - 1 \in DOMAIN wire' /\ wire'[j - 1] = wire[j] /\ 1 < j
      OBVIOUS
    <2>1. j - 1 \in 1..(Len(wire) - 1) /\ (j - 1) + 1 = j /\ 1 < j
      BY <1>2
    <2> QED
      BY <1>2, <2>1
  <1> QED
    BY <1>1, <1>2, <1>3, <1>4

LEMMA WireKept ==
  ASSUME TermInv, NEW type, Reads(type), UNCHANGED <<pty, conn, connected, session, chain, taken>>,
         Reading' = Reading
  PROVE  WireFollows'
  <1> SUFFICES ASSUME Attachment', NEW i \in DOMAIN wire', Since(i)', IsOutput(wire[i])'
               PROVE  Follows(i, wire[i].n)'
    BY DEF WireFollows
  <1>1. Attachment /\ Typed
    BY DEF Attachment, Alive, TermInv
  <1>2. i \in Nat \ {0} /\ i + 1 \in DOMAIN wire /\ wire'[i] = wire[i + 1] /\ IsOutput(wire[i + 1])
    BY ReadIs DEF IsOutput
  <1>3. Since(i + 1)
    <2> SUFFICES ASSUME NEW k \in (i + 1)..Len(wire) PROVE ~IsDone(wire[k])
      BY DEF Since
    <2>1. k - 1 \in i..Len(wire') /\ k \in DOMAIN wire /\ k # 1
      BY <1>2, ReadIs
    <2>2. wire'[k - 1] = wire[k]
      BY <2>1, ReadIs
    <2> QED
      BY <2>1, <2>2 DEF Since, IsDone
  <1>4. Follows(i + 1, wire[i + 1].n)
    BY <1>1, <1>2, <1>3 DEF TermInv, FollowInv, WireFollows
  <1>5. PICK n: n = wire[i + 1].n
    OBVIOUS
  <1>6. wire # <<>> /\ wire' = Tail(wire)
    BY ReadIs
  <1>7. Follows(i, n)'
    BY <1>1, <1>2, <1>4, <1>5, <1>6, FollowsShrinks
  <1> QED
    BY <1>2, <1>5, <1>7

LEMMA EventRead ==
  ASSUME TermInv, NEW type \in {"output", "dropped"}, Reads(type),
         UNCHANGED <<pty, conn, connected, session, chain, taken, settled>>,
         Reading' = Reading, Waiting' = Waiting
  PROVE  ChainInv' /\ ExitInv' /\ Episodes' /\ WireFollows'
  <1>1. WireFollows'
    BY WireKept
  <1>2. Episodes'
    BY DEF TermInv, Episodes
  <1>3. (Alive' <=> Alive) /\ connected
    BY ReadIs DEF Alive
  <1>4. ~IsDone(wire[1]) /\ ~IsExit(wire[1])
    BY ReadIs DEF IsDone, IsExit
  <1>5. \A j \in DOMAIN wire': j \in Nat /\ j + 1 \in DOMAIN wire /\ wire'[j] = wire[j + 1]
    BY ReadIs
  <1>6. \A j \in DOMAIN wire: j # 1 => j \in Nat /\ j - 1 \in DOMAIN wire' /\ wire'[j - 1] = wire[j]
    BY ReadIs
  <1>7. ChainInv'
    <2>1. OneRequest'
      BY <1>5 DEF TermInv, ChainInv, OneRequest, IsDone
    <2>2. Cycle' /\ Ends' /\ Watched' /\ Streams'
      BY <1>3 DEF TermInv, ChainInv, Cycle, Ends, Watched, Streams, Executed
    <2> QED
      BY <2>1, <2>2 DEF ChainInv
  <1>8. ExitInv'
    <2>1. Exits /\ Over
      BY DEF TermInv, ExitInv
    <2>2. Alive => (pty.ended <=> \E j \in DOMAIN wire': IsExit(wire'[j]))
      BY <1>4, <1>5, <1>6, <2>1 DEF Exits
    <2>3. session # "live" => pty.ended /\ \A j \in DOMAIN wire': ~IsExit(wire'[j])
      BY <1>5, <2>1 DEF Exits
    <2>4. \A i, j \in DOMAIN wire': i < j /\ IsExit(wire'[i]) =>
            ~IsExit(wire'[j]) /\ ~(IsDone(wire'[j]) /\ wire'[j].ok)
      BY <1>5, <2>1 DEF Exits
    <2>5. Alive => \A j \in DOMAIN wire': IsDone(wire'[j]) /\ ~wire'[j].ok =>
                     \E i \in DOMAIN wire': i < j /\ IsExit(wire'[i])
      <3> SUFFICES ASSUME Alive, NEW j \in DOMAIN wire', IsDone(wire'[j]), ~wire'[j].ok
                   PROVE  \E i \in DOMAIN wire': i < j /\ IsExit(wire'[i])
        OBVIOUS
      <3>1. PICK i \in DOMAIN wire: i < j + 1 /\ IsExit(wire[i])
        BY <1>5, <2>1 DEF Exits
      <3>2. i - 1 \in DOMAIN wire' /\ wire'[i - 1] = wire[i] /\ i - 1 < j
        BY <1>4, <1>5, <1>6, <3>1
      <3> QED
        BY <3>1, <3>2
    <2>6. Exits'
      BY <1>3, <2>1, <2>2, <2>3, <2>4, <2>5 DEF Exits, IsExit, IsDone
    <2>7. Over'
      BY <1>3, <1>5, <2>1 DEF Over, IsDone
    <2> QED
      BY <2>6, <2>7 DEF ExitInv
  <1> QED
    BY <1>1, <1>2, <1>7, <1>8

(* What a tab shows after one more chunk.                                  *)
LEMMA OneShown ==
  ASSUME NEW old \in Int, NEW n \in Nat
  PROVE  /\ AllShown(old, <<n>>) \in Int
         /\ n = old + 1 => AllShown(old, <<n>>) = n
  <1>1. Len(<<n>>) = 1 /\ <<n>>[1] = n /\ 1..Len(<<n>>) = {1}
    OBVIOUS
  <1>2. ASSUME n = old + 1
        PROVE  <<n>> = [i \in 1..Len(<<n>>) |-> old + i]
    BY <1>1, <1>2
  <1> QED
    BY <1>1, <1>2 DEF AllShown, Torn

LEMMA OnOutputStep ==
  ASSUME TermInv, OnOutput
  PROVE  TermInv'
  <1> DEFINE fed == {t \in Tabs: tab[t].at = "live" /\ ~tab[t].dropping}
             n == Head(wire).n
  <1>0. Typed /\ TermInv /\ Reads("output")
    BY DEF TermInv, OnOutput
  <1>1. /\ connected /\ wire # <<>> /\ wire' = Tail(wire) /\ Head(wire) = wire[1] /\ wire[1].t = "output"
        /\ IsOutput(wire[1]) /\ ~IsScreen(Head(wire)) /\ n \in Nat /\ wire' \in Seq(Message)
        /\ 1 \in DOMAIN wire
    BY <1>0, ReadIs, MessageIs DEF IsOutput, IsScreen
  <1>2. PICK slow \in SUBSET fed:
          /\ Slow(slow)
          /\ tab' = [t \in Tabs |->
               IF tab[t].at = "syncing" THEN [tab[t] EXCEPT !.buffer = Append(@, n)]
               ELSE [tab[t] EXCEPT !.dropping = @ \/ t \in slow]]
          /\ shown' = [t \in Tabs |-> IF t \in fed \ slow THEN AllShown(shown[t], <<n>>) ELSE shown[t]]
    BY <1>1 DEF OnOutput
  <1>3. /\ arrived' = n
        /\ UNCHANGED <<pty, conn, connected, screens, chain, taken, settled, running, session>>
    BY <1>1 DEF OnOutput, ptySide, replies
  <1>4. \A t \in Tabs: tab[t] \in TabRecord
    BY <1>0 DEF Typed
  <1>5. \A t \in Tabs:
          /\ tab'[t] \in TabRecord
          /\ tab'[t].at = tab[t].at /\ tab'[t].ready = tab[t].ready /\ tab'[t].turn = tab[t].turn
          /\ IF tab[t].at = "syncing"
             THEN tab'[t].buffer = Append(tab[t].buffer, n) /\ tab'[t].dropping = tab[t].dropping
             ELSE tab'[t].buffer = tab[t].buffer /\ tab'[t].dropping = (tab[t].dropping \/ t \in slow)
    <2> SUFFICES ASSUME NEW t \in Tabs
                 PROVE  /\ tab'[t] \in TabRecord
                        /\ tab'[t].at = tab[t].at /\ tab'[t].ready = tab[t].ready /\ tab'[t].turn = tab[t].turn
                        /\ IF tab[t].at = "syncing"
                           THEN tab'[t].buffer = Append(tab[t].buffer, n) /\ tab'[t].dropping = tab[t].dropping
                           ELSE /\ tab'[t].buffer = tab[t].buffer
                                /\ tab'[t].dropping = (tab[t].dropping \/ t \in slow)
      OBVIOUS
    <2>1. CASE tab[t].at = "syncing"
      <3>1. tab'[t] = [tab[t] EXCEPT !.buffer = Append(@, n)]
        BY <1>2, <2>1
      <3>2. Append(tab[t].buffer, n) \in Seq(Nat)
        BY <1>1, <1>4, AppendIs DEF TabRecord
      <3> QED
        BY <1>4, <2>1, <3>1, <3>2 DEF TabRecord
    <2>2. CASE tab[t].at # "syncing"
      <3>1. tab'[t] = [tab[t] EXCEPT !.dropping = @ \/ t \in slow]
        BY <1>2, <2>2
      <3>2. (tab[t].dropping \/ t \in slow) \in BOOLEAN
        OBVIOUS
      <3> QED
        BY <1>4, <2>2, <3>1, <3>2 DEF TabRecord
    <2> QED
      BY <2>1, <2>2
  <1>6. /\ Reading' = Reading /\ Waiting' = Waiting /\ (Alive' <=> Alive)
        /\ \A t \in Tabs: /\ Attached(t)' <=> Attached(t)
                          /\ Syncing(t)' <=> Syncing(t)
                          /\ Asked(t)' = Asked(t)
    BY <1>3, <1>5 DEF Reading, Waiting, Alive, Attached, Syncing, Asked
  <1>7. arrived < n /\ n <= pty.out /\ arrived \in Nat /\ pty.out \in Nat
    BY <1>0, <1>1 DEF TermInv, Ordered, Typed
  <1>8. tab' \in [Tabs -> TabRecord]
    BY <1>2, <1>5
  <1>9. \A t \in Tabs: shown[t] \in Int /\ shown'[t] \in Int
    <2>1. \A t \in Tabs: shown[t] \in Int
      BY <1>0 DEF Typed
    <2>2. \A t \in Tabs: AllShown(shown[t], <<n>>) \in Int
      BY <1>1, <2>1, OneShown
    <2> QED
      BY <1>2, <2>1, <2>2
  <1>10. Typed'
    <2>1. again' \subseteq Tabs /\ spent' \in Nat
      BY <1>0, <1>2 DEF Slow, Spend, Typed
    <2>2. shown' \in [Tabs -> Int]
      BY <1>2, <1>9
    <2> QED
      BY <1>0, <1>1, <1>3, <1>7, <1>8, <2>1, <2>2 DEF Typed
  <1>11. Ordered'
    <2>1. Ordered
      BY DEF TermInv
    <2>2. \A j \in DOMAIN wire': j \in Nat /\ 1 < j + 1 /\ j + 1 \in DOMAIN wire /\ wire'[j] = wire[j + 1]
      BY <1>0, ReadIs
    <2>3. \A j \in DOMAIN wire': IsOutput(wire'[j]) => n < wire'[j].n /\ wire'[j].n <= pty.out
      BY <1>1, <2>1, <2>2 DEF Ordered
    <2>4. \A i, j \in DOMAIN wire': i < j /\ IsOutput(wire'[i]) /\ IsOutput(wire'[j]) => wire'[i].n < wire'[j].n
      BY <2>1, <2>2 DEF Ordered
    <2>5. \A j \in DOMAIN wire': IsScreen(wire'[j]) => wire'[j].n <= pty.out
      BY <2>1, <2>2 DEF Ordered
    <2>6. \A s \in settled: s.seam <= n
      BY <1>0, <1>1, <1>7, <2>1 DEF Ordered, Typed
    <2>7. \A t \in Tabs: \A i \in DOMAIN tab'[t].buffer: tab'[t].buffer[i] <= n
      <3> SUFFICES ASSUME NEW t \in Tabs, NEW i \in DOMAIN tab'[t].buffer
                   PROVE  tab'[t].buffer[i] <= n
        OBVIOUS
      <3>1. tab[t].buffer \in Seq(Nat)
        BY <1>4 DEF TabRecord
      <3>2. \A k \in DOMAIN tab[t].buffer: tab[t].buffer[k] \in Nat /\ tab[t].buffer[k] <= n
        BY <1>1, <1>7, <2>1, <3>1, LastIs DEF Ordered
      <3>3. CASE tab[t].at = "syncing"
        <4>1. tab'[t].buffer = Append(tab[t].buffer, n)
          BY <1>5, <3>3
        <4>2. /\ DOMAIN tab[t].buffer = 1..Len(tab[t].buffer) /\ Len(tab[t].buffer) \in Nat
              /\ i \in 1..(Len(tab[t].buffer) + 1)
              /\ \A k \in 1..Len(tab[t].buffer): tab'[t].buffer[k] = tab[t].buffer[k]
              /\ tab'[t].buffer[Len(tab[t].buffer) + 1] = n
          BY <1>1, <3>1, <4>1, AppendIs
        <4>3. i \in 1..Len(tab[t].buffer) \/ i = Len(tab[t].buffer) + 1
          BY <4>2
        <4> QED
          BY <1>1, <3>2, <4>2, <4>3
      <3>4. CASE tab[t].at # "syncing"
        BY <1>5, <3>2, <3>4
      <3> QED
        BY <3>3, <3>4
    <2> QED
      BY <1>3, <2>1, <2>3, <2>4, <2>5, <2>6, <2>7 DEF Ordered, IsOutput, IsScreen, IsDone
  <1>12. DownInv'
    BY <1>1, <1>3, <1>5 DEF TermInv, DownInv
  <1>13. ChainInv' /\ ExitInv' /\ Episodes' /\ WireFollows'
    BY <1>0, <1>3, <1>6, EventRead
  <1>14. TurnInv'
    <2>1. (\A r: Outstanding(r)' <=> Outstanding(r)) /\ Unique' /\ Bounded'
      BY <1>0, <1>1, <1>3, TurnsShrink DEF TermInv, TurnInv
    <2> QED
      BY <1>6, <2>1 DEF TermInv, TurnInv, Answered
  <1>15. ASSUME NEW t \in Tabs, Attached(t) \/ Syncing(t)
         PROVE  /\ Alive
                /\ \A x: x = n => Follows(0, x)'
    <2>1. Alive /\ Attachment /\ Since(1)
      BY <1>0, <1>15, ReadyIs DEF Attached, Syncing
    <2>2. Follows(1, n)
      BY <1>1, <2>1 DEF TermInv, FollowInv, WireFollows
    <2> QED
      BY <1>0, <1>1, <1>3, <2>1, <2>2, FollowsShrinks, 0 + 1 = 1
  <1>16. ASSUME NEW t \in Tabs, Attached(t), ~tab'[t].dropping
         PROVE  shown'[t] = n
    <2>1. t \in fed \ slow /\ ~tab[t].dropping
      BY <1>4, <1>5, <1>16 DEF Attached, TabRecord
    <2>2. Follows(0, shown[t])
      BY <1>15, <1>16, <2>1 DEF TermInv, FollowInv, LiveFollows
    <2>3. n = shown[t] + 1
      BY <1>0, <1>1, <2>2, HeadFollows
    <2> QED
      BY <1>1, <1>2, <1>9, <2>1, <2>3, OneShown
  <1>17. LiveFollows'
    <2> SUFFICES ASSUME NEW t \in Tabs, Attached(t)', ~tab'[t].dropping
                 PROVE  Follows(0, shown[t])'
      BY DEF LiveFollows
    <2>1. Attached(t)
      BY <1>6
    <2> QED
      BY <1>15, <1>16, <2>1
  <1>18. ScreenFollows'
    <2> SUFFICES ASSUME Alive', NEW t \in Tabs, Syncing(t)', NEW j \in DOMAIN wire',
                        IsScreen(wire[j])', wire'[j].s = Asked(t)', wire'[j].ok
                 PROVE  Follows(j, wire[j].n)'
      BY DEF ScreenFollows
    <2>1. j \in Nat /\ j + 1 \in DOMAIN wire /\ wire'[j] = wire[j + 1] /\ IsScreen(wire[j + 1])
      BY <1>0, ReadIs DEF IsScreen
    <2>2. Follows(j + 1, wire[j + 1].n)
      BY <1>6, <2>1 DEF TermInv, FollowInv, ScreenFollows
    <2>3. PICK x: x = wire[j + 1].n
      OBVIOUS
    <2>4. Follows(j, x)'
      BY <1>0, <1>1, <1>3, <2>1, <2>2, <2>3, FollowsShrinks
    <2> QED
      BY <2>1, <2>3, <2>4
  <1>19. LateFollows'
    <2> SUFFICES ASSUME Alive', NEW t \in Tabs, Syncing(t)', NEW s \in settled,
                        IsScreen(s.m), s.m.s = Asked(t)', s.m.ok
                 PROVE  LET late == Later(tab'[t].buffer, s.seam)
                        IN  /\ \A i \in 1..Len(late): late[i] = s.m.n + i
                            /\ \A x: x = s.m.n + Len(late) => Follows(0, x)'
      BY <1>3 DEF LateFollows, IsScreen
    <2> DEFINE late == Later(tab[t].buffer, s.seam)
    <2>1. Syncing(t) /\ s.m.s = Asked(t) /\ Alive
      BY <1>6
    <2>2. /\ \A i \in 1..Len(late): late[i] = s.m.n + i
          /\ Follows(0, s.m.n + Len(late))
      BY <2>1 DEF TermInv, FollowInv, LateFollows
    <2>3. n = (s.m.n + Len(late)) + 1
      BY <1>0, <1>1, <2>2, HeadFollows
    <2>4. tab[t].buffer \in Seq(Nat) /\ s.seam \in Nat /\ s.seam <= arrived /\ s.m.n \in Nat
      BY <1>0, <1>4, MessageIs DEF Typed, TermInv, Ordered, TabRecord
    <2>5. Later(Append(tab[t].buffer, n), s.seam) = Append(late, n) /\ late \in Seq(Nat)
      <3>1. n > s.seam
        BY <1>1, <1>7, <2>4
      <3> QED
        BY <1>1, <2>4, <3>1, LaterIs
    <2>6. Later(tab'[t].buffer, s.seam) = Append(late, n)
      BY <1>5, <2>1, <2>5 DEF Syncing
    <2> HIDE DEF late
    <2>7. /\ Len(late) \in Nat /\ Len(Append(late, n)) = Len(late) + 1
          /\ (\A i \in 1..Len(late): Append(late, n)[i] = late[i]) /\ Append(late, n)[Len(late) + 1] = n
      BY <1>1, <2>5, AppendIs
    <2>8. ASSUME NEW i \in 1..Len(Append(late, n)) PROVE Append(late, n)[i] = s.m.n + i
      <3>1. CASE i \in 1..Len(late)
        BY <2>2, <2>7, <3>1
      <3>2. CASE i = Len(late) + 1
        <4>1. s.m.n \in Nat /\ Len(late) \in Nat
          BY <2>4, <2>7
        <4>2. s.m.n + (Len(late) + 1) = n
          BY <2>3, <4>1
        <4>3. Append(late, n)[i] = n
          BY <2>7, <3>2
        <4> QED
          BY <3>2, <4>2, <4>3
      <3> QED
        BY <2>7, <3>1, <3>2
    <2>9. s.m.n + Len(Append(late, n)) = n
      BY <2>3, <2>4, <2>7
    <2>10. \A x: x = n => Follows(0, x)'
      BY <1>15, <2>1
    <2> QED
      BY <2>6, <2>8, <2>9, <2>10
  <1>20. ShownInv'
    <2> SUFFICES ASSUME NEW t \in Tabs, Attached(t)' PROVE shown'[t] \in 0..pty'.out
      BY DEF ShownInv
    <2>1. Attached(t) /\ tab[t].at = "live"
      BY <1>6 DEF Attached
    <2>2. CASE ~tab'[t].dropping
      BY <1>1, <1>3, <1>7, <1>16, <2>1, <2>2
    <2>3. CASE tab'[t].dropping
      <3>1. t \notin fed \ slow
        BY <1>4, <1>5, <2>1, <2>3 DEF TabRecord
      <3> QED
        BY <1>2, <1>3, <2>1, <3>1 DEF TermInv, FollowInv, ShownInv
    <2> QED
      BY <2>2, <2>3
  <1> QED
    BY <1>10, <1>11, <1>12, <1>13, <1>14, <1>17, <1>18, <1>19, <1>20 DEF TermInv, FollowInv

LEMMA SyncedIs ==
  ASSUME Typed, NEW T \in SUBSET Tabs, NEW ready \in BOOLEAN, Synced(T, ready),
         \A t \in T: NextTurn(t) \in Nat
  PROVE  /\ tab' \in [Tabs -> TabRecord]
         /\ \A t \in T: /\ tab'[t].at = "syncing" /\ tab'[t].ready = (tab[t].ready \/ ready)
                        /\ tab'[t].turn = NextTurn(t) /\ tab'[t].buffer = <<>>
         /\ \A t \in Tabs \ T: tab'[t] = tab[t]
  <1>1. \A t \in Tabs: tab[t] \in TabRecord
    BY DEF Typed
  <1>2. tab' = [t \in Tabs |-> IF t \in T
               THEN [tab[t] EXCEPT !.at = "syncing", !.ready = @ \/ ready,
                                   !.turn = NextTurn(t), !.buffer = <<>>]
               ELSE tab[t]]
    BY DEF Synced
  <1>3. ASSUME NEW t \in T
        PROVE  /\ tab'[t] \in TabRecord
               /\ tab'[t].at = "syncing" /\ tab'[t].ready = (tab[t].ready \/ ready)
               /\ tab'[t].turn = NextTurn(t) /\ tab'[t].buffer = <<>>
    <2>1. tab'[t] = [tab[t] EXCEPT !.at = "syncing", !.ready = @ \/ ready,
                                   !.turn = NextTurn(t), !.buffer = <<>>]
      BY <1>2
    <2>2. tab[t] \in TabRecord /\ (tab[t].ready \/ ready) \in BOOLEAN /\ NextTurn(t) \in Nat
      BY <1>1
    <2>3. <<>> \in Seq(Nat)
      OBVIOUS
    <2> QED
      BY <2>1, <2>2, <2>3 DEF TabRecord
  <1>4. \A t \in Tabs \ T: tab'[t] = tab[t]
    BY <1>2
  <1>5. \A t \in Tabs: tab'[t] \in TabRecord
    BY <1>1, <1>3, <1>4
  <1> QED
    BY <1>2, <1>3, <1>4, <1>5

LEMMA RemovedIs ==
  ASSUME Typed, NEW T \in SUBSET Tabs, Removed(T)
  PROVE  /\ tab' \in [Tabs -> TabRecord]
         /\ \A t \in T: tab'[t].at = "off" /\ ~tab'[t].ready /\ tab'[t].buffer = <<>>
         /\ \A t \in Tabs \ T: tab'[t] = tab[t]
         /\ Reading' = Reading \ T /\ Waiting' = Waiting \ T
         /\ \A t \in Tabs: /\ Attached(t)' <=> Attached(t) /\ t \notin T
                           /\ Syncing(t)' <=> Syncing(t) /\ t \notin T
  <1>1. NoTab \in TabRecord /\ NoTab.at = "off" /\ ~NoTab.ready /\ NoTab.buffer = <<>>
    BY DEF NoTab, TabRecord
  <1>2. tab' = [t \in Tabs |-> IF t \in T THEN NoTab ELSE tab[t]]
    BY DEF Removed
  <1>3. /\ tab' \in [Tabs -> TabRecord]
        /\ \A t \in T: tab'[t].at = "off" /\ ~tab'[t].ready /\ tab'[t].buffer = <<>>
        /\ \A t \in Tabs \ T: tab'[t] = tab[t]
    BY <1>1, <1>2 DEF Typed
  <1>4. \A t \in Tabs: /\ Attached(t)' <=> Attached(t) /\ t \notin T
                       /\ Syncing(t)' <=> Syncing(t) /\ t \notin T
    BY <1>3 DEF Attached, Syncing
  <1> QED
    BY <1>3, <1>4 DEF Reading, Waiting

LEMMA OnDroppedStep ==
  ASSUME TermInv, OnDropped
  PROVE  TermInv'
  <1>0. Typed /\ Unique /\ Reads("dropped") /\ Reading \in SUBSET Tabs /\ Synced(Reading, FALSE)
    BY DEF TermInv, TurnInv, OnDropped, Reading
  <1>1. /\ connected /\ wire # <<>> /\ wire' = Tail(wire) /\ Head(wire) = wire[1] /\ wire[1].t = "dropped"
        /\ ~IsScreen(Head(wire)) /\ wire' \in Seq(Message)
    BY <1>0, ReadIs DEF IsScreen
  <1>2. UNCHANGED <<pty, conn, connected, chain, taken, arrived, settled, running, session, again, shown, spent>>
    BY DEF OnDropped, ptySide, replies
  <1>3. screens' = screens \cup {[tab |-> t, turn |-> NextTurn(t)]: t \in Reading}
    BY <1>0 DEF Synced
  <1>4. /\ \A r: (OnWire(r)' <=> OnWire(r)) /\ (Settled(r)' <=> Settled(r))
        /\ RepliesOnce'
    BY <1>0, <1>1, <1>2, RepliesShrink
  <1>5. /\ \A t \in Reading: NextTurn(t) \in Nat
        /\ screens' \subseteq Request /\ Unique' /\ Bounded'
        /\ \A t \in Reading: \A a: a = [tab |-> t, turn |-> NextTurn(t)] =>
             Outstanding(a)' /\ ~OnWire(a)' /\ ~Settled(a)'
    BY <1>0, <1>3, <1>4, TurnsAsk
  <1>6. /\ tab' \in [Tabs -> TabRecord]
        /\ \A t \in Reading: /\ tab'[t].at = "syncing" /\ tab'[t].ready = (tab[t].ready \/ FALSE)
                             /\ tab'[t].turn = NextTurn(t) /\ tab'[t].buffer = <<>>
        /\ \A t \in Tabs \ Reading: tab'[t] = tab[t]
    BY <1>0, <1>5, SyncedIs
  <1>7. /\ Reading' = Reading /\ Waiting' = Waiting
        /\ \A t \in Tabs: ~Attached(t)'
        /\ \A t \in Tabs: Syncing(t)' => t \in Reading
        /\ \A t \in Reading: Asked(t)' = [tab |-> t, turn |-> NextTurn(t)]
    BY <1>6 DEF Reading, Waiting, Attached, Syncing, Asked
  <1>8. \A t \in Tabs: Syncing(t)' => Outstanding(Asked(t))' /\ ~OnWire(Asked(t))' /\ ~Settled(Asked(t))'
    BY <1>5, <1>7
  <1>10. Typed'
    BY <1>0, <1>1, <1>2, <1>5, <1>6 DEF Typed
  <1>11. Ordered'
    <2>1. Ordered
      BY DEF TermInv
    <2>2. \A j \in DOMAIN wire': j \in Nat /\ j + 1 \in DOMAIN wire /\ wire'[j] = wire[j + 1]
      BY <1>0, ReadIs
    <2>3. \A t \in Tabs: \A i \in DOMAIN tab'[t].buffer: tab'[t].buffer[i] <= arrived
      BY <1>6, <2>1 DEF Ordered
    <2>4. \A i, j \in DOMAIN wire': i < j /\ IsOutput(wire'[i]) /\ IsOutput(wire'[j]) => wire'[i].n < wire'[j].n
      BY <2>1, <2>2 DEF Ordered
    <2> QED
      BY <1>2, <2>1, <2>2, <2>3, <2>4 DEF Ordered, IsOutput, IsScreen, IsDone
  <1>12. DownInv'
    BY <1>1, <1>2, <1>6 DEF TermInv, DownInv, Reading
  <1>13. ChainInv' /\ ExitInv' /\ Episodes' /\ WireFollows'
    BY <1>0, <1>2, <1>7, EventRead
  <1>14. TurnInv'
    BY <1>5, <1>8 DEF TurnInv, Answered
  <1>15. LiveFollows' /\ ShownInv'
    BY <1>7 DEF LiveFollows, ShownInv
  <1>16. ScreenFollows'
    BY <1>8 DEF ScreenFollows, OnWire
  <1>17. LateFollows'
    BY <1>8 DEF LateFollows, Settled
  <1> QED
    BY <1>10, <1>11, <1>12, <1>13, <1>14, <1>15, <1>16, <1>17 DEF TermInv, FollowInv

LEMMA OnExitStep ==
  ASSUME TermInv, OnExit
  PROVE  TermInv'
  <1>0. Typed /\ Unique /\ Reads("exit") /\ Reading \in SUBSET Tabs /\ Removed(Reading)
    BY DEF TermInv, TurnInv, OnExit, Reading
  <1>1. /\ connected /\ wire # <<>> /\ wire' = Tail(wire) /\ Head(wire) = wire[1] /\ IsExit(wire[1])
        /\ ~IsScreen(Head(wire)) /\ ~IsDone(wire[1]) /\ wire' \in Seq(Message) /\ 1 \in DOMAIN wire
        /\ \A j \in DOMAIN wire': j \in Nat /\ 1 < j + 1 /\ j + 1 \in DOMAIN wire /\ wire'[j] = wire[j + 1]
    BY <1>0, ReadIs DEF IsScreen, IsExit, IsDone
  <1>2. /\ session' = "told"
        /\ UNCHANGED <<pty, conn, connected, screens, chain, taken, arrived, settled, running, again, shown, spent>>
    BY DEF OnExit, ptySide, replies
  <1>3. /\ tab' \in [Tabs -> TabRecord]
        /\ \A t \in Reading: tab'[t].at = "off" /\ ~tab'[t].ready /\ tab'[t].buffer = <<>>
        /\ \A t \in Tabs \ Reading: tab'[t] = tab[t]
        /\ Reading' = {} /\ Waiting' = {}
        /\ \A t \in Tabs: /\ Attached(t)' <=> Attached(t) /\ t \notin Reading
                          /\ Syncing(t)' <=> Syncing(t) /\ t \notin Reading
    <2>1. Waiting \subseteq Reading
      BY DEF Waiting
    <2> QED
      BY <1>0, <2>1, RemovedIs
  <1>4. \A t \in Tabs: ~Attached(t)' /\ ~Syncing(t)'
    BY <1>3 DEF Attached, Syncing, Reading
  <1>5. ~Alive'
    BY <1>2 DEF Alive
  <1>10. Typed'
    BY <1>0, <1>1, <1>2, <1>3 DEF Typed
  <1>11. Ordered'
    <2>1. Ordered
      BY DEF TermInv
    <2>2. \A t \in Tabs: \A i \in DOMAIN tab'[t].buffer: tab'[t].buffer[i] <= arrived
      BY <1>3, <2>1 DEF Ordered
    <2>3. \A i, j \in DOMAIN wire': i < j /\ IsOutput(wire'[i]) /\ IsOutput(wire'[j]) => wire'[i].n < wire'[j].n
      BY <1>1, <2>1 DEF Ordered
    <2> QED
      BY <1>1, <1>2, <2>1, <2>2, <2>3 DEF Ordered, IsOutput, IsScreen, IsDone
  <1>12. DownInv'
    BY <1>1, <1>2, <1>3 DEF TermInv, DownInv
  <1>13. ChainInv'
    <2>1. OneRequest'
      BY <1>1, <1>2 DEF TermInv, ChainInv, OneRequest, IsDone
    <2>2. Cycle' /\ Ends' /\ Streams'
      BY <1>5 DEF Cycle, Ends, Streams
    <2>3. Watched'
      BY <1>2 DEF TermInv, ChainInv, Watched
    <2> QED
      BY <2>1, <2>2, <2>3 DEF ChainInv
  <1>14. ExitInv'
    <2>1. Exits
      BY DEF TermInv, ExitInv
    <2>2. Alive
      BY <1>1, <2>1 DEF Exits, Alive
    <2>3. pty.ended
      BY <1>1, <2>1, <2>2 DEF Exits
    <2>4. \A j \in DOMAIN wire': ~IsExit(wire'[j]) /\ ~(IsDone(wire'[j]) /\ wire'[j].ok)
      BY <1>1, <2>1 DEF Exits
    <2>5. Exits'
      BY <1>2, <1>5, <2>3, <2>4 DEF Exits, IsExit
    <2>6. Over'
      BY <1>2, <1>3, <2>4 DEF Over, IsDone
    <2> QED
      BY <2>5, <2>6 DEF ExitInv
  <1>15. Episodes'
    BY <1>2 DEF TermInv, Episodes
  <1>16. TurnInv'
    <2>1. Unique' /\ Bounded'
      BY <1>0, <1>1, <1>2, TurnsShrink DEF TermInv, TurnInv
    <2> QED
      BY <1>4, <2>1 DEF TurnInv, Answered
  <1>17. FollowInv'
    BY <1>4, <1>5 DEF FollowInv, WireFollows, LiveFollows, ScreenFollows, LateFollows, ShownInv, Attachment
  <1> QED
    BY <1>10, <1>11, <1>12, <1>13, <1>14, <1>15, <1>16, <1>17 DEF TermInv

LEMMA OnReplyStep ==
  ASSUME TermInv, OnReply
  PROVE  TermInv'
  <1> DEFINE new == [m |-> wire[1], seam |-> arrived]
  <1>0. Typed /\ Unique
    BY DEF TermInv, TurnInv
  <1>1. PICK type \in {"done", "screen"}: Reads(type)
    BY DEF OnReply
  <1>2. /\ connected /\ wire # <<>> /\ wire' = Tail(wire) /\ Head(wire) = wire[1] /\ wire[1] \in Message
        /\ wire[1].t \notin {"output", "dropped"} /\ ~IsExit(wire[1]) /\ ~IsOutput(wire[1])
        /\ IsDone(wire[1]) \/ IsScreen(wire[1])
        /\ wire' \in Seq(Message) /\ 1 \in DOMAIN wire
        /\ \A j \in DOMAIN wire': j \in Nat /\ 1 < j + 1 /\ j + 1 \in DOMAIN wire /\ wire'[j] = wire[j + 1]
        /\ \A j \in DOMAIN wire: j # 1 => j \in Nat /\ j - 1 \in DOMAIN wire' /\ wire'[j - 1] = wire[j] /\ 1 < j
    BY <1>1, ReadIs DEF IsExit, IsOutput, IsDone, IsScreen
  <1>3. /\ settled' = settled \cup {new}
        /\ UNCHANGED <<pty, conn, connected, screens, chain, taken, arrived, running, session, tab, again, shown, spent>>
    BY <1>2 DEF OnReply, ptySide, tabSide
  <1>4. /\ Reading' = Reading /\ Waiting' = Waiting /\ (Alive' <=> Alive)
        /\ \A t \in Tabs: /\ Attached(t)' <=> Attached(t)
                          /\ Syncing(t)' <=> Syncing(t)
                          /\ Asked(t)' = Asked(t)
    BY <1>3 DEF Reading, Waiting, Alive, Attached, Syncing, Asked
  <1>5. new.m = wire[1] /\ new.seam = arrived /\ new \in [m: Message, seam: Nat]
    BY <1>0, <1>2 DEF Typed
  <1>6. \A s \in settled': s \in settled \/ (s.m = wire[1] /\ s.seam = arrived)
    BY <1>3, <1>5
  <1>10. Typed'
    BY <1>0, <1>2, <1>3, <1>5 DEF Typed
  <1>11. Ordered'
    <2>1. Ordered
      BY DEF TermInv
    <2>2. \A i, j \in DOMAIN wire': i < j /\ IsOutput(wire'[i]) /\ IsOutput(wire'[j]) => wire'[i].n < wire'[j].n
      BY <1>2, <2>1 DEF Ordered
    <2>3. \A s \in settled': s.seam <= arrived /\ (IsScreen(s.m) => s.m.n <= pty.out)
      BY <1>0, <1>2, <1>6, <2>1 DEF Ordered, Typed
    <2>4. \A s \in settled': IsDone(s.m) \/ IsScreen(s.m)
      BY <1>2, <1>6, <2>1 DEF Ordered
    <2> QED
      BY <1>2, <1>3, <2>1, <2>2, <2>3, <2>4 DEF Ordered, IsOutput, IsScreen, IsDone
  <1>12. DownInv'
    BY <1>2, <1>3 DEF TermInv, DownInv
  <1>13. ChainInv'
    <2>1. OneRequest
      BY DEF TermInv, ChainInv
    <2>2. CASE IsDone(wire[1])
      <3>1. taken /\ (\A s \in settled: ~IsDone(s.m)) /\ \A j \in DOMAIN wire': ~IsDone(wire'[j])
        BY <1>2, <2>1, <2>2 DEF OneRequest
      <3>2. \A s \in settled': IsDone(s.m) => s = new
        BY <1>3, <3>1
      <3> QED
        BY <1>3, <1>4, <2>1, <3>1, <3>2
           DEF OneRequest, IsDone, TermInv, ChainInv, Cycle, Ends, Watched, Streams, Executed
    <2>3. CASE ~IsDone(wire[1])
      <3>1. \A s \in settled': IsDone(s.m) => s \in settled
        BY <1>6, <2>3
      <3>2. OneRequest'
        BY <1>2, <1>3, <2>1, <3>1 DEF OneRequest, IsDone
      <3> QED
        BY <1>3, <1>4, <3>2 DEF TermInv, ChainInv, Cycle, Ends, Watched, Streams, Executed
    <2> QED
      BY <2>2, <2>3
  <1>14. ExitInv'
    <2>1. Exits /\ Over
      BY DEF TermInv, ExitInv
    <2>2. Alive => (pty.ended <=> \E j \in DOMAIN wire': IsExit(wire'[j]))
      BY <1>2, <2>1 DEF Exits
    <2>3. session # "live" => pty.ended /\ \A j \in DOMAIN wire': ~IsExit(wire'[j])
      BY <1>2, <2>1 DEF Exits
    <2>4. \A i, j \in DOMAIN wire': i < j /\ IsExit(wire'[i]) =>
            ~IsExit(wire'[j]) /\ ~(IsDone(wire'[j]) /\ wire'[j].ok)
      BY <1>2, <2>1 DEF Exits
    <2>5. Alive => \A j \in DOMAIN wire': IsDone(wire'[j]) /\ ~wire'[j].ok =>
                     \E i \in DOMAIN wire': i < j /\ IsExit(wire'[i])
      <3> SUFFICES ASSUME Alive, NEW j \in DOMAIN wire', IsDone(wire'[j]), ~wire'[j].ok
                   PROVE  \E i \in DOMAIN wire': i < j /\ IsExit(wire'[i])
        OBVIOUS
      <3>1. PICK i \in DOMAIN wire: i < j + 1 /\ IsExit(wire[i])
        BY <1>2, <2>1 DEF Exits
      <3>2. i - 1 \in DOMAIN wire' /\ wire'[i - 1] = wire[i] /\ i - 1 < j
        BY <1>2, <3>1
      <3> QED
        BY <3>1, <3>2
    <2>6. Alive => \A s \in settled': IsDone(s.m) => s.m.ok
      <3>1. \A i \in DOMAIN wire: ~(i < 1)
        BY <1>0, LastIs DEF Typed
      <3>2. Alive /\ IsDone(wire[1]) => wire[1].ok
        BY <1>2, <2>1, <3>1 DEF Exits
      <3> QED
        BY <1>6, <2>1, <3>2 DEF Exits
    <2>7. Exits'
      BY <1>3, <1>4, <2>2, <2>3, <2>4, <2>5, <2>6 DEF Exits, IsExit, IsDone
    <2>8. Over'
      BY <1>2, <1>3, <1>4, <1>6, <2>1 DEF Over, IsDone
    <2> QED
      BY <2>7, <2>8 DEF ExitInv
  <1>15. Episodes'
    BY <1>3 DEF TermInv, Episodes
  <1>16. TurnInv'
    <2>1. \A r: OnWire(r)' => OnWire(r)
      BY <1>2 DEF OnWire, IsScreen
    <2>2. \A r: OnWire(r) => OnWire(r)' \/ (IsScreen(wire[1]) /\ wire[1].s = r)
      <3> SUFFICES ASSUME NEW r, NEW j \in DOMAIN wire, IsScreen(wire[j]), wire[j].s = r
                   PROVE  OnWire(r)' \/ (IsScreen(wire[1]) /\ wire[1].s = r)
        BY DEF OnWire
      <3>1. CASE j # 1
        <4>1. j - 1 \in DOMAIN wire' /\ wire'[j - 1] = wire[j]
          BY <1>2, <3>1
        <4> QED
          BY <4>1 DEF OnWire, IsScreen
      <3> QED
        BY <3>1
    <2>3. \A r: Settled(r)' <=> Settled(r) \/ (IsScreen(wire[1]) /\ wire[1].s = r)
      BY <1>3, <1>5, <1>6 DEF Settled, IsScreen
    <2>4. IsScreen(wire[1]) => OnWire(wire[1].s) /\ wire[1].s \in Request
      BY <1>2, MessageIs DEF OnWire
    <2>5. \A r: Outstanding(r)' <=> Outstanding(r)
      BY <1>3, <2>1, <2>2, <2>3, <2>4 DEF Outstanding
    <2>6. IsScreen(wire[1]) => \A j \in DOMAIN wire': IsScreen(wire'[j]) => wire'[j].s # wire[1].s
      BY <1>0, <1>2 DEF Unique
    <2>7. \A r: IsScreen(wire[1]) /\ wire[1].s = r => ~(OnWire(r)')
      BY <2>6 DEF OnWire, IsScreen
    <2>8. Unique'
      <3>1. \A i, j \in DOMAIN wire': IsScreen(wire'[i]) /\ IsScreen(wire'[j]) /\ wire'[i].s = wire'[j].s => i = j
        BY <1>0, <1>2 DEF Unique
      <3>2. IsScreen(wire[1]) => ~Settled(wire[1].s)
        BY <1>0, <2>4 DEF Unique
      <3>3. \A a, b \in settled': IsScreen(a.m) /\ IsScreen(b.m) /\ a.m.s = b.m.s => a = b
        <4> SUFFICES ASSUME NEW a \in settled', NEW b \in settled',
                            IsScreen(a.m), IsScreen(b.m), a.m.s = b.m.s
                     PROVE  a = b
          OBVIOUS
        <4>1. CASE a \in settled /\ b \in settled
          BY <1>0, <4>1 DEF Unique
        <4>2. CASE a = new /\ b \in settled
          BY <1>5, <3>2, <4>2 DEF Settled
        <4>3. CASE b = new /\ a \in settled
          BY <1>5, <3>2, <4>3 DEF Settled
        <4> QED
          BY <1>3, <4>1, <4>2, <4>3
      <3>4. \A r \in screens: ~(OnWire(r)') /\ ~(Settled(r)')
        BY <1>0, <2>1, <2>3, <2>4 DEF Unique
      <3>5. \A r \in Request: OnWire(r)' => ~(Settled(r)')
        BY <1>0, <2>1, <2>3, <2>7 DEF Unique
      <3> QED
        BY <1>3, <3>1, <3>3, <3>4, <3>5 DEF Unique, IsScreen
    <2> QED
      BY <1>4, <2>5, <2>8 DEF TermInv, TurnInv, Answered, Bounded
  <1>17. WireFollows'
    BY <1>1, <1>3, <1>4, WireKept
  <1>18. ASSUME NEW n, Follows(0, n)
         PROVE  Follows(0, n)'
    BY <1>0, <1>2, <1>3, <1>18, FollowsShrinks
  <1>19. LiveFollows' /\ ShownInv'
    <2>1. ShownInv'
      BY <1>3, <1>4 DEF TermInv, FollowInv, ShownInv
    <2>2. LiveFollows'
      <3> SUFFICES ASSUME Alive', NEW t \in Tabs, Attached(t)', ~tab'[t].dropping
                   PROVE  Follows(0, shown[t])'
        BY DEF LiveFollows
      <3>1. Follows(0, shown[t])
        BY <1>3, <1>4 DEF TermInv, FollowInv, LiveFollows
      <3>2. PICK n: n = shown[t]
        OBVIOUS
      <3> QED
        BY <1>3, <1>18, <3>1, <3>2
    <2> QED
      BY <2>1, <2>2
  <1>20. ScreenFollows'
    <2> SUFFICES ASSUME Alive', NEW t \in Tabs, Syncing(t)', NEW j \in DOMAIN wire',
                        IsScreen(wire[j])', wire'[j].s = Asked(t)', wire'[j].ok
                 PROVE  Follows(j, wire[j].n)'
      BY DEF ScreenFollows
    <2>1. j \in Nat /\ j + 1 \in DOMAIN wire /\ wire'[j] = wire[j + 1] /\ IsScreen(wire[j + 1])
      BY <1>2 DEF IsScreen
    <2>2. Follows(j + 1, wire[j + 1].n)
      BY <1>4, <2>1 DEF TermInv, FollowInv, ScreenFollows
    <2>3. PICK x: x = wire[j + 1].n
      OBVIOUS
    <2>4. Follows(j, x)'
      BY <1>0, <1>2, <1>3, <2>1, <2>2, <2>3, FollowsShrinks
    <2> QED
      BY <2>1, <2>3, <2>4
  <1>21. LateFollows'
    <2> SUFFICES ASSUME Alive', NEW t \in Tabs, Syncing(t)', NEW s \in settled',
                        IsScreen(s.m), s.m.s = Asked(t)', s.m.ok
                 PROVE  LET late == Later(tab[t].buffer, s.seam)
                        IN  /\ \A i \in 1..Len(late): late[i] = s.m.n + i
                            /\ \A x: x = s.m.n + Len(late) => Follows(0, x)'
      BY <1>3 DEF LateFollows, IsScreen
    <2> DEFINE late == Later(tab[t].buffer, s.seam)
    <2>1. Syncing(t) /\ s.m.s = Asked(t) /\ Alive
      BY <1>4
    <2>2. CASE s \in settled
      <3>1. /\ \A i \in 1..Len(late): late[i] = s.m.n + i
            /\ Follows(0, s.m.n + Len(late))
        BY <2>1, <2>2 DEF TermInv, FollowInv, LateFollows
      <3> QED
        BY <1>18, <3>1
    <2>3. CASE s = new
      <3>1. s.m = wire[1] /\ s.seam = arrived /\ arrived \in Nat /\ tab[t].buffer \in Seq(Nat)
        BY <1>0, <1>5, <2>3 DEF Typed, TabRecord
      <3>2. late = <<>>
        <4>1. \A i \in DOMAIN tab[t].buffer: tab[t].buffer[i] <= arrived
          BY DEF TermInv, Ordered
        <4> QED
          BY <3>1, <4>1, LaterIs
      <3>3. Follows(1, s.m.n) /\ s.m.n \in Nat
        BY <1>2, <2>1, <3>1, MessageIs DEF TermInv, FollowInv, ScreenFollows
      <3>4. PICK x: x = s.m.n
        OBVIOUS
      <3>5. Follows(0, x)'
        BY <1>0, <1>2, <1>3, <3>3, <3>4, FollowsShrinks, 0 + 1 = 1
      <3>6. Len(late) = 0 /\ s.m.n + 0 = s.m.n
        BY <3>2, <3>3
      <3> QED
        BY <3>4, <3>5, <3>6
    <2> QED
      BY <1>3, <2>2, <2>3
  <1> QED
    BY <1>10, <1>11, <1>12, <1>13, <1>14, <1>15, <1>16, <1>17, <1>19, <1>20, <1>21 DEF TermInv, FollowInv

-----------------------------------------------------------------------------
(* What a reply continues.                                                 *)

LEMMA TwoMore ==
  ASSUME NEW S, NEW s \in Seq(S), NEW a \in S, NEW b \in S
  PROVE  /\ s \o <<a, b>> \in Seq(S) /\ Len(s) \in Nat /\ Len(s \o <<a, b>>) = Len(s) + 2
         /\ \A i \in 1..Len(s): (s \o <<a, b>>)[i] = s[i]
         /\ (s \o <<a, b>>)[Len(s) + 1] = a /\ (s \o <<a, b>>)[Len(s) + 2] = b
  OBVIOUS

(* A chain of which the first is done, or the detach and its watch, stays  *)
(* one in which every detach is followed by a watch.                       *)
LEMMA RestIs ==
  ASSUME Typed, Watched, chain # <<>>, NEW d \in BOOLEAN,
         NEW rest, rest = IF Head(chain) = "detach" /\ d THEN Tail(Tail(chain)) ELSE Tail(chain)
  PROVE  /\ rest \in Seq(Op)
         /\ \A i \in 1..Len(rest): rest[i] = "detach" => i < Len(rest) /\ rest[i + 1] = "watch"
         /\ (\E i \in DOMAIN chain: i # 1 /\ chain[i] = "attach") => \E i \in DOMAIN rest: rest[i] = "attach"
  <1>1. /\ Tail(chain) \in Seq(Op) /\ Head(chain) = chain[1] /\ Len(chain) \in Nat \ {0}
        /\ Len(Tail(chain)) = Len(chain) - 1 /\ DOMAIN chain = 1..Len(chain)
        /\ DOMAIN Tail(chain) = 1..(Len(chain) - 1)
        /\ \A i \in 1..(Len(chain) - 1): Tail(chain)[i] = chain[i + 1]
    BY TailIs DEF Typed
  <1> DEFINE Skips(k) == /\ rest \in Seq(Op) /\ k <= Len(chain) /\ Len(rest) = Len(chain) - k
                         /\ DOMAIN rest = 1..(Len(chain) - k)
                         /\ \A i \in 1..(Len(chain) - k): rest[i] = chain[i + k]
  <1>2. Skips(1) \/ (Skips(2) /\ chain[2] = "watch")
    <2>1. CASE Head(chain) = "detach" /\ d
      <3>1. 1 < Len(chain) /\ chain[1 + 1] = "watch"
        BY <1>1, <2>1 DEF Watched
      <3>2. Tail(chain) # <<>>
        <4>1. Len(Tail(chain)) # 0
          BY <1>1, <3>1
        <4> QED
          BY <1>1, <4>1, LastIs
      <3>3. /\ Tail(Tail(chain)) \in Seq(Op) /\ Len(Tail(Tail(chain))) = (Len(chain) - 1) - 1
            /\ DOMAIN Tail(Tail(chain)) = 1..((Len(chain) - 1) - 1)
            /\ \A i \in 1..((Len(chain) - 1) - 1): Tail(Tail(chain))[i] = Tail(chain)[i + 1]
        BY <1>1, <3>2, TailIs
      <3>4. \A i \in 1..(Len(chain) - 2): Tail(Tail(chain))[i] = chain[i + 2]
        <4> SUFFICES ASSUME NEW i \in 1..(Len(chain) - 2) PROVE Tail(Tail(chain))[i] = chain[i + 2]
          OBVIOUS
        <4>1. i + 1 \in 1..(Len(chain) - 1) /\ i \in 1..((Len(chain) - 1) - 1) /\ (i + 1) + 1 = i + 2
          BY <1>1
        <4> QED
          BY <1>1, <3>3, <4>1
      <3>5. (Len(chain) - 1) - 1 = Len(chain) - 2 /\ 2 <= Len(chain)
        BY <1>1, <3>1
      <3>6. rest = Tail(Tail(chain)) /\ chain[2] = "watch"
        BY <2>1, <3>1
      <3> QED
        BY <3>3, <3>4, <3>5, <3>6
    <2>2. CASE ~(Head(chain) = "detach" /\ d)
      <3>1. rest = Tail(chain)
        BY <2>2
      <3>2. 1 <= Len(chain)
        BY <1>1
      <3> QED
        BY <1>1, <3>1, <3>2
    <2> QED
      BY <2>1, <2>2
  <1> SUFFICES ASSUME NEW k \in {1, 2}, Skips(k), k = 2 => chain[2] = "watch"
               PROVE  /\ rest \in Seq(Op)
                      /\ \A i \in 1..Len(rest): rest[i] = "detach" => i < Len(rest) /\ rest[i + 1] = "watch"
                      /\ (\E i \in DOMAIN chain: i # 1 /\ chain[i] = "attach") =>
                           \E i \in DOMAIN rest: rest[i] = "attach"
    <2>1. \E k \in {1, 2}: Skips(k) /\ (k = 2 => chain[2] = "watch")
      <3> HIDE DEF Skips
      <3> QED
        BY <1>2
    <2> HIDE DEF Skips
    <2> QED
      BY <2>1
  <1>5. Len(chain) \in Nat /\ k \in Nat /\ k <= Len(chain)
    <2>1. Len(chain) \in Nat
      BY <1>1
    <2>2. k \in Nat
      OBVIOUS
    <2> QED
      BY <2>1, <2>2
  <1>3. ASSUME NEW i \in 1..Len(rest), rest[i] = "detach"
        PROVE  i < Len(rest) /\ rest[i + 1] = "watch"
    <2>0. i \in Nat /\ i \in 1..(Len(chain) - k) /\ i + k \in 1..Len(chain)
      BY <1>5
    <2>1. chain[i + k] = "detach"
      BY <1>3, <2>0
    <2>2. i + k < Len(chain) /\ chain[(i + k) + 1] = "watch"
      BY <2>0, <2>1 DEF Watched
    <2>3. i + 1 \in 1..(Len(chain) - k) /\ (i + 1) + k = (i + k) + 1 /\ i < Len(chain) - k
      BY <1>5, <2>0, <2>2
    <2>4. rest[i + 1] = chain[(i + 1) + k]
      BY <2>3
    <2> QED
      BY <2>2, <2>3, <2>4
  <1>4. ASSUME NEW i \in DOMAIN chain, i # 1, chain[i] = "attach"
        PROVE  \E j \in DOMAIN rest: rest[j] = "attach"
    <2>1. i \in 1..Len(chain) /\ (i # 2 \/ k = 1)
      BY <1>1, <1>4
    <2>2. i - k \in 1..(Len(chain) - k) /\ (i - k) + k = i
      <3>1. i \in Nat /\ (i > 2 \/ (i = 2 /\ k = 1))
        BY <1>4, <1>5, <2>1
      <3>2. i > k /\ i <= Len(chain)
        BY <1>5, <2>1, <3>1
      <3> QED
        BY <1>5, <3>1, <3>2
    <2>3. rest[i - k] = chain[i]
      BY <2>2
    <2> QED
      BY <1>4, <2>2, <2>3
  <1> QED
    BY <1>3, <1>4

(* Detach and watch at the end of the chain.                               *)
LEMMA LeftIs ==
  ASSUME NEW c \in Seq(Op), \A i \in 1..Len(c): c[i] = "detach" => i < Len(c) /\ c[i + 1] = "watch"
  PROVE  /\ c \o <<"detach", "watch">> \in Seq(Op)
         /\ \A i \in 1..Len(c \o <<"detach", "watch">>):
              (c \o <<"detach", "watch">>)[i] = "detach" =>
                /\ i < Len(c \o <<"detach", "watch">>)
                /\ (c \o <<"detach", "watch">>)[i + 1] = "watch"
  <1> DEFINE d == c \o <<"detach", "watch">>
  <1>1. "detach" \in Op /\ "watch" \in Op
    BY DEF Op
  <1>2. /\ d \in Seq(Op) /\ Len(c) \in Nat /\ Len(d) = Len(c) + 2
        /\ \A i \in 1..Len(c): d[i] = c[i]
        /\ d[Len(c) + 1] = "detach" /\ d[Len(c) + 2] = "watch"
    BY <1>1, TwoMore
  <1> HIDE DEF d
  <1>3. ASSUME NEW i \in 1..Len(d), d[i] = "detach" PROVE i < Len(d) /\ d[i + 1] = "watch"
    <2>1. CASE i \in 1..Len(c)
      <3>1. i < Len(c) /\ c[i + 1] = "watch"
        BY <1>2, <1>3, <2>1
      <3> QED
        BY <1>2, <3>1, i + 1 \in 1..Len(c)
    <2>2. CASE i = Len(c) + 1
      BY <1>2, <2>2, i + 1 = Len(c) + 2
    <2>3. CASE i = Len(c) + 2
      BY <1>2, <1>3, <2>3
    <2> QED
      BY <1>2, <2>1, <2>2, <2>3
  <1> QED
    BY <1>2, <1>3 DEF d
(* When the server hears of the exit in time, the chain goes on, ...       *)
LEMMA ChainShrinks ==
  ASSUME TermInv, Alive, chain # <<>>, taken, ~taken', chain' = Tail(chain), UNCHANGED <<pty, conn, connected, session>>,
         Reading' = Reading,
         NEW ready \in BOOLEAN,
         ready <=> Head(chain) = "attach" /\ "attach" \notin Range(Tail(chain)),
         Waiting' = IF ready THEN {} ELSE Waiting
  PROVE  /\ Cycle' /\ Ends' /\ Streams'
         /\ chain' = <<>> => Len(chain) = 1
  <1>0. Typed /\ Cycle /\ Ends /\ Streams
    BY DEF TermInv, ChainInv
  <1> DEFINE L == Len(chain)
  <1>1. /\ chain' \in Seq(Op) /\ Head(chain) = chain[1] /\ L \in Nat \ {0}
        /\ Len(chain') = L - 1 /\ DOMAIN chain = 1..L /\ DOMAIN chain' = 1..(L - 1)
        /\ \A i \in 1..(L - 1): chain'[i] = chain[i + 1]
        /\ \A i \in 1..L: chain[i] \in Op
    BY <1>0, TailIs, LastIs DEF Typed
  <1>2. chain' = <<>> <=> L = 1
    BY <1>1, LastIs
  <1>3. Alive' <=> Alive
    BY DEF Alive
  <1>4. Reading = Waiting /\ chain[L] = IF Reading = {} THEN "watch" ELSE "attach"
    BY <1>0 DEF Ends
  <1>5. \A i \in 1..(L - 1): chain[i + 1] = Succ(chain[i])
    BY <1>0 DEF Cycle
  <1>6. Cycle'
    <2> SUFFICES ASSUME NEW i \in 1..(Len(chain') - 1) PROVE chain'[i + 1] = Succ(chain'[i])
      BY DEF Cycle, Succ
    <2>1. i \in 1..(L - 1) /\ i + 1 \in 1..(L - 1)
      BY <1>1
    <2> QED
      BY <1>1, <1>5, <2>1
  <1>7. ready => (\A i \in 2..L: chain[i] # "attach") /\ chain[1] = "attach"
    <2> SUFFICES ASSUME ready, NEW i \in 2..L PROVE chain[i] # "attach"
      BY <1>1
    <2>1. i - 1 \in 1..(L - 1) /\ (i - 1) + 1 = i
      BY <1>1
    <2>2. chain'[i - 1] = chain[i]
      BY <1>1, <2>1
    <2> QED
      BY <1>1, <2>1, <2>2 DEF Range
  <1>8. ~ready => chain[1] # "attach" \/ L # 1
    <2> SUFFICES ASSUME chain[1] = "attach", L = 1 PROVE ready
      OBVIOUS
    <2>1. DOMAIN chain' = {}
      BY <1>1
    <2> QED
      BY <1>1, <2>1 DEF Range
  <1>9. Ends'
    <2>1. CASE L = 1
      <3>1. CASE ready
        BY <1>2, <2>1, <3>1 DEF Ends
      <3>2. CASE ~ready
        BY <1>2, <1>4, <1>8, <2>1, <3>2 DEF Ends
      <3> QED
        BY <3>1, <3>2
    <2>2. CASE L # 1
      <3>1. chain' # <<>> /\ chain'[Len(chain')] = chain[L]
        <4>1. L - 1 \in 1..(L - 1) /\ (L - 1) + 1 = L
          BY <1>1, <2>2
        <4> QED
          BY <1>1, <1>2, <2>2, <4>1
      <3>2. ready => Reading = {}
        BY <1>1, <1>4, <1>7, <2>2
      <3>3. Reading' = Waiting'
        BY <1>4, <3>2
      <3> QED
        BY <1>4, <3>1, <3>3 DEF Ends
    <2> QED
      BY <2>1, <2>2
  <1>10. Streams'
    <2>1. Executed = chain[1]
      BY <1>1 DEF Executed
    <2>2. CASE L = 1
      <3>1. Executed' = Executed
        BY <1>2, <1>4, <2>1, <2>2 DEF Executed
      <3> QED
        BY <1>0, <1>3, <3>1 DEF Streams
    <2>3. CASE L # 1
      <3>1. chain' # <<>> /\ Head(chain') = chain'[1] /\ chain'[1] = chain[2]
        <4>1. 1 \in 1..(L - 1) /\ chain' # <<>>
          BY <1>1, <1>2, <2>3
        <4> QED
          BY <1>1, <4>1, TailIs
      <3>2. chain[2] = Succ(chain[1])
        <4>1. 1 \in 1..(L - 1)
          BY <1>1, <2>3
        <4> QED
          BY <1>5, <4>1
      <3>3. Executed' = Succ(Succ(Succ(chain[1])))
        BY <3>1, <3>2 DEF Executed, Succ
      <3>4. chain[1] \in {"attach", "detach", "watch"}
        BY <1>1 DEF Op
      <3>5. Succ(Succ(Succ(chain[1]))) = chain[1]
        BY <3>4 DEF Succ
      <3> QED
        BY <1>0, <1>3, <2>1, <3>3, <3>5 DEF Streams
    <2> QED
      BY <2>2, <2>3
  <1> QED
    BY <1>2, <1>6, <1>9, <1>10

LEMMA AfterRequestStep ==
  ASSUME TermInv, AfterRequest
  PROVE  TermInv'
  <1>0. Typed /\ Unique /\ Bounded /\ Watched
    BY DEF TermInv, TurnInv, ChainInv
  <1> DEFINE ready == Head(chain) = "attach" /\ "attach" \notin Range(Tail(chain))
             rest(s) == IF Head(chain) = "detach" /\ ~s.m.ok THEN Tail(Tail(chain)) ELSE Tail(chain)
             Done(s) == ready /\ s.m.ok /\ Synced(Waiting, TRUE) /\ chain' = rest(s)
             Failed(s) == /\ ready /\ ~s.m.ok /\ Removed(Waiting)
                          /\ chain' = rest(s) \o <<"detach", "watch">> \/ chain' = rest(s)
                          /\ UNCHANGED screens
             Other(s) == ~ready /\ chain' = rest(s) /\ UNCHANGED <<tab, screens>>
  <1>1. PICK s \in settled: /\ s.m.t = "done" /\ settled' = settled \ {s} /\ running' = (settled' # {})
                            /\ ~taken' /\ taken' \in BOOLEAN
                            /\ Done(s) \/ Failed(s) \/ Other(s)
    <2>1. PICK s \in settled:
            /\ s.m.t = "done" /\ Runs(s) /\ taken' = FALSE
            /\ \/ ready /\ s.m.ok /\ Synced(Waiting, TRUE) /\ chain' = rest(s)
               \/ /\ ready /\ ~s.m.ok /\ Removed(Waiting)
                  /\ chain' = IF Cardinality(Waiting) = 1 THEN rest(s) \o <<"detach", "watch">> ELSE rest(s)
                  /\ UNCHANGED screens
               \/ ~ready /\ chain' = rest(s) /\ UNCHANGED <<tab, screens>>
      BY DEF AfterRequest
    <2> QED
      BY <2>1 DEF Runs
  <1>2. UNCHANGED <<pty, conn, connected, wire, arrived, session, again, shown, spent>>
    BY DEF AfterRequest, ptySide
  <1>3. IsDone(s.m) /\ ~IsScreen(s.m) /\ s.m \in Message /\ s.m.ok \in BOOLEAN
    BY <1>0, <1>1, MessageIs DEF IsDone, IsScreen, Typed
  <1>4. /\ connected /\ taken /\ chain # <<>>
        /\ \A j \in DOMAIN wire: ~IsDone(wire[j])
        /\ \A r \in settled': ~IsDone(r.m)
        /\ settled' \subseteq settled
    BY <1>1, <1>3 DEF TermInv, DownInv, ChainInv, OneRequest
  <1>5. /\ \A t \in Tabs: ~Attached(t) /\ ~Syncing(t)
        /\ Reading = Waiting /\ Waiting \in SUBSET Tabs
    <2>1. \A t \in Tabs: ~Attached(t) /\ ~Syncing(t)
      BY <1>4, ReadyIs DEF Attached, Syncing
    <2>2. Reading = Waiting
      BY <1>4, ReadyIs DEF Reading, Waiting
    <2> QED
      BY <2>1, <2>2 DEF Waiting, Reading
  <1>6. /\ rest(s) \in Seq(Op)
        /\ \A i \in 1..Len(rest(s)): rest(s)[i] = "detach" => i < Len(rest(s)) /\ rest(s)[i + 1] = "watch"
        /\ (\E i \in DOMAIN chain: i # 1 /\ chain[i] = "attach") => \E i \in DOMAIN rest(s): rest(s)[i] = "attach"
    BY <1>0, <1>3, <1>4, RestIs
  <1>7. chain' \in Seq(Op) /\ Watched'
    <2>1. CASE chain' = rest(s)
      BY <1>6, <2>1 DEF Watched
    <2>2. CASE chain' = rest(s) \o <<"detach", "watch">>
      <3>1. PICK c: c = rest(s)
        OBVIOUS
      <3>2. c \in Seq(Op) /\ \A i \in 1..Len(c): c[i] = "detach" => i < Len(c) /\ c[i + 1] = "watch"
        BY <1>6, <3>1
      <3>3. /\ c \o <<"detach", "watch">> \in Seq(Op)
            /\ \A i \in 1..Len(c \o <<"detach", "watch">>):
                 (c \o <<"detach", "watch">>)[i] = "detach" =>
                   /\ i < Len(c \o <<"detach", "watch">>)
                   /\ (c \o <<"detach", "watch">>)[i + 1] = "watch"
        BY <3>2, LeftIs
      <3>4. chain' = c \o <<"detach", "watch">>
        BY <2>2, <3>1
      <3> QED
        BY <3>3, <3>4 DEF Watched
    <2> QED
      BY <1>1, <2>1, <2>2
  <1>8. /\ \A r: (OnWire(r)' <=> OnWire(r)) /\ (Settled(r)' <=> Settled(r))
        /\ RepliesOnce'
    BY <1>0, <1>1, <1>2, <1>3, RepliesStay
  <1>9. Alive' <=> Alive
    BY <1>2 DEF Alive
  <1>10. Alive => s.m.ok /\ rest(s) = Tail(chain)
    BY <1>3, <1>1 DEF TermInv, ExitInv, Exits
  (* What the tabs do, in each of the three cases.                         *)
  <1> DEFINE Asking == \A t \in Tabs: Syncing(t)' => Outstanding(Asked(t))' /\ ~(OnWire(Asked(t))') /\ ~(Settled(Asked(t))')
             Tabbed == /\ tab' \in [Tabs -> TabRecord]
                       /\ \A t \in Tabs: ~(Attached(t)')
                       /\ \A t \in Tabs: tab'[t] = tab[t] \/ tab'[t].buffer = <<>>
                       /\ \A t \in Tabs: tab'[t] = tab[t] \/ tab'[t].at = "syncing" \/ (tab'[t].at = "off" /\ ~tab'[t].ready)
                       /\ screens' \subseteq Request /\ Unique' /\ Bounded'
                       /\ Asking
             Reads2 == /\ Alive => Reading' = Reading /\ Waiting' = IF ready THEN {} ELSE Waiting
                       /\ ~Alive => Reading' = Waiting' /\ (ready => Waiting' = {}) /\ Waiting' \subseteq Waiting
  <1>11. ASSUME Done(s) PROVE Tabbed /\ Reads2
    <2>1. screens' = screens \cup {[tab |-> t, turn |-> NextTurn(t)]: t \in Waiting}
      BY <1>11 DEF Synced
    <2>2. /\ \A t \in Waiting: NextTurn(t) \in Nat
          /\ screens' \subseteq Request /\ Unique' /\ Bounded'
          /\ \A t \in Waiting: \A a: a = [tab |-> t, turn |-> NextTurn(t)] =>
               Outstanding(a)' /\ ~OnWire(a)' /\ ~Settled(a)'
      BY <1>5, <1>8, <2>1, TurnsAsk
    <2>3. /\ tab' \in [Tabs -> TabRecord]
          /\ \A t \in Waiting: /\ tab'[t].at = "syncing" /\ tab'[t].ready = (tab[t].ready \/ TRUE)
                               /\ tab'[t].turn = NextTurn(t) /\ tab'[t].buffer = <<>>
          /\ \A t \in Tabs \ Waiting: tab'[t] = tab[t]
      BY <1>0, <1>5, <1>11, <2>2, SyncedIs
    <2>4. /\ Reading' = Reading /\ Waiting' = {}
          /\ \A t \in Tabs: ~(Attached(t)')
          /\ \A t \in Tabs: Syncing(t)' => t \in Waiting
          /\ \A t \in Waiting: Asked(t)' = [tab |-> t, turn |-> NextTurn(t)]
      BY <1>5, <2>3 DEF Reading, Waiting, Attached, Syncing, Asked
    <2>5. Asking
      BY <2>2, <2>4
    <2>6. ~Alive => Reading = {}
      BY <1>3, <1>4, <1>11 DEF TermInv, ExitInv, Over, Alive
    <2> QED
      BY <1>11, <2>2, <2>3, <2>4, <2>5, <2>6
  <1>12. ASSUME Failed(s) PROVE Tabbed /\ Reads2
    <2>1. ~Alive
      BY <1>10, <1>12
    <2>2. /\ tab' \in [Tabs -> TabRecord]
          /\ \A t \in Waiting: tab'[t].at = "off" /\ ~tab'[t].ready /\ tab'[t].buffer = <<>>
          /\ \A t \in Tabs \ Waiting: tab'[t] = tab[t]
          /\ Reading' = Reading \ Waiting /\ Waiting' = Waiting \ Waiting
          /\ \A t \in Tabs: /\ Attached(t)' <=> Attached(t) /\ t \notin Waiting
                            /\ Syncing(t)' <=> Syncing(t) /\ t \notin Waiting
      BY <1>0, <1>5, <1>12, RemovedIs
    <2>3. Reading' = {} /\ Waiting' = {} /\ \A t \in Tabs: ~(Attached(t)') /\ ~(Syncing(t)')
      BY <1>5, <2>2
    <2>4. screens' \subseteq Request /\ Unique' /\ Bounded'
      <3>1. screens' = screens
        BY <1>12
      <3>2. Unique'
        BY <1>0, <1>8, <3>1 DEF Unique, RepliesOnce
      <3>3. Bounded'
        BY <1>0, <1>8, <3>1 DEF Bounded, Outstanding
      <3> QED
        BY <1>0, <3>1, <3>2, <3>3 DEF Typed
    <2> QED
      BY <2>1, <2>2, <2>3, <2>4
  <1>13. ASSUME Other(s) PROVE Tabbed /\ Reads2
    <2>1. tab' = tab /\ screens' = screens
      BY <1>13
    <2>2. /\ Reading' = Reading /\ Waiting' = Waiting
          /\ \A t \in Tabs: ~(Attached(t)') /\ ~(Syncing(t)')
      BY <1>5, <2>1 DEF Reading, Waiting, Attached, Syncing
    <2>3. Unique' /\ Bounded'
      BY <1>0, <1>8, <2>1 DEF Unique, RepliesOnce, Bounded, Outstanding
    <2> QED
      BY <1>0, <1>5, <1>13, <2>1, <2>2, <2>3 DEF Typed
  <1>14. Tabbed /\ Reads2
    BY <1>1, <1>11, <1>12, <1>13
  <1> HIDE DEF Asking, Tabbed, Reads2
  <1>20. Typed'
    BY <1>0, <1>1, <1>2, <1>4, <1>7, <1>14 DEF Typed, Tabbed
  <1>21. Ordered'
    <2>1. \A t \in Tabs: \A i \in DOMAIN tab'[t].buffer: tab'[t].buffer[i] <= arrived
      BY <1>14 DEF Tabbed, TermInv, Ordered
    <2> QED
      BY <1>2, <1>4, <2>1 DEF TermInv, Ordered, IsOutput, IsScreen, IsDone
  <1>22. DownInv'
    BY <1>2, <1>4, <1>14 DEF TermInv, DownInv, Tabbed
  <1>23. OneRequest'
    BY <1>1, <1>2, <1>4 DEF OneRequest, IsDone
  <1>24. ASSUME Alive PROVE ChainInv' /\ ExitInv' /\ WireFollows'
    <2>1. chain' = Tail(chain)
      BY <1>1, <1>10, <1>24
    <2>2. /\ Cycle' /\ Ends' /\ Streams'
          /\ chain' = <<>> => Len(chain) = 1
      <3>1. Reading' = Reading /\ Waiting' = IF ready THEN {} ELSE Waiting
        BY <1>14, <1>24 DEF Reads2
      <3>2. ready \in BOOLEAN
        OBVIOUS
      <3>3. PICK rd \in BOOLEAN: rd <=> ready
        BY <3>2
      <3> HIDE DEF ready
      <3>4. Waiting' = IF rd THEN {} ELSE Waiting
        BY <3>1, <3>3
      <3>5. rd <=> Head(chain) = "attach" /\ "attach" \notin Range(Tail(chain))
        BY <3>3 DEF ready
      <3> QED
        BY <1>1, <1>2, <1>4, <1>24, <2>1, <3>1, <3>4, <3>5, ChainShrinks
    <2>3. ExitInv'
      <3>1. Exits'
        BY <1>2, <1>4, <1>9 DEF TermInv, ExitInv, Exits, IsExit, IsDone
      <3> QED
        BY <1>9, <1>24, <3>1 DEF ExitInv, Over, Alive
    <2>4. WireFollows'
      <3> SUFFICES ASSUME Attachment', NEW i \in DOMAIN wire, Since(i)', IsOutput(wire[i])'
                   PROVE  Follows(i, wire[i].n)'
        BY <1>2 DEF WireFollows
      <3>1. Attachment
        <4>1. Reading' = Reading
          BY <1>14, <1>24 DEF Reads2
        <4> QED
          BY <1>1, <1>4, <1>24, <2>2, <4>1 DEF Attachment
      <3>2. Since(i) /\ IsOutput(wire[i])
        BY <1>2 DEF Since, IsOutput, IsDone
      <3>3. Follows(i, wire[i].n)
        BY <3>1, <3>2 DEF TermInv, FollowInv, WireFollows
      <3>4. PICK x: x = wire[i].n
        OBVIOUS
      <3>5. Follows(i, x)'
        BY <1>2, <3>3, <3>4, FollowsStays
      <3> QED
        BY <1>2, <3>4, <3>5
    <2> QED
      BY <1>7, <1>23, <2>2, <2>3, <2>4 DEF ChainInv
  <1>25. ASSUME ~Alive PROVE ChainInv' /\ ExitInv' /\ WireFollows'
    <2>1. Cycle' /\ Ends' /\ Streams' /\ WireFollows'
      BY <1>9, <1>25 DEF Cycle, Ends, Streams, WireFollows, Attachment
    <2>2. Exits'
      BY <1>2, <1>4, <1>9, <1>25 DEF TermInv, ExitInv, Exits, IsExit, IsDone
    <2>3. Over'
      <3>1. session # "live" /\ Over
        BY <1>4, <1>25 DEF Alive, TermInv, ExitInv
      <3>2. ASSUME Waiting' # {} PROVE \E i \in DOMAIN chain': chain'[i] = "attach"
        <4>1. ~ready /\ Waiting # {}
          BY <1>14, <1>25, <3>2 DEF Reads2
        <4>2. chain' = rest(s)
          BY <1>1, <4>1
        <4>3. PICK i \in DOMAIN chain: chain[i] = "attach"
          BY <1>4, <3>1, <4>1 DEF Over
        <4>4. \E k \in DOMAIN chain: k # 1 /\ chain[k] = "attach"
          <5>1. CASE i # 1
            BY <4>3, <5>1
          <5>2. CASE i = 1
            <6>1. /\ Head(chain) = chain[1] /\ Len(chain) \in Nat \ {0} /\ DOMAIN chain = 1..Len(chain)
                  /\ DOMAIN Tail(chain) = 1..(Len(chain) - 1)
                  /\ \A k \in 1..(Len(chain) - 1): Tail(chain)[k] = chain[k + 1]
              BY <1>0, <1>4, TailIs DEF Typed
            <6>2. "attach" \in Range(Tail(chain))
              BY <4>1, <4>3, <5>2, <6>1
            <6>3. PICK k \in 1..(Len(chain) - 1): Tail(chain)[k] = "attach"
              BY <6>1, <6>2 DEF Range
            <6>4. k + 1 \in DOMAIN chain /\ k + 1 # 1 /\ chain[k + 1] = "attach"
              BY <6>1, <6>3
            <6> QED
              BY <6>4
          <5> QED
            BY <5>1, <5>2
        <4> QED
          BY <1>6, <4>2, <4>4
      <3>3. Reading' = Waiting'
        BY <1>14, <1>25 DEF Reads2
      <3> QED
        BY <1>2, <1>4, <3>1, <3>2, <3>3 DEF Over, IsDone
    <2> QED
      BY <1>7, <1>23, <2>1, <2>2, <2>3 DEF ChainInv, ExitInv
  <1>26. Episodes'
    BY <1>2 DEF TermInv, Episodes
  <1>27. TurnInv'
    BY <1>14 DEF Tabbed, Asking, TurnInv, Answered
  <1>28. LiveFollows' /\ ShownInv' /\ ScreenFollows' /\ LateFollows'
    <2>1. \A t \in Tabs: ~(Attached(t)')
      BY <1>14 DEF Tabbed
    <2>2. \A t \in Tabs: Syncing(t)' => ~(OnWire(Asked(t))') /\ ~(Settled(Asked(t))')
      BY <1>14 DEF Tabbed, Asking
    <2>3. LiveFollows' /\ ShownInv'
      BY <2>1 DEF LiveFollows, ShownInv
    <2>4. ScreenFollows'
      BY <2>2 DEF ScreenFollows, OnWire
    <2>5. LateFollows'
      BY <2>2 DEF LateFollows, Settled
    <2> QED
      BY <2>3, <2>4, <2>5
  <1> QED
    BY <1>20, <1>21, <1>22, <1>24, <1>25, <1>26, <1>27, <1>28 DEF TermInv, FollowInv

(* What is shown after the snapshot of chunk n and the first k of the      *)
(* chunks that came later.                                                 *)
LEMMA LateShown ==
  ASSUME NEW n \in Nat, NEW late \in Seq(Nat), NEW k \in 0..Len(late)
  PROVE  /\ AllShown(n, SubSeq(late, 1, k)) \in Int
         /\ (\A i \in 1..Len(late): late[i] = n + i) => AllShown(n, SubSeq(late, 1, k)) = n + k
  <1> DEFINE some == SubSeq(late, 1, k)
  <1>1. /\ some \in Seq(Nat) /\ Len(some) = k /\ k \in Nat /\ DOMAIN some = 1..k
        /\ \A i \in 1..k: some[i] = late[i] /\ i \in 1..Len(late)
    OBVIOUS
  <1> HIDE DEF some
  <1>2. ASSUME \A i \in 1..Len(late): late[i] = n + i
        PROVE  some = [i \in 1..Len(some) |-> n + i]
    <2>1. \A i \in 1..k: some[i] = n + i
      BY <1>1, <1>2
    <2>2. some = [i \in 1..k |-> some[i]]
      BY <1>1
    <2> QED
      BY <1>1, <2>1, <2>2
  <1>3. AllShown(n, some) \in Int
    BY <1>1 DEF AllShown, Torn
  <1>4. ASSUME some = [i \in 1..Len(some) |-> n + i] PROVE AllShown(n, some) = n + k
    BY <1>1, <1>4 DEF AllShown
  <1> QED
    BY <1>2, <1>3, <1>4 DEF some

(* A tab that leaves: the last one detaches, and the watch is asked for.   *)
LEMMA LeaveKeeps ==
  ASSUME TermInv, NEW t \in Tabs, chain' = Detached({t}), Removed({t}), settled' \subseteq settled,
         UNCHANGED <<pty, conn, connected, wire, screens, taken, arrived, session, shown>>
  PROVE  /\ tab' \in [Tabs -> TabRecord] /\ chain' \in Seq(Op)
         /\ \A u \in Tabs: Syncing(u)' => Syncing(u) /\ u # t /\ Asked(u)' = Asked(u)
         /\ Ordered' /\ DownInv' /\ ChainInv' /\ ExitInv' /\ Episodes' /\ FollowInv'
  <1>0. Typed /\ Ordered /\ DownInv /\ ChainInv /\ ExitInv /\ FollowInv
    BY DEF TermInv
  <1>1. /\ tab' \in [Tabs -> TabRecord]
        /\ tab'[t].at = "off" /\ ~tab'[t].ready /\ tab'[t].buffer = <<>>
        /\ \A u \in Tabs \ {t}: tab'[u] = tab[u]
        /\ Reading' = Reading \ {t} /\ Waiting' = Waiting \ {t}
        /\ \A u \in Tabs: /\ Attached(u)' => Attached(u) /\ u # t
                          /\ Syncing(u)' => Syncing(u) /\ u # t
    BY <1>0, RemovedIs
  <1>2. \A u \in Tabs \ {t}: Asked(u)' = Asked(u)
    BY <1>1 DEF Asked
  <1>3. Alive' <=> Alive
    BY DEF Alive
  <1>4. \/ connected /\ Reading = {t} /\ chain' = chain \o <<"detach", "watch">> /\ Reading' = {} /\ Waiting' = {}
        \/ ~connected /\ chain' = chain
        \/ chain' = chain /\ (Reading' = {} <=> Reading = {})
    <2>1. Waiting \subseteq Reading
      BY DEF Waiting
    <2>2. CASE connected /\ Reading = {t}
      BY <1>1, <2>1, <2>2 DEF Detached
    <2>3. CASE Reading # {t}
      BY <1>1, <2>3 DEF Detached
    <2>4. CASE ~connected
      BY <2>4 DEF Detached
    <2> QED
      BY <2>2, <2>3, <2>4
  <1>5. "detach" \in Op /\ "watch" \in Op
    BY DEF Op
  <1>6. /\ chain \o <<"detach", "watch">> \in Seq(Op) /\ Len(chain) \in Nat
        /\ Len(chain \o <<"detach", "watch">>) = Len(chain) + 2
        /\ \A i \in 1..Len(chain): (chain \o <<"detach", "watch">>)[i] = chain[i]
        /\ (chain \o <<"detach", "watch">>)[Len(chain) + 1] = "detach"
        /\ (chain \o <<"detach", "watch">>)[Len(chain) + 2] = "watch"
    BY <1>0, <1>5, TwoMore DEF Typed
  <1>7. chain' \in Seq(Op) /\ (chain # <<>> => chain' # <<>>)
    <2>1. chain \o <<"detach", "watch">> # <<>>
      BY <1>6, LastIs
    <2> QED
      BY <1>0, <1>4, <1>6, <2>1 DEF Typed
  <1>8. Watched'
    <2>1. CASE chain' = chain
      BY <1>0, <2>1 DEF ChainInv, Watched
    <2>2. CASE chain' = chain \o <<"detach", "watch">>
      <3>1. /\ chain \in Seq(Op)
            /\ \A i \in 1..Len(chain): chain[i] = "detach" => i < Len(chain) /\ chain[i + 1] = "watch"
        BY <1>0 DEF ChainInv, Watched, Typed
      <3>2. \A i \in 1..Len(chain \o <<"detach", "watch">>):
                 (chain \o <<"detach", "watch">>)[i] = "detach" =>
                   /\ i < Len(chain \o <<"detach", "watch">>)
                   /\ (chain \o <<"detach", "watch">>)[i + 1] = "watch"
        BY <3>1, LeftIs
      <3> QED
        BY <2>2, <3>2 DEF Watched
    <2> QED
      BY <1>4, <2>1, <2>2
  <1>9. OneRequest'
    BY <1>0, <1>7 DEF ChainInv, OneRequest, IsDone
  <1>10. Cycle' /\ Ends' /\ Streams'
    <2>1. CASE ~Alive
      BY <1>3, <2>1 DEF Cycle, Ends, Streams
    <2>2. CASE Alive /\ chain' = chain /\ (Reading' = {} <=> Reading = {})
      <3>1. Reading = Waiting => Reading' = Waiting'
        BY <1>1
      <3>2. Waiting = {} => Waiting' = {}
        BY <1>1
      <3>3. Cycle' /\ Streams'
        BY <1>0, <1>3, <2>2 DEF ChainInv, Cycle, Streams, Executed, Succ
      <3>4. Ends'
        BY <1>0, <1>3, <2>2, <3>1, <3>2 DEF ChainInv, Ends
      <3> QED
        BY <3>3, <3>4
    <2>3. CASE Alive /\ Reading = {t} /\ chain' = chain \o <<"detach", "watch">> /\ Reading' = {} /\ Waiting' = {}
      <3>1. /\ Len(chain') = Len(chain) + 2 /\ Len(chain) \in Nat
            /\ \A i \in 1..Len(chain): chain'[i] = chain[i]
            /\ chain'[Len(chain) + 1] = "detach" /\ chain'[Len(chain) + 2] = "watch"
        BY <1>6, <2>3
      <3>2. chain = <<>> <=> Len(chain) = 0
        BY <1>0, LastIs DEF Typed
      <3>3. chain' # <<>> /\ Head(chain') = chain'[1]
        <4>1. chain' # <<>>
          BY <3>1, <1>7, LastIs
        <4> QED
          BY <1>7, <4>1, TailIs
      <3>4. chain # <<>> => chain[Len(chain)] = "attach"
        BY <1>0, <2>3 DEF ChainInv, Ends
      <3>5. Ends'
        BY <2>3, <3>1, <3>3 DEF Ends
      <3>6. Cycle'
        <4> SUFFICES ASSUME NEW i \in 1..(Len(chain') - 1) PROVE chain'[i + 1] = Succ(chain'[i])
          BY DEF Cycle, Succ
        <4>1. CASE i \in 1..(Len(chain) - 1)
          <5>1. chain[i + 1] = Succ(chain[i])
            BY <1>0, <2>3, <4>1 DEF ChainInv, Cycle
          <5>2. i \in 1..Len(chain) /\ i + 1 \in 1..Len(chain)
            BY <3>1, <4>1
          <5> QED
            BY <3>1, <5>1, <5>2
        <4>2. CASE i = Len(chain) /\ i # 0
          <5>1. chain'[i] = "attach" /\ chain'[i + 1] = "detach"
            <6>1. chain # <<>> /\ Len(chain) \in 1..Len(chain)
              BY <3>1, <3>2, <4>2
            <6>2. chain'[Len(chain)] = "attach"
              BY <3>1, <3>4, <6>1
            <6> QED
              BY <3>1, <4>2, <6>2
          <5> QED
            BY <5>1 DEF Succ
        <4>3. CASE i = Len(chain) + 1
          <5>1. chain'[i] = "detach" /\ chain'[i + 1] = "watch"
            BY <3>1, <4>3
          <5> QED
            BY <5>1 DEF Succ
        <4> QED
          BY <3>1, <4>1, <4>2, <4>3
      <3>7. Streams'
        <4>1. Executed' = Executed
          <5>1. CASE chain = <<>>
            <6>1. ~taken /\ Head(chain') = "detach" /\ Executed = "attach"
              BY <1>0, <2>3, <3>1, <3>2, <3>3, <5>1 DEF ChainInv, OneRequest, Executed
            <6>2. Executed' = Succ(Succ("detach"))
              BY <3>3, <6>1 DEF Executed, Succ
            <6> QED
              BY <6>1, <6>2 DEF Succ
          <5>2. CASE chain # <<>>
            <6>1. Head(chain') = Head(chain)
              <7>1. 1 \in 1..Len(chain) /\ Head(chain) = chain[1]
                BY <1>0, <3>1, <3>2, <5>2, TailIs DEF Typed
              <7> QED
                BY <3>1, <3>3, <7>1
            <6> QED
              BY <3>3, <5>2, <6>1 DEF Executed
          <5> QED
            BY <5>1, <5>2
        <4> QED
          BY <1>0, <1>3, <4>1 DEF ChainInv, Streams
      <3> QED
        BY <3>5, <3>6, <3>7
    <2> QED
      BY <1>4, <2>1, <2>2, <2>3 DEF Alive
  <1>11. ChainInv'
    BY <1>8, <1>9, <1>10 DEF ChainInv
  <1>12. ExitInv'
    <2>1. Exits'
      BY <1>0, <1>3 DEF ExitInv, Exits, IsExit, IsDone
    <2>2. Over'
      <3>1. Waiting' # {} /\ connected => chain' = chain /\ Waiting # {}
        BY <1>1, <1>4
      <3>2. Reading = Waiting => Reading' = Waiting'
        BY <1>1
      <3>3. Reading = {} => Reading' = {}
        BY <1>1
      <3> QED
        BY <1>0, <3>1, <3>2, <3>3 DEF ExitInv, Over, IsDone
    <2> QED
      BY <2>1, <2>2 DEF ExitInv
  <1>13. Ordered'
    <2>1. \A u \in Tabs: \A i \in DOMAIN tab'[u].buffer: tab'[u].buffer[i] <= arrived
      <3> SUFFICES ASSUME NEW u \in Tabs, NEW i \in DOMAIN tab'[u].buffer
                   PROVE  tab'[u].buffer[i] <= arrived
        OBVIOUS
      <3>1. CASE u = t
        <4>1. DOMAIN tab'[u].buffer = {}
          BY <1>1, <3>1
        <4> QED
          BY <4>1
      <3>2. CASE u # t
        BY <1>0, <1>1, <3>2 DEF Ordered
      <3> QED
        BY <3>1, <3>2
    <2> QED
      BY <1>0, <2>1 DEF Ordered, IsOutput, IsScreen, IsDone
  <1>14. DownInv'
    <2>1. ~connected => chain' = <<>>
      BY <1>0, <1>4 DEF DownInv
    <2> QED
      BY <1>0, <1>1, <2>1 DEF DownInv
  <1>15. \A i, n: Follows(i, n) => Follows(i, n)'
    BY FollowsStays
  <1>16. FollowInv'
    <2>1. WireFollows'
      <3> SUFFICES ASSUME Attachment', NEW i \in DOMAIN wire, Since(i)', IsOutput(wire[i])'
                   PROVE  Follows(i, wire[i].n)'
        BY DEF WireFollows
      <3>1. Attachment
        <4>1. connected /\ Reading' # {} /\ Alive
          BY <1>3 DEF Attachment, Alive
        <4>2. chain' = chain /\ Reading # {}
          BY <1>1, <1>4, <4>1
        <4> QED
          BY <4>1, <4>2 DEF Attachment
      <3>2. Since(i) /\ IsOutput(wire[i])
        BY DEF Since, IsOutput, IsDone
      <3>3. Follows(i, wire[i].n)
        BY <1>0, <3>1, <3>2 DEF FollowInv, WireFollows
      <3>4. PICK x: x = wire[i].n
        OBVIOUS
      <3> QED
        BY <1>15, <3>3, <3>4
    <2>2. LiveFollows'
      <3> SUFFICES ASSUME Alive', NEW u \in Tabs, Attached(u)', ~tab'[u].dropping
                   PROVE  Follows(0, shown[u])'
        BY DEF LiveFollows
      <3>1. Follows(0, shown[u])
        BY <1>0, <1>1, <1>3 DEF FollowInv, LiveFollows
      <3>2. PICK x: x = shown[u]
        OBVIOUS
      <3> QED
        BY <1>15, <3>1, <3>2
    <2>3. ScreenFollows'
      <3> SUFFICES ASSUME Alive', NEW u \in Tabs, Syncing(u)', NEW j \in DOMAIN wire,
                          IsScreen(wire[j])', wire[j].s = Asked(u)', wire[j].ok
                   PROVE  Follows(j, wire[j].n)'
        BY DEF ScreenFollows
      <3>1. Syncing(u) /\ u # t /\ Asked(u)' = Asked(u)
        BY <1>1, <1>2
      <3>2. Follows(j, wire[j].n)
        BY <1>0, <1>3, <3>1 DEF FollowInv, ScreenFollows, IsScreen
      <3>3. PICK x: x = wire[j].n
        OBVIOUS
      <3> QED
        BY <1>15, <3>2, <3>3
    <2>4. LateFollows'
      <3> SUFFICES ASSUME Alive', NEW u \in Tabs, Syncing(u)', NEW s \in settled',
                          IsScreen(s.m), s.m.s = Asked(u)', s.m.ok
                   PROVE  LET late == Later(tab'[u].buffer, s.seam)
                          IN  /\ \A i \in 1..Len(late): late[i] = s.m.n + i
                              /\ \A x: x = s.m.n + Len(late) => Follows(0, x)'
        BY DEF LateFollows, IsScreen
      <3> DEFINE late == Later(tab[u].buffer, s.seam)
      <3>1. Syncing(u) /\ u # t /\ Asked(u)' = Asked(u) /\ tab'[u] = tab[u]
        BY <1>1, <1>2
      <3>2. /\ \A i \in 1..Len(late): late[i] = s.m.n + i
            /\ Follows(0, s.m.n + Len(late))
        BY <1>0, <1>3, <3>1 DEF FollowInv, LateFollows
      <3> QED
        BY <1>15, <3>1, <3>2
    <2>5. ShownInv'
      BY <1>0, <1>1 DEF FollowInv, ShownInv
    <2> QED
      BY <2>1, <2>2, <2>3, <2>4, <2>5 DEF FollowInv
  <1>17. Episodes'
    BY DEF TermInv, Episodes
  <1> QED
    BY <1>1, <1>2, <1>7, <1>11, <1>12, <1>13, <1>14, <1>16, <1>17

(* The reply to a screen request has been handled.                         *)
LEMMA TurnsEnd ==
  ASSUME TermInv, NEW s \in settled, IsScreen(s.m), settled' = settled \ {s}, UNCHANGED <<wire, screens>>
  PROVE  /\ Unique' /\ Bounded'
         /\ \A r: Outstanding(r) /\ r # s.m.s => Outstanding(r)'
  <1>0. Typed /\ Unique /\ Bounded
    BY DEF TermInv, TurnInv
  <1>1. \A r: OnWire(r)' <=> OnWire(r)
    BY DEF OnWire, IsScreen
  <1>2. \A r: Settled(r)' => Settled(r)
    BY DEF Settled, IsScreen
  <1>3. \A r: Settled(r) /\ r # s.m.s => Settled(r)'
    BY DEF Settled, IsScreen
  <1>4. Unique'
    <2>1. \A a, b \in settled': IsScreen(a.m) /\ IsScreen(b.m) /\ a.m.s = b.m.s => a = b
      BY <1>0 DEF Unique
    <2>2. \A r \in screens: ~(OnWire(r)') /\ ~(Settled(r)')
      BY <1>0, <1>1, <1>2 DEF Unique
    <2>3. \A r \in Request: OnWire(r)' => ~(Settled(r)')
      BY <1>0, <1>1, <1>2 DEF Unique
    <2> QED
      BY <1>0, <2>1, <2>2, <2>3 DEF Unique, IsScreen
  <1>5. \A r: Outstanding(r)' => Outstanding(r)
    BY <1>1, <1>2 DEF Outstanding
  <1>6. Bounded'
    BY <1>0, <1>5 DEF Bounded
  <1>7. \A r: Outstanding(r) /\ r # s.m.s => Outstanding(r)'
    BY <1>1, <1>3 DEF Outstanding
  <1> QED
    BY <1>4, <1>6, <1>7

LEMMA AfterScreenStep ==
  ASSUME TermInv, AfterScreen
  PROVE  TermInv'
  <1>0. Typed /\ Ordered /\ DownInv /\ ChainInv /\ ExitInv /\ Episodes /\ Answered /\ FollowInv
    BY DEF TermInv, TurnInv
  <1> DEFINE t(s) == s.m.s.tab
             mine(s) == tab[t(s)].at = "syncing" /\ tab[t(s)].turn = s.m.s.turn
             late(s) == IF tab[t(s)].dropping THEN <<>> ELSE Later(tab[t(s)].buffer, s.seam)
             Stale(s) == ~mine(s) /\ UNCHANGED <<chain, tab, again, shown, spent>>
             Refused(s) == /\ mine(s) /\ ~s.m.ok /\ chain' = Detached({t(s)}) /\ Removed({t(s)})
                           /\ UNCHANGED <<again, shown, spent>>
             Shows(s, k) == /\ mine(s) /\ s.m.ok
                            /\ Slow(IF k < Len(late(s)) THEN {t(s)} ELSE {})
                            /\ tab' = [tab EXCEPT ![t(s)].at = "live", ![t(s)].buffer = <<>>, ![t(s)].turn = 0,
                                                  ![t(s)].dropping = @ \/ k < Len(late(s))]
                            /\ shown' = [shown EXCEPT ![t(s)] = AllShown(s.m.n, SubSeq(late(s), 1, k))]
                            /\ UNCHANGED chain
  <1>1. PICK s \in settled: /\ s.m.t = "screen" /\ settled' = settled \ {s} /\ running' = (settled' # {})
                            /\ Stale(s) \/ Refused(s) \/ \E k \in 0..Len(late(s)): Shows(s, k)
    BY DEF AfterScreen, Runs, tabSide
  <1>2. UNCHANGED <<pty, conn, connected, wire, screens, taken, arrived, session>>
    BY DEF AfterScreen, ptySide
  <1>3. /\ IsScreen(s.m) /\ s.m \in Message /\ s.m.s \in Request /\ s.m.n \in Nat /\ s.m.ok \in BOOLEAN
        /\ s.seam \in Nat /\ t(s) \in Tabs /\ settled' \subseteq settled /\ s.m.s.turn \in Nat
    BY <1>0, <1>1, MessageIs DEF IsScreen, Typed, Request
  <1>4. /\ Unique' /\ Bounded'
        /\ \A r: Outstanding(r) /\ r # s.m.s => Outstanding(r)'
    BY <1>1, <1>2, <1>3, TurnsEnd
  <1>5. \A u \in Tabs: u # t(s) \/ ~mine(s) => (tab[u].at = "syncing" => Asked(u) # s.m.s)
    BY DEF Asked
  <1>6. running' \in BOOLEAN
    BY <1>1
  <1>7. CASE Stale(s)
    <2>1. UNCHANGED <<chain, tab, again, shown, spent>>
      BY <1>7
    <2>2. /\ Reading' = Reading /\ Waiting' = Waiting /\ (Alive' <=> Alive)
          /\ \A u \in Tabs: /\ Attached(u)' <=> Attached(u)
                            /\ Syncing(u)' <=> Syncing(u)
                            /\ Asked(u)' = Asked(u)
      BY <1>2, <2>1 DEF Reading, Waiting, Alive, Attached, Syncing, Asked
    <2>3. Typed'
      BY <1>0, <1>2, <1>3, <1>6, <2>1 DEF Typed
    <2>4. Ordered' /\ DownInv'
      BY <1>0, <1>2, <1>3, <2>1 DEF Ordered, DownInv, IsOutput, IsScreen, IsDone
    <2>5. ChainInv'
      <3>1. OneRequest'
        BY <1>0, <1>2, <1>3, <2>1 DEF ChainInv, OneRequest, IsDone
      <3> QED
        BY <1>0, <1>2, <2>1, <2>2, <3>1 DEF ChainInv, Cycle, Ends, Streams, Watched, Executed
    <2>6. ExitInv'
      BY <1>0, <1>2, <1>3, <2>1, <2>2 DEF ExitInv, Exits, Over, IsExit, IsDone
    <2>7. Episodes'
      BY <1>0, <1>2 DEF Episodes
    <2>8. TurnInv'
      <3>1. Answered'
        <4> SUFFICES ASSUME NEW u \in Tabs, Syncing(u)' PROVE Outstanding(Asked(u))'
          BY DEF Answered
        <4>1. PICK r: r = Asked(u)
          OBVIOUS
        <4>2. Outstanding(r) /\ r # s.m.s
          BY <1>0, <1>5, <1>7, <2>2, <4>1 DEF Answered, Syncing
        <4> QED
          BY <1>4, <2>2, <4>1, <4>2
      <3> QED
        BY <1>4, <3>1 DEF TurnInv
    <2>9. FollowInv'
      <3>1. \A i, n: Follows(i, n)' <=> Follows(i, n)
        BY <1>2 DEF Follows, Silent, IsOutput
      <3>2. WireFollows'
        BY <1>0, <1>2, <2>1, <2>2, <3>1 DEF FollowInv, WireFollows, Attachment, Since, IsOutput, IsDone
      <3>3. LiveFollows' /\ ShownInv'
        BY <1>0, <1>2, <2>1, <2>2, <3>1 DEF FollowInv, LiveFollows, ShownInv
      <3>4. ScreenFollows'
        BY <1>0, <1>2, <2>2, <3>1 DEF FollowInv, ScreenFollows, IsScreen
      <3>5. LateFollows'
        BY <1>0, <1>2, <1>3, <2>1, <2>2, <3>1 DEF FollowInv, LateFollows, IsScreen
      <3> QED
        BY <3>2, <3>3, <3>4, <3>5 DEF FollowInv
    <2> QED
      BY <2>3, <2>4, <2>5, <2>6, <2>7, <2>8, <2>9 DEF TermInv
  <1>8. CASE Refused(s)
    <2>1. /\ tab' \in [Tabs -> TabRecord] /\ chain' \in Seq(Op)
          /\ \A u \in Tabs: Syncing(u)' => Syncing(u) /\ u # t(s) /\ Asked(u)' = Asked(u)
          /\ Ordered' /\ DownInv' /\ ChainInv' /\ ExitInv' /\ Episodes' /\ FollowInv'
      <3>1. PICK u \in Tabs: u = t(s)
        BY <1>3
      <3>2. chain' = Detached({u}) /\ Removed({u})
        BY <1>8, <3>1
      <3> QED
        BY <1>2, <1>3, <1>8, <3>1, <3>2, LeaveKeeps
    <2>2. Typed'
      BY <1>0, <1>2, <1>3, <1>6, <1>8, <2>1 DEF Typed
    <2>3. Answered'
      <3> SUFFICES ASSUME NEW u \in Tabs, Syncing(u)' PROVE Outstanding(Asked(u))'
        BY DEF Answered
      <3>1. PICK r: r = Asked(u)
        OBVIOUS
      <3>2. Outstanding(r) /\ r # s.m.s /\ Asked(u)' = r
        BY <1>0, <1>5, <2>1, <3>1 DEF Answered, Syncing
      <3> QED
        BY <1>4, <3>2
    <2> QED
      BY <1>4, <2>1, <2>2, <2>3 DEF TermInv, TurnInv
  <1>9. CASE \E k \in 0..Len(late(s)): Shows(s, k)
    <2>1. PICK k \in 0..Len(late(s)): Shows(s, k)
      BY <1>9
    <2>2. PICK u \in Tabs: u = t(s)
      BY <1>3
    <2>3. PICK l: l = late(s)
      OBVIOUS
    <2>4. tab[u] \in TabRecord /\ tab[u].buffer \in Seq(Nat) /\ tab[u].dropping \in BOOLEAN /\ tab[u].ready \in BOOLEAN
      BY <1>0 DEF Typed, TabRecord
    <2>5. /\ l \in Seq(Nat) /\ Len(l) \in Nat /\ k \in 0..Len(l)
          /\ l = IF tab[u].dropping THEN <<>> ELSE Later(tab[u].buffer, s.seam)
      <3>1. Later(tab[u].buffer, s.seam) \in Seq(Nat)
        BY <1>3, <2>4, LaterIs
      <3>2. l = IF tab[u].dropping THEN <<>> ELSE Later(tab[u].buffer, s.seam)
        BY <2>2, <2>3
      <3>3. <<>> \in Seq(Nat)
        OBVIOUS
      <3>4. l \in Seq(Nat)
        BY <3>1, <3>2, <3>3
      <3>5. k \in 0..Len(l)
        BY <2>1, <2>3
      <3> QED
        BY <3>2, <3>4, <3>5, LastIs
    <2>6. /\ tab[u].at = "syncing" /\ tab[u].turn = s.m.s.turn /\ s.m.ok
          /\ Slow(IF k < Len(l) THEN {u} ELSE {})
          /\ tab' = [tab EXCEPT ![u].at = "live", ![u].buffer = <<>>, ![u].turn = 0,
                                ![u].dropping = @ \/ k < Len(l)]
          /\ shown' = [shown EXCEPT ![u] = AllShown(s.m.n, SubSeq(l, 1, k))]
          /\ chain' = chain
      BY <2>1, <2>2, <2>3
    <2> HIDE DEF mine, late, Stale, Refused, Shows
    <2>7. /\ AllShown(s.m.n, SubSeq(l, 1, k)) \in Int
          /\ (\A i \in 1..Len(l): l[i] = s.m.n + i) => AllShown(s.m.n, SubSeq(l, 1, k)) = s.m.n + k
      BY <1>3, <2>5, LateShown
    <2>8. /\ shown' \in [Tabs -> Int] /\ shown'[u] = AllShown(s.m.n, SubSeq(l, 1, k))
          /\ \A v \in Tabs \ {u}: shown'[v] = shown[v]
      BY <1>0, <2>6, <2>7 DEF Typed
    <2>9. /\ tab' \in [Tabs -> TabRecord]
          /\ tab'[u].at = "live" /\ tab'[u].buffer = <<>> /\ tab'[u].turn = 0 /\ tab'[u].ready = tab[u].ready
          /\ tab'[u].dropping = (tab[u].dropping \/ k < Len(l))
          /\ \A v \in Tabs \ {u}: tab'[v] = tab[v]
      <3>1. tab \in [Tabs -> TabRecord]
        BY <1>0 DEF Typed
      <3>2. tab'[u] = [tab[u] EXCEPT !.at = "live", !.buffer = <<>>, !.turn = 0, !.dropping = @ \/ k < Len(l)]
        BY <2>6, <3>1
      <3>3. \A v \in Tabs \ {u}: tab'[v] = tab[v]
        BY <2>6, <3>1
      <3>4. (tab[u].dropping \/ k < Len(l)) \in BOOLEAN /\ <<>> \in Seq(Nat) /\ 0 \in Nat
        OBVIOUS
      <3>5. tab'[u] \in TabRecord
        BY <2>4, <3>2, <3>4 DEF TabRecord
      <3>6. /\ tab'[u].at = "live" /\ tab'[u].buffer = <<>> /\ tab'[u].turn = 0 /\ tab'[u].ready = tab[u].ready
            /\ tab'[u].dropping = (tab[u].dropping \/ k < Len(l))
        BY <2>4, <3>2 DEF TabRecord
      <3>7. tab' = [v \in Tabs |-> tab'[v]]
        BY <2>6, <3>1
      <3>8. \A v \in Tabs: tab'[v] \in TabRecord
        BY <3>1, <3>3, <3>5
      <3> QED
        BY <3>3, <3>6, <3>7, <3>8
    <2>10. /\ Reading' = Reading /\ Waiting' = Waiting /\ (Alive' <=> Alive)
           /\ \A v \in Tabs: Attached(v)' <=> (v # u /\ Attached(v)) \/ (v = u /\ Syncing(u))
           /\ \A v \in Tabs: Syncing(v)' => Syncing(v) /\ v # u /\ tab'[v] = tab[v] /\ Asked(v)' = Asked(v)
      BY <1>2, <2>6, <2>9 DEF Reading, Waiting, Alive, Attached, Syncing, Asked
    <2>11. Asked(u) = s.m.s
      BY <1>3, <2>2, <2>6 DEF Asked, Request
    <2>12. ASSUME Syncing(u)
           PROVE  LET all == Later(tab[u].buffer, s.seam)
                  IN  /\ Alive
                      /\ \A i \in 1..Len(all): all[i] = s.m.n + i
                      /\ Follows(0, s.m.n + Len(all))
      <3>1. Alive
        BY <2>12, ReadyIs DEF Syncing
      <3> QED
        BY <1>0, <1>3, <2>6, <2>11, <2>12, <3>1 DEF FollowInv, LateFollows
    <2>13. ASSUME Syncing(u)
           PROVE  /\ shown'[u] = s.m.n + k /\ shown'[u] \in 0..pty.out
                  /\ ~tab'[u].dropping => Follows(0, shown'[u])
      <3>1. \A i \in 1..Len(l): l[i] = s.m.n + i
        <4>1. CASE tab[u].dropping
          <5>1. 1..Len(l) = {}
            BY <2>5, <4>1
          <5> QED
            BY <5>1
        <4>2. CASE ~tab[u].dropping
          BY <2>5, <2>12, <2>13, <4>2
        <4> QED
          BY <4>1, <4>2
      <3>2. shown'[u] = s.m.n + k
        BY <2>7, <2>8, <3>1
      <3>3. s.m.n <= pty.out /\ pty.out \in Nat /\ arrived <= pty.out /\ arrived \in Nat
        BY <1>0, <1>3 DEF Ordered, Typed
      <3>4. s.m.n + k <= pty.out
        <4>1. CASE k = 0
          BY <1>3, <3>3, <4>1
        <4>2. CASE k # 0
          <5>1. k \in 1..Len(l) /\ ~tab[u].dropping
            BY <2>5, <4>2
          <5>2. l[k] = s.m.n + k
            BY <3>1, <5>1
          <5>3. l = Later(tab[u].buffer, s.seam) /\ k \in DOMAIN l
            BY <2>5, <5>1, LastIs
          <5>4. PICK i \in DOMAIN tab[u].buffer: l[k] = tab[u].buffer[i]
            BY <1>3, <2>4, <5>3, LaterIs
          <5>5. tab[u].buffer[i] <= arrived /\ tab[u].buffer[i] \in Nat
            BY <1>0, <2>4 DEF Ordered
          <5>6. s.m.n + k \in Nat
            BY <1>3, <5>1
          <5> QED
            BY <3>3, <5>2, <5>4, <5>5, <5>6
        <4> QED
          BY <4>1, <4>2
      <3>5. ~tab'[u].dropping => Follows(0, shown'[u])
        <4> SUFFICES ASSUME ~tab'[u].dropping PROVE Follows(0, shown'[u])
          OBVIOUS
        <4>1. ~tab[u].dropping /\ k = Len(l)
          <5>1. ~tab[u].dropping /\ ~(k < Len(l))
            BY <2>4, <2>9
          <5> QED
            BY <2>5, <5>1
        <4> QED
          BY <2>5, <2>12, <2>13, <3>2, <4>1
      <3>6. s.m.n + k \in Nat
        BY <1>3, <2>5
      <3> QED
        BY <3>2, <3>3, <3>4, <3>5, <3>6
    <2>14. Typed'
      <3>1. again' \subseteq Tabs /\ spent' \in Nat
        BY <1>0, <2>6 DEF Slow, Spend, Typed
      <3> QED
        BY <1>0, <1>2, <1>3, <1>6, <2>6, <2>8, <2>9, <3>1 DEF Typed
    <2>15. Ordered'
      <3>1. \A v \in Tabs: \A i \in DOMAIN tab'[v].buffer: tab'[v].buffer[i] <= arrived
        <4> SUFFICES ASSUME NEW v \in Tabs, NEW i \in DOMAIN tab'[v].buffer
                     PROVE  tab'[v].buffer[i] <= arrived
          OBVIOUS
        <4>1. v # u
          BY <2>9, DOMAIN <<>> = {}
        <4> QED
          BY <1>0, <2>9, <4>1 DEF Ordered
      <3> QED
        BY <1>0, <1>2, <1>3, <3>1 DEF Ordered, IsOutput, IsScreen, IsDone
    <2>16. DownInv'
      <3>1. connected
        BY <1>0, <1>1 DEF DownInv
      <3> QED
        BY <1>0, <1>2, <2>9, <3>1 DEF DownInv
    <2>17. ChainInv'
      <3>1. OneRequest'
        BY <1>0, <1>2, <1>3, <2>6 DEF ChainInv, OneRequest, IsDone
      <3> QED
        BY <1>0, <1>2, <2>6, <2>10, <3>1 DEF ChainInv, Cycle, Ends, Streams, Watched, Executed
    <2>18. ExitInv'
      BY <1>0, <1>2, <1>3, <2>6, <2>10 DEF ExitInv, Exits, Over, IsExit, IsDone
    <2>19. Episodes'
      BY <1>0, <1>2 DEF Episodes
    <2>20. Answered'
      <3> SUFFICES ASSUME NEW v \in Tabs, Syncing(v)' PROVE Outstanding(Asked(v))'
        BY DEF Answered
      <3>1. PICK r: r = Asked(v)
        OBVIOUS
      <3>2. Outstanding(r) /\ r # s.m.s /\ Asked(v)' = r
        <4>1. r # s.m.s
          <5>1. v # u
            BY <2>10
          <5>2. Asked(v).tab = v /\ Asked(u).tab = u
            BY DEF Asked
          <5> QED
            BY <2>11, <3>1, <5>1, <5>2
        <4> QED
          BY <1>0, <2>10, <3>1, <4>1 DEF Answered
      <3> QED
        BY <1>4, <3>2
    <2>21. \A i, n: Follows(i, n)' <=> Follows(i, n)
      BY <1>2 DEF Follows, Silent, IsOutput
    <2>22. WireFollows'
      BY <1>0, <1>2, <2>6, <2>10, <2>21 DEF FollowInv, WireFollows, Attachment, Since, IsOutput, IsDone
    <2>23. LiveFollows'
      <3> SUFFICES ASSUME Alive', NEW v \in Tabs, Attached(v)', ~tab'[v].dropping
                   PROVE  Follows(0, shown[v])'
        BY DEF LiveFollows
      <3>1. PICK x: x = shown'[v]
        OBVIOUS
      <3>2. CASE v = u
        BY <2>10, <2>13, <2>21, <3>1, <3>2
      <3>3. CASE v # u
        BY <1>0, <2>8, <2>9, <2>10, <2>21, <3>1, <3>3 DEF FollowInv, LiveFollows
      <3> QED
        BY <3>2, <3>3
    <2>24. ScreenFollows'
      BY <1>0, <1>2, <2>10, <2>21 DEF FollowInv, ScreenFollows, IsScreen
    <2>25. LateFollows'
      BY <1>0, <1>2, <1>3, <2>10, <2>21 DEF FollowInv, LateFollows, IsScreen
    <2>26. ShownInv'
      BY <1>0, <1>2, <2>8, <2>10, <2>13 DEF FollowInv, ShownInv
    <2> QED
      BY <1>4, <2>14, <2>15, <2>16, <2>17, <2>18, <2>19, <2>20, <2>22, <2>23, <2>24, <2>25, <2>26
         DEF TermInv, TurnInv, FollowInv
  <1> QED
    BY <1>1, <1>7, <1>8, <1>9

-----------------------------------------------------------------------------
(* What the owner, the client and the link do.                             *)

LEMMA NothingRead ==
  ASSUME UNCHANGED <<wire, settled>>
  PROVE  /\ \A r: (OnWire(r)' <=> OnWire(r)) /\ (Settled(r)' <=> Settled(r))
         /\ Unique => RepliesOnce'
  <1>1. \A r: (OnWire(r)' <=> OnWire(r)) /\ (Settled(r)' <=> Settled(r))
    BY DEF OnWire, Settled, IsScreen
  <1> QED
    BY <1>1 DEF Unique, RepliesOnce, IsScreen

LEMMA AttachingKeeps ==
  ASSUME TermInv, NEW t \in Tabs, Attaching(t), settled = {},
         UNCHANGED <<pty, conn, wire, connected, taken, arrived, settled, session, shown>>
  PROVE  /\ tab' \in [Tabs -> TabRecord] /\ chain' \in Seq(Op) /\ screens' \subseteq Request
         /\ Ordered' /\ DownInv' /\ ChainInv' /\ ExitInv' /\ Episodes' /\ TurnInv' /\ FollowInv'
  <1>0. Typed /\ Ordered /\ DownInv /\ ChainInv /\ ExitInv /\ Unique /\ Bounded /\ Answered /\ FollowInv
    BY DEF TermInv, TurnInv
  <1> DEFINE joins == Reading # {} /\ "attach" \notin Range(chain)
             T == IF joins THEN {t} ELSE {}
  <1>1. /\ connected
        /\ tab' = [tab EXCEPT ![t] = [NoTab EXCEPT !.at = "syncing", !.ready = joins, !.turn = NextTurn(t)]]
        /\ screens' = IF joins THEN screens \cup {[tab |-> t, turn |-> NextTurn(t)]} ELSE screens
        /\ chain' = IF Reading = {} THEN Append(chain, "attach") ELSE chain
    BY DEF Attaching
  <1>2. NextTurn(t) \in Nat
    BY <1>0, NextTurnIs
  <1>3. /\ tab' \in [Tabs -> TabRecord]
        /\ tab'[t].at = "syncing" /\ tab'[t].ready = joins /\ tab'[t].turn = NextTurn(t) /\ tab'[t].buffer = <<>>
        /\ \A v \in Tabs \ {t}: tab'[v] = tab[v]
    <2>1. PICK rec: rec = [NoTab EXCEPT !.at = "syncing", !.ready = joins, !.turn = NextTurn(t)]
      OBVIOUS
    <2>2. /\ rec \in TabRecord
          /\ rec.at = "syncing" /\ rec.ready = joins /\ rec.turn = NextTurn(t) /\ rec.buffer = <<>>
      <3>1. <<>> \in Seq(Nat) /\ joins \in BOOLEAN
        OBVIOUS
      <3> HIDE DEF joins
      <3>2. rec = [at |-> "syncing", ready |-> joins, buffer |-> <<>>, dropping |-> FALSE, turn |-> NextTurn(t)]
        BY <2>1 DEF NoTab
      <3> QED
        BY <1>2, <3>1, <3>2 DEF TabRecord
    <2> QED
      BY <1>0, <1>1, <2>1, <2>2 DEF Typed
  <1>4. /\ Reading' = Reading \cup {t}
        /\ Waiting' = IF joins THEN Waiting \ {t} ELSE Waiting \cup {t}
        /\ (Alive' <=> Alive)
        /\ ~(Attached(t)') /\ (Syncing(t)' <=> joins) /\ Asked(t)' = [tab |-> t, turn |-> NextTurn(t)]
        /\ \A v \in Tabs \ {t}: /\ Attached(v)' <=> Attached(v)
                                /\ Syncing(v)' <=> Syncing(v)
                                /\ Asked(v)' = Asked(v)
    <2>1. Waiting' = IF joins THEN Waiting \ {t} ELSE Waiting \cup {t}
      <3>1. \A v: v \in Waiting' <=> (v \in Tabs /\ tab'[v].at \in {"syncing", "live"} /\ ~tab'[v].ready)
        BY DEF Waiting, Reading
      <3>2. \A v: v \in Waiting <=> (v \in Tabs /\ tab[v].at \in {"syncing", "live"} /\ ~tab[v].ready)
        BY DEF Waiting, Reading
      <3> HIDE DEF joins
      <3>3. t \in Waiting' <=> ~joins
        BY <1>3, <3>1
      <3>4. \A v: v # t => (v \in Waiting' <=> v \in Waiting)
        BY <1>3, <3>1, <3>2
      <3> QED
        BY <3>3, <3>4
    <2> HIDE DEF joins
    <2>2. Reading' = Reading \cup {t}
      BY <1>3 DEF Reading
    <2> QED
      BY <1>3, <2>1, <2>2 DEF Alive, Attached, Syncing, Asked
  <1>5. joins => Alive /\ chain = <<>> /\ Waiting = {}
    <2> SUFFICES ASSUME joins PROVE Alive /\ chain = <<>> /\ Waiting = {}
      OBVIOUS
    <2>1. Alive
      BY <1>0, <1>1 DEF Alive, ExitInv, Over, Range
    <2>2. chain # <<>> => Len(chain) \in DOMAIN chain
      BY <1>0, LastIs DEF Typed
    <2>3. chain = <<>>
      BY <1>0, <2>1, <2>2 DEF ChainInv, Ends, Range
    <2> QED
      BY <1>0, <2>1, <2>3 DEF ChainInv, Ends
  <1>6. ~joins => \A v \in Tabs: ~Attached(v) /\ ~Syncing(v)
    <2> SUFFICES ASSUME ~joins, NEW v \in Tabs, Attached(v) \/ Syncing(v) PROVE FALSE
      OBVIOUS
    <2>1. chain = <<>> /\ v \in Reading
      BY ReadyIs DEF Attached, Syncing, Reading
    <2>2. Range(chain) = {}
      BY <2>1 DEF Range
    <2> QED
      BY <2>1, <2>2
  <1>7. ~joins => Reading = Waiting
    BY <1>6 DEF Reading, Waiting, Attached, Syncing
  <1>8. /\ "attach" \in Op /\ Append(chain, "attach") \in Seq(Op) /\ Append(chain, "attach") # <<>>
        /\ Len(chain) \in Nat /\ Len(Append(chain, "attach")) = Len(chain) + 1
        /\ DOMAIN chain = 1..Len(chain) /\ DOMAIN Append(chain, "attach") = 1..(Len(chain) + 1)
        /\ \A i \in 1..Len(chain): Append(chain, "attach")[i] = chain[i]
        /\ Append(chain, "attach")[Len(chain) + 1] = "attach"
        /\ (chain = <<>> <=> Len(chain) = 0)
    <2>1. "attach" \in Op /\ chain \in Seq(Op)
      BY <1>0 DEF Op, Typed
    <2> QED
      BY <2>1, AppendIs, LastIs
  <1>9. chain' \in Seq(Op) /\ (chain # <<>> => chain' # <<>>)
    BY <1>0, <1>1, <1>8 DEF Typed
  <1>10. /\ \A r: (OnWire(r)' <=> OnWire(r)) /\ (Settled(r)' <=> Settled(r))
         /\ RepliesOnce'
    BY <1>0, NothingRead
  <1>11. screens' = screens \cup {[tab |-> v, turn |-> NextTurn(v)]: v \in T} /\ T \in SUBSET Tabs
    BY <1>1
  <1>12. /\ screens' \subseteq Request /\ Unique' /\ Bounded'
         /\ \A r: Outstanding(r) => Outstanding(r)'
         /\ \A v \in T: \A a: a = [tab |-> v, turn |-> NextTurn(v)] =>
              Outstanding(a)' /\ ~OnWire(a)' /\ ~Settled(a)'
    <2> HIDE DEF T
    <2> QED
      BY <1>10, <1>11, TurnsAsk
  <1>13. Syncing(t)' => Outstanding(Asked(t))' /\ ~(OnWire(Asked(t))') /\ ~(Settled(Asked(t))')
    BY <1>4, <1>12
  <1> HIDE DEF T, joins
  <1>14. joins => Reading # {}
    BY DEF joins
  <1>15. ~joins /\ Reading # {} => chain # <<>> /\ \E i \in DOMAIN chain: chain[i] = "attach"
    BY DEF joins, Range
  <1>20. Ordered'
    <2>1. \A v \in Tabs: \A i \in DOMAIN tab'[v].buffer: tab'[v].buffer[i] <= arrived
      BY <1>0, <1>3 DEF Ordered
    <2> QED
      BY <1>0, <2>1 DEF Ordered, IsOutput, IsScreen, IsDone
  <1>21. DownInv'
    <2>1. \A v \in Tabs: tab'[v].at = "lost" => v # t
      BY <1>3
    <2> QED
      BY <1>0, <1>1, <1>3 DEF DownInv
  <1>22. ChainInv'
    <2>1. OneRequest'
      BY <1>0, <1>9 DEF ChainInv, OneRequest, IsDone
    <2>2. CASE Reading # {}
      <3>1. chain' = chain /\ Reading' # {}
        BY <1>1, <1>4, <2>2
      <3>2. Cycle' /\ Watched'
        BY <1>0, <1>4, <3>1 DEF ChainInv, Cycle, Watched
      <3>3. Ends'
        <4>1. CASE joins
          BY <1>4, <1>5, <3>1, <4>1 DEF Ends
        <4>2. CASE ~joins
          <5>1. Reading' = Waiting'
            BY <1>4, <1>7, <4>2
          <5> QED
            BY <1>0, <1>4, <1>15, <2>2, <3>1, <4>2, <5>1 DEF ChainInv, Ends
        <4> QED
          BY <4>1, <4>2
      <3>4. Streams'
        <4>1. Executed' = Executed
          BY <2>2, <3>1 DEF Executed
        <4> QED
          BY <1>0, <1>4, <4>1 DEF ChainInv, Streams
      <3> QED
        BY <2>1, <3>2, <3>3, <3>4 DEF ChainInv
    <2>3. CASE Reading = {}
      <3>1. chain' = Append(chain, "attach") /\ ~joins
        BY <1>1, <1>14, <2>3
      <3>2. Reading' = {t} /\ Waiting' = {t}
        BY <1>4, <1>7, <2>3, <3>1
      <3>3. Ends'
        BY <1>8, <3>1, <3>2 DEF Ends
      <3>4. Alive /\ chain # <<>> => chain[Len(chain)] = "watch"
        BY <1>0, <2>3 DEF ChainInv, Ends
      <3>5. Cycle'
        <4> SUFFICES ASSUME Alive, NEW i \in 1..(Len(chain') - 1) PROVE chain'[i + 1] = Succ(chain'[i])
          BY <1>4 DEF Cycle, Succ
        <4>0. i \in 1..Len(chain) /\ Len(chain') = Len(chain) + 1
          BY <1>8, <3>1
        <4>1. CASE i # Len(chain)
          <5>0. Len(chain) \in Nat /\ i \in Nat /\ 1 <= i /\ i <= Len(chain)
            BY <1>8, <4>0
          <5>1. i \in 1..(Len(chain) - 1) /\ i + 1 \in 1..Len(chain)
            BY <4>1, <5>0
          <5>2. chain[i + 1] = Succ(chain[i])
            BY <1>0, <5>1 DEF ChainInv, Cycle
          <5> QED
            BY <1>8, <3>1, <4>0, <5>1, <5>2
        <4>2. CASE i = Len(chain)
          <5>1. chain'[i] = "watch" /\ chain'[i + 1] = "attach"
            BY <1>8, <3>1, <3>4, <4>0, <4>2
          <5> QED
            BY <5>1 DEF Succ
        <4> QED
          BY <4>1, <4>2
      <3>6. Watched'
        <4> SUFFICES ASSUME NEW i \in 1..Len(chain'), chain'[i] = "detach"
                     PROVE  i < Len(chain') /\ chain'[i + 1] = "watch"
          BY DEF Watched
        <4>1. i \in 1..Len(chain) /\ chain[i] = "detach"
          BY <1>8, <3>1
        <4>2. i < Len(chain) /\ chain[i + 1] = "watch"
          BY <1>0, <4>1 DEF ChainInv, Watched
        <4>3. i + 1 \in 1..Len(chain)
          BY <1>8, <4>1, <4>2
        <4> QED
          BY <1>8, <3>1, <4>1, <4>2, <4>3
      <3>7. Streams'
        <4>1. chain' # <<>> /\ Head(chain') = chain'[1]
          BY <1>8, <1>9, <3>1, TailIs
        <4>2. CASE chain = <<>>
          <5>1. ~taken /\ Head(chain') = "attach" /\ Executed = "watch"
            BY <1>0, <1>8, <2>3, <3>1, <4>1, <4>2 DEF ChainInv, OneRequest, Executed
          <5>2. Executed' = Succ(Succ("attach"))
            BY <4>1, <5>1 DEF Executed, Succ
          <5>3. Executed' = Executed
            BY <5>1, <5>2 DEF Succ
          <5> QED
            BY <1>0, <1>4, <5>3 DEF ChainInv, Streams
        <4>3. CASE chain # <<>>
          <5>1. Head(chain') = Head(chain)
            <6>1. 1 \in 1..Len(chain) /\ Head(chain) = chain[1]
              BY <1>0, <1>8, <4>3, TailIs DEF Typed
            <6> QED
              BY <1>8, <3>1, <4>1, <6>1
          <5>2. Executed' = Executed
            BY <4>1, <4>3, <5>1 DEF Executed
          <5> QED
            BY <1>0, <1>4, <5>2 DEF ChainInv, Streams
        <4> QED
          BY <4>2, <4>3
      <3> QED
        BY <2>1, <3>3, <3>5, <3>6, <3>7 DEF ChainInv
    <2> QED
      BY <2>2, <2>3
  <1>23. ExitInv'
    <2>1. Exits'
      BY <1>0, <1>4 DEF ExitInv, Exits, IsExit, IsDone
    <2>2. Over'
      <3>1. CASE Alive
        BY <3>1 DEF Over, Alive
      <3>2. CASE ~Alive
        <4>1. ~joins
          BY <1>5, <3>2
        <4>2. Reading' = Waiting'
          BY <1>4, <1>7, <4>1
        <4>3. \E i \in DOMAIN chain': chain'[i] = "attach"
          <5>1. CASE Reading = {}
            <6>1. Len(chain) + 1 \in DOMAIN Append(chain, "attach")
              BY <1>8
            <6> QED
              BY <1>1, <1>8, <5>1, <6>1
          <5>2. CASE Reading # {}
            BY <1>1, <1>15, <4>1, <5>2
          <5> QED
            BY <5>1, <5>2
        <4> QED
          BY <1>0, <4>2, <4>3 DEF ExitInv, Over, IsDone
      <3> QED
        BY <3>1, <3>2
    <2> QED
      BY <2>1, <2>2 DEF ExitInv
  <1>24. Episodes'
    BY DEF TermInv, Episodes
  <1>25. TurnInv'
    <2>1. Answered'
      <3> SUFFICES ASSUME NEW v \in Tabs, Syncing(v)' PROVE Outstanding(Asked(v))'
        BY DEF Answered
      <3>1. CASE v = t
        BY <1>13, <3>1
      <3>2. CASE v # t
        <4>1. PICK r: r = Asked(v)
          OBVIOUS
        <4>2. Outstanding(r) /\ Asked(v)' = r
          BY <1>0, <1>4, <3>2, <4>1 DEF Answered
        <4> QED
          BY <1>12, <4>2
      <3> QED
        BY <3>1, <3>2
    <2> QED
      BY <1>12, <2>1 DEF TurnInv
  <1>26. \A i, n: Follows(i, n)' <=> Follows(i, n)
    BY DEF Follows, Silent, IsOutput
  <1>27. WireFollows'
    <2>1. Attachment' => Attachment
      <3>1. CASE Reading = {}
        <4>1. chain' = Append(chain, "attach")
          BY <1>1, <3>1
        <4>2. taken => Len(chain) # 0
          BY <1>0, <1>8 DEF ChainInv, OneRequest
        <4>3. taken => Len(chain') # 1
          BY <1>8, <4>1, <4>2
        <4> QED
          BY <1>8, <4>1, <4>3 DEF Attachment
      <3>2. CASE Reading # {}
        BY <1>1, <1>4, <3>2 DEF Attachment
      <3> QED
        BY <3>1, <3>2
    <2> QED
      BY <1>0, <1>26, <2>1 DEF FollowInv, WireFollows, Since, IsOutput, IsDone
  <1>28. LiveFollows' /\ ShownInv'
    <2>1. \A v \in Tabs: Attached(v)' => v # t /\ Attached(v) /\ tab'[v] = tab[v]
      BY <1>3, <1>4
    <2> QED
      BY <1>0, <1>4, <1>26, <2>1 DEF FollowInv, LiveFollows, ShownInv
  <1>29. ScreenFollows'
    <2> SUFFICES ASSUME Alive', NEW v \in Tabs, Syncing(v)', NEW j \in DOMAIN wire,
                        IsScreen(wire[j])', wire[j].s = Asked(v)', wire[j].ok
                 PROVE  Follows(j, wire[j].n)'
      BY DEF ScreenFollows
    <2>1. v # t
      BY <1>13 DEF OnWire
    <2>2. Syncing(v) /\ Asked(v)' = Asked(v)
      BY <1>4, <2>1
    <2> QED
      BY <1>0, <1>4, <1>26, <2>2 DEF FollowInv, ScreenFollows, IsScreen
  <1>30. LateFollows'
    BY DEF LateFollows
  <1> QED
    BY <1>3, <1>9, <1>12, <1>20, <1>21, <1>22, <1>23, <1>24, <1>25, <1>27, <1>28, <1>29, <1>30 DEF FollowInv

LEMMA LeaveStep ==
  ASSUME TermInv, NEW t \in Tabs, chain' = Detached({t}), Removed({t}), again' \subseteq Tabs, spent' \in Nat,
         UNCHANGED <<pty, conn, connected, wire, screens, taken, arrived, settled, running, session, shown>>
  PROVE  TermInv'
  <1>1. /\ tab' \in [Tabs -> TabRecord] /\ chain' \in Seq(Op)
        /\ \A u \in Tabs: Syncing(u)' => Syncing(u) /\ u # t /\ Asked(u)' = Asked(u)
        /\ Ordered' /\ DownInv' /\ ChainInv' /\ ExitInv' /\ Episodes' /\ FollowInv'
    BY LeaveKeeps
  <1>2. Typed'
    BY <1>1 DEF TermInv, Typed
  <1>3. /\ \A r: Outstanding(r)' <=> Outstanding(r)
        /\ Unique' /\ Bounded'
    BY TurnsStay DEF TermInv, TurnInv
  <1>4. Answered'
    BY <1>1, <1>3 DEF TermInv, TurnInv, Answered
  <1> QED
    BY <1>1, <1>2, <1>3, <1>4 DEF TermInv, TurnInv

LEMMA DetachStep ==
  ASSUME TermInv, NEW t \in Tabs, Detach(t)
  PROVE  TermInv'
  <1>1. again' \subseteq Tabs /\ spent' \in Nat
    BY DEF Detach, Spend, TermInv, Typed
  <1> QED
    BY <1>1, LeaveStep DEF Detach, ptySide, replies

LEMMA ScreenTimeoutStep ==
  ASSUME TermInv, NEW t \in Tabs, ScreenTimeout(t)
  PROVE  TermInv'
  <1>1. again' \subseteq Tabs /\ spent' \in Nat
    BY DEF ScreenTimeout, Spend, TermInv, Typed
  <1> QED
    BY <1>1, LeaveStep DEF ScreenTimeout, ptySide, replies

LEMMA AttachingStep ==
  ASSUME TermInv, NEW t \in Tabs, Attaching(t), settled = {}, again' \subseteq Tabs, spent' \in Nat,
         UNCHANGED <<pty, conn, wire, taken, arrived, settled, running, session, shown, connected>>
  PROVE  TermInv'
  <1>1. /\ tab' \in [Tabs -> TabRecord] /\ chain' \in Seq(Op) /\ screens' \subseteq Request
        /\ Ordered' /\ DownInv' /\ ChainInv' /\ ExitInv' /\ Episodes' /\ TurnInv' /\ FollowInv'
    BY AttachingKeeps
  <1>2. Typed'
    BY <1>1 DEF TermInv, Typed
  <1> QED
    BY <1>1, <1>2 DEF TermInv

LEMMA AttachStep ==
  ASSUME TermInv, NEW t \in Tabs, Attach(t)
  PROVE  TermInv'
  <1>1. again' \subseteq Tabs /\ spent' \in Nat
    BY DEF Attach, Spend, TermInv, Typed
  <1> QED
    BY <1>1, AttachingStep DEF Attach, ptySide, replies

(* Nothing of what the invariant is about changes.                         *)
LEMMA StayStep ==
  ASSUME TermInv, again' \subseteq Tabs, spent' \in Nat,
         UNCHANGED <<pty, conn, connected, wire, screens, chain, taken, arrived, settled, running,
                     session, tab, shown>>
  PROVE  TermInv'
  <1>1. /\ Reading' = Reading /\ Waiting' = Waiting /\ (Alive' <=> Alive)
        /\ \A u \in Tabs: /\ Attached(u)' <=> Attached(u)
                          /\ Syncing(u)' <=> Syncing(u)
                          /\ Asked(u)' = Asked(u)
    BY DEF Reading, Waiting, Alive, Attached, Syncing, Asked
  <1>2. Typed'
    BY DEF TermInv, Typed
  <1>3. Ordered' /\ DownInv' /\ Episodes'
    BY DEF TermInv, Ordered, DownInv, Episodes, IsOutput, IsScreen, IsDone
  <1>4. ChainInv'
    BY <1>1 DEF TermInv, ChainInv, OneRequest, IsDone, Cycle, Ends, Streams, Watched, Executed
  <1>5. ExitInv'
    BY <1>1 DEF TermInv, ExitInv, Exits, Over, IsExit, IsDone
  <1>6. TurnInv'
    <2>1. /\ \A r: Outstanding(r)' <=> Outstanding(r)
          /\ Unique' /\ Bounded'
      BY TurnsStay DEF TermInv, TurnInv
    <2> QED
      BY <1>1, <2>1 DEF TermInv, TurnInv, Answered
  <1>7. FollowInv'
    <2>1. \A i, n: Follows(i, n)' <=> Follows(i, n)
      BY DEF Follows, Silent, IsOutput
    <2>2. WireFollows'
      BY <1>1, <2>1 DEF TermInv, FollowInv, WireFollows, Attachment, Since, IsOutput, IsDone
    <2>3. LiveFollows' /\ ShownInv'
      BY <1>1, <2>1 DEF TermInv, FollowInv, LiveFollows, ShownInv
    <2>4. ScreenFollows'
      BY <1>1, <2>1 DEF TermInv, FollowInv, ScreenFollows, IsScreen
    <2>5. LateFollows'
      BY <1>1, <2>1 DEF TermInv, FollowInv, LateFollows, IsScreen
    <2> QED
      BY <2>2, <2>3, <2>4, <2>5 DEF FollowInv
  <1> QED
    BY <1>2, <1>3, <1>4, <1>5, <1>6, <1>7 DEF TermInv

LEMMA AttachAgainStep ==
  ASSUME TermInv, NEW t \in Tabs, AttachAgain(t)
  PROVE  TermInv'
  <1>1. /\ again' \subseteq Tabs /\ spent' \in Nat /\ settled = {}
        /\ UNCHANGED <<pty, conn, wire, taken, arrived, settled, running, session, shown, connected>>
    BY DEF AttachAgain, ptySide, replies, TermInv, Typed
  <1>2. CASE Attaching(t)
    BY <1>1, <1>2, AttachingStep
  <1>3. CASE UNCHANGED <<screens, chain, tab>>
    BY <1>1, <1>3, StayStep
  <1> QED
    BY <1>2, <1>3 DEF AttachAgain

LEMMA DownStep ==
  ASSUME TermInv, Down
  PROVE  TermInv'
  <1>0. Typed /\ Ordered
    BY DEF TermInv
  <1>1. /\ connected' = FALSE /\ conn' = NoConn /\ wire' = <<>> /\ screens' = {} /\ chain' = <<>>
        /\ taken' = FALSE /\ settled = {} /\ spent' \in Nat
        /\ UNCHANGED <<pty, arrived, settled, running, session, again, shown>>
        /\ tab' = [t \in Tabs |->
             IF t \in Reading \ Waiting
             THEN [tab[t] EXCEPT !.at = "lost", !.ready = FALSE, !.turn = 0, !.buffer = <<>>]
             ELSE NoTab]
    <2>1. UNCHANGED <<settled, running>>
      BY DEF Down, replies
    <2>2. spent' \in Nat
      <3>1. Spend /\ spent \in Nat
        BY <1>0 DEF Down, Typed
      <3> QED
        BY <3>1 DEF Spend
    <2> QED
      BY <2>1, <2>2 DEF Down
  <1>2. /\ DOMAIN wire' = {} /\ wire' \in Seq(Message)
        /\ Len(chain') = 0 /\ 1..Len(chain') = {} /\ chain' \in Seq(Op)
    <2>1. <<>> \in Seq(Message) /\ <<>> \in Seq(Op) /\ DOMAIN <<>> = {} /\ Len(<<>>) = 0 /\ 1..0 = {}
      OBVIOUS
    <2> QED
      BY <1>1, <2>1
  <1>3. \A t \in Tabs: /\ tab'[t] \in TabRecord /\ tab'[t].at \in {"lost", "off"} /\ ~tab'[t].ready
                       /\ tab'[t].buffer = <<>>
    <2> SUFFICES ASSUME NEW t \in Tabs
                 PROVE  /\ tab'[t] \in TabRecord /\ tab'[t].at \in {"lost", "off"} /\ ~tab'[t].ready
                        /\ tab'[t].buffer = <<>>
      OBVIOUS
    <2>1. <<>> \in Seq(Nat) /\ tab[t] \in TabRecord
      BY <1>0 DEF Typed
    <2>2. CASE t \in Reading \ Waiting
      <3>1. tab'[t] = [tab[t] EXCEPT !.at = "lost", !.ready = FALSE, !.turn = 0, !.buffer = <<>>]
        BY <1>1, <2>2
      <3>2. tab[t] = [at |-> tab[t].at, ready |-> tab[t].ready, buffer |-> tab[t].buffer,
                      dropping |-> tab[t].dropping, turn |-> tab[t].turn]
        BY <2>1 DEF TabRecord
      <3>3. tab'[t] = [at |-> "lost", ready |-> FALSE, buffer |-> <<>>, dropping |-> tab[t].dropping, turn |-> 0]
        BY <3>1, <3>2
      <3>4. tab[t].dropping \in BOOLEAN
        BY <2>1 DEF TabRecord
      <3>5. tab'[t] \in TabRecord
        BY <2>1, <3>3, <3>4 DEF TabRecord
      <3> QED
        BY <3>3, <3>5
    <2>3. CASE t \notin Reading \ Waiting
      <3>1. tab'[t] = NoTab
        BY <1>1, <2>3
      <3> QED
        BY <2>1, <3>1 DEF TabRecord, NoTab
    <2> QED
      BY <2>2, <2>3
  <1>4. tab' \in [Tabs -> TabRecord]
    BY <1>1, <1>3
  <1>5. Reading' = {} /\ Waiting' = {}
    BY <1>3 DEF Reading, Waiting
  <1>6. ~(Alive') /\ \A t \in Tabs: ~(Attached(t)') /\ ~(Syncing(t)')
    BY <1>1, <1>3 DEF Alive, Attached, Syncing
  <1>7. Typed'
    BY <1>0, <1>1, <1>2, <1>4 DEF Typed, NoConn
  <1>8. Ordered'
    <2>1. \A t \in Tabs: DOMAIN tab'[t].buffer = {}
      BY <1>3
    <2> QED
      BY <1>0, <1>1, <1>2, <2>1 DEF Ordered
  <1>9. DownInv'
    BY <1>1, <1>3 DEF DownInv
  <1>10. ChainInv'
    <2>1. OneRequest'
      BY <1>1, <1>2 DEF OneRequest
    <2>2. Cycle' /\ Ends' /\ Streams'
      BY <1>6 DEF Cycle, Ends, Streams
    <2>3. Watched'
      BY <1>2 DEF Watched
    <2> QED
      BY <2>1, <2>2, <2>3 DEF ChainInv
  <1>11. ExitInv'
    <2>1. session # "live" => pty.ended
      BY DEF TermInv, ExitInv, Exits
    <2> QED
      BY <1>1, <1>2, <1>6, <2>1 DEF ExitInv, Exits, Over
  <1>12. Episodes'
    BY <1>1 DEF Episodes, NoConn
  <1>13. TurnInv'
    <2>1. \A r: ~(Outstanding(r)') /\ ~(OnWire(r)') /\ ~(Settled(r)')
      BY <1>1, <1>2 DEF Outstanding, OnWire, Settled
    <2>2. Unique' /\ Answered'
      BY <1>1, <1>2, <1>6, <2>1 DEF Unique, Answered
    <2>3. Bounded'
      BY <2>1 DEF Bounded
    <2> QED
      BY <2>2, <2>3 DEF TurnInv
  <1>14. FollowInv'
    BY <1>6 DEF FollowInv, WireFollows, LiveFollows, ScreenFollows, LateFollows, ShownInv, Attachment
  <1> QED
    BY <1>7, <1>8, <1>9, <1>10, <1>11, <1>12, <1>13, <1>14 DEF TermInv

LEMMA UpStep ==
  ASSUME TermInv, Up
  PROVE  TermInv'
  <1>0. Typed /\ Ordered /\ DownInv
    BY DEF TermInv
  <1>1. /\ ~connected /\ connected' = TRUE /\ session' = (IF pty.ended THEN "over" ELSE session)
        /\ conn' = [NoConn EXCEPT !.watch = ~pty.ended]
        /\ UNCHANGED <<pty, wire, screens, taken, arrived, settled, running, again, shown, spent>>
    BY DEF Up, replies
  <1>2. /\ wire = <<>> /\ chain = <<>> /\ screens = {} /\ settled = {} /\ ~taken
        /\ \A t \in Tabs: tab[t].at \in {"lost", "off"} /\ ~tab[t].ready
    BY <1>0, <1>1 DEF DownInv
  <1>3. DOMAIN wire' = {} /\ wire' \in Seq(Message)
    BY <1>1, <1>2
  <1>4. pty.ended \in BOOLEAN /\ (session # "live" => pty.ended)
    BY <1>0 DEF Typed, TermInv, ExitInv, Exits
  <1>5. /\ conn'.stream = FALSE /\ conn'.watch = ~pty.ended /\ conn'.episode = "none"
        /\ conn' \in [stream: BOOLEAN, watch: BOOLEAN, episode: {"none", "open", "more"}, callbacks: Nat]
    BY <1>1, <1>4 DEF NoConn
  <1>6. /\ tab' \in [Tabs -> TabRecord]
        /\ \A t \in Tabs: /\ tab'[t].at \in {"off", "syncing"} /\ ~tab'[t].ready
                          /\ tab'[t].at = "syncing" <=> t \in On /\ ~pty.ended
                          /\ \A i \in DOMAIN tab'[t].buffer: tab'[t].buffer[i] <= arrived
    <2>0. \A t \in Tabs: tab[t] \in TabRecord
      BY <1>0 DEF Typed
    <2>1. CASE pty.ended
      <3>1. Removed(On) /\ On \in SUBSET Tabs
        BY <2>1 DEF Up, On
      <3>2. /\ tab' \in [Tabs -> TabRecord]
            /\ \A t \in On: tab'[t].at = "off" /\ ~tab'[t].ready /\ tab'[t].buffer = <<>>
            /\ \A t \in Tabs \ On: tab'[t] = tab[t]
        BY <1>0, <3>1, RemovedIs
      <3>3. \A t \in Tabs \ On: tab[t].at = "off"
        BY DEF On
      <3>4. \A t \in Tabs: \A i \in DOMAIN tab'[t].buffer: tab'[t].buffer[i] <= arrived
        <4>1. \A t \in On: DOMAIN tab'[t].buffer = {}
          BY <3>2
        <4> QED
          BY <1>0, <3>2, <4>1 DEF Ordered
      <3> QED
        BY <1>2, <2>1, <3>2, <3>3, <3>4
    <2>2. CASE ~pty.ended
      <3>1. tab' = [t \in Tabs |-> IF t \in On THEN [tab[t] EXCEPT !.at = "syncing"] ELSE tab[t]]
        BY <2>2 DEF Up
      <3>2. \A t \in Tabs: /\ tab'[t] \in TabRecord /\ tab'[t].ready = tab[t].ready
                           /\ tab'[t].buffer = tab[t].buffer
                           /\ tab'[t].at = IF t \in On THEN "syncing" ELSE "off"
        <4> SUFFICES ASSUME NEW t \in Tabs
                     PROVE  /\ tab'[t] \in TabRecord /\ tab'[t].ready = tab[t].ready
                            /\ tab'[t].buffer = tab[t].buffer
                            /\ tab'[t].at = IF t \in On THEN "syncing" ELSE "off"
          OBVIOUS
        <4>1. CASE t \in On
          <5>1. tab'[t] = [tab[t] EXCEPT !.at = "syncing"]
            BY <3>1, <4>1
          <5> QED
            BY <2>0, <4>1, <5>1 DEF TabRecord
        <4>2. CASE t \notin On
          BY <2>0, <3>1, <4>2 DEF On
        <4> QED
          BY <4>1, <4>2
      <3> QED
        BY <1>0, <1>2, <2>2, <3>1, <3>2 DEF Ordered
    <2> QED
      BY <1>4, <2>1, <2>2
  <1>7. /\ Reading' = (IF pty.ended THEN {} ELSE On) /\ Waiting' = Reading'
        /\ \A t \in Tabs: ~(Attached(t)') /\ ~(Syncing(t)')
    BY <1>6 DEF Reading, Waiting, Attached, Syncing, On
  <1>8. /\ chain' \in Seq(Op) /\ (pty.ended => chain' = <<>>)
        /\ ~pty.ended => chain' = IF On = {} THEN <<>> ELSE <<"attach">>
    <2>1. <<>> \in Seq(Op) /\ <<"attach">> \in Seq(Op)
      BY DEF Op
    <2>2. pty.ended => chain' = <<>>
      BY <1>2 DEF Up
    <2>3. ~pty.ended => chain' = IF On = {} THEN <<>> ELSE <<"attach">>
      BY DEF Up
    <2>4. pty.ended \/ ~pty.ended
      OBVIOUS
    <2> QED
      BY <2>1, <2>2, <2>3, <2>4
  <1>9. Alive' <=> ~pty.ended
    BY <1>0, <1>1, <1>4 DEF Alive, Typed
  <1>10. /\ \/ chain' = <<>> /\ Len(chain') = 0
            \/ chain' = <<"attach">> /\ Len(chain') = 1 /\ chain'[1] = "attach" /\ Head(chain') = "attach" /\ chain' # <<>>
    BY <1>4, <1>8
  <1>11. Typed'
    BY <1>0, <1>1, <1>2, <1>3, <1>5, <1>6, <1>8 DEF Typed
  <1>12. Ordered'
    BY <1>0, <1>1, <1>2, <1>3, <1>6 DEF Ordered
  <1>13. DownInv'
    BY <1>1, <1>6 DEF DownInv
  <1>14. ChainInv'
    <2>1. OneRequest'
      BY <1>1, <1>2, <1>3 DEF OneRequest
    <2>2. Cycle' /\ Watched'
      BY <1>10 DEF Cycle, Watched
    <2>3. Ends'
      BY <1>7, <1>8, <1>9, <1>10 DEF Ends
    <2>4. Streams'
      <3> SUFFICES ASSUME ~pty.ended PROVE conn'.stream = (Executed = "attach")' /\ conn'.watch = (Executed # "detach")'
        BY <1>9 DEF Streams
      <3>1. Executed' = "watch"
        <4>1. CASE On = {}
          BY <1>7, <1>8, <4>1 DEF Executed
        <4>2. CASE On # {}
          <5>1. chain' = <<"attach">> /\ Head(chain') = "attach" /\ chain' # <<>> /\ ~taken'
            BY <1>1, <1>2, <1>8, <4>2
          <5>2. Executed' = Succ(Succ("attach"))
            BY <5>1 DEF Executed, Succ
          <5> QED
            BY <5>2 DEF Succ
        <4> QED
          BY <4>1, <4>2
      <3> QED
        BY <1>5, <3>1
    <2> QED
      BY <2>1, <2>2, <2>3, <2>4 DEF ChainInv
  <1>15. ExitInv'
    <2>1. Exits'
      BY <1>1, <1>2, <1>3, <1>4, <1>9 DEF Exits
    <2>2. session' # "live" => pty.ended
      BY <1>1, <1>4
    <2>3. Over'
      BY <1>1, <1>2, <1>3, <1>7, <2>2 DEF Over
    <2> QED
      BY <2>1, <2>3 DEF ExitInv
  <1>16. Episodes'
    BY <1>5 DEF Episodes
  <1>17. TurnInv'
    <2>1. \A r: ~(Outstanding(r)') /\ ~(OnWire(r)') /\ ~(Settled(r)')
      BY <1>1, <1>2, <1>3 DEF Outstanding, OnWire, Settled
    <2>2. Unique' /\ Answered'
      BY <1>1, <1>2, <1>3, <1>7, <2>1 DEF Unique, Answered
    <2>3. Bounded'
      BY <2>1 DEF Bounded
    <2> QED
      BY <2>2, <2>3 DEF TurnInv
  <1>18. FollowInv'
    BY <1>3, <1>7 DEF FollowInv, WireFollows, LiveFollows, ScreenFollows, LateFollows, ShownInv, Attachment
  <1> QED
    BY <1>11, <1>12, <1>13, <1>14, <1>15, <1>16, <1>17, <1>18 DEF TermInv

LEMMA EndRowStep ==
  ASSUME TermInv, EndRow
  PROVE  TermInv'
  <1>1. /\ session = "told" /\ session' = "over"
        /\ UNCHANGED <<pty, conn, connected, wire, screens, chain, taken, arrived, settled, running,
                       tab, again, shown, spent>>
    BY DEF EndRow, ptySide, replies, tabSide
  <1>2. /\ Reading' = Reading /\ Waiting' = Waiting /\ ~(Alive') /\ ~Alive
        /\ \A u \in Tabs: /\ Attached(u)' <=> Attached(u)
                          /\ Syncing(u)' <=> Syncing(u)
                          /\ Asked(u)' = Asked(u)
    BY <1>1 DEF Reading, Waiting, Alive, Attached, Syncing, Asked
  <1>3. Typed'
    BY <1>1 DEF TermInv, Typed
  <1>4. Ordered' /\ DownInv' /\ Episodes'
    BY <1>1 DEF TermInv, Ordered, DownInv, Episodes, IsOutput, IsScreen, IsDone
  <1>5. ChainInv'
    BY <1>1, <1>2 DEF TermInv, ChainInv, OneRequest, IsDone, Cycle, Ends, Streams, Watched
  <1>6. ExitInv'
    BY <1>1, <1>2 DEF TermInv, ExitInv, Exits, Over, IsExit, IsDone
  <1>7. TurnInv'
    <2>1. /\ \A r: Outstanding(r)' <=> Outstanding(r)
          /\ Unique' /\ Bounded'
      BY <1>1, TurnsStay DEF TermInv, TurnInv
    <2> QED
      BY <1>2, <2>1 DEF TermInv, TurnInv, Answered
  <1>8. FollowInv'
    BY <1>1, <1>2 DEF TermInv, FollowInv, WireFollows, LiveFollows, ScreenFollows, LateFollows, ShownInv, Attachment
  <1> QED
    BY <1>3, <1>4, <1>5, <1>6, <1>7, <1>8 DEF TermInv

-----------------------------------------------------------------------------
(* The invariant holds at the start, and every step keeps it.              *)

LEMMA TermInitially ==
  ASSUME TerminalInit
  PROVE  TermInv
  <1>1. /\ pty = [out |-> 0, ended |-> FALSE] /\ conn = [NoConn EXCEPT !.watch = TRUE]
        /\ connected = TRUE /\ wire = <<>> /\ screens = {} /\ chain = <<>> /\ taken = FALSE
        /\ arrived = 0 /\ settled = {} /\ running = FALSE /\ session = "live"
        /\ tab = [t \in Tabs |-> NoTab] /\ again = {} /\ shown = [t \in Tabs |-> 0] /\ spent = 0
    BY DEF TerminalInit
  <1>2. /\ DOMAIN wire = {} /\ wire \in Seq(Message)
        /\ Len(chain) = 0 /\ 1..Len(chain) = {} /\ 1..(Len(chain) - 1) = {} /\ chain \in Seq(Op)
    BY <1>1
  <1>3. NoTab \in TabRecord /\ NoTab.at = "off" /\ ~NoTab.ready /\ DOMAIN NoTab.buffer = {}
    <2>1. <<>> \in Seq(Nat)
      OBVIOUS
    <2> QED
      BY <2>1 DEF NoTab, TabRecord
  <1>4. \A t \in Tabs: tab[t] = NoTab
    BY <1>1
  <1>5. Reading = {} /\ Waiting = {} /\ \A t \in Tabs: ~Attached(t) /\ ~Syncing(t)
    BY <1>3, <1>4 DEF Reading, Waiting, Attached, Syncing
  <1>6. Alive /\ Executed = "watch" /\ MaxOut \in Nat
    BY <1>1, <1>5, TerminalBounds DEF Alive, Executed
  <1>7. conn = [stream |-> FALSE, watch |-> TRUE, episode |-> "none", callbacks |-> 0]
    BY <1>1 DEF NoConn
  <1>8. Typed
    <2>1. pty \in [out: 0..MaxOut, ended: BOOLEAN] /\ arrived \in 0..pty.out
      BY <1>1, <1>6
    <2>2. tab \in [Tabs -> TabRecord] /\ shown \in [Tabs -> Int]
      BY <1>1, <1>3
    <2>3. conn \in [stream: BOOLEAN, watch: BOOLEAN, episode: {"none", "open", "more"}, callbacks: Nat]
      BY <1>7
    <2> QED
      BY <1>1, <1>2, <2>1, <2>2, <2>3 DEF Typed
  <1>9. Ordered /\ DownInv
    BY <1>1, <1>2, <1>3, <1>4 DEF Ordered, DownInv
  <1>10. ChainInv
    <2>1. OneRequest
      BY <1>1, <1>2 DEF OneRequest
    <2>2. Cycle /\ Watched
      BY <1>2 DEF Cycle, Watched
    <2>3. Ends
      BY <1>1, <1>5 DEF Ends
    <2>4. conn.stream = FALSE /\ conn.watch = TRUE
      BY <1>7
    <2>5. Streams
      BY <1>6, <2>4 DEF Streams
    <2> QED
      BY <2>1, <2>2, <2>3, <2>5 DEF ChainInv
  <1>11. ExitInv
    BY <1>1, <1>2 DEF ExitInv, Exits, Over
  <1>12. Episodes
    BY <1>7 DEF Episodes
  <1>13. TurnInv
    <2>1. \A r: ~Outstanding(r) /\ ~OnWire(r) /\ ~Settled(r)
      BY <1>1, <1>2 DEF Outstanding, OnWire, Settled
    <2>2. Unique /\ Answered
      BY <1>1, <1>2, <1>5, <2>1 DEF Unique, Answered
    <2>3. Bounded
      BY <2>1 DEF Bounded
    <2> QED
      BY <2>2, <2>3 DEF TurnInv
  <1>14. FollowInv
    BY <1>2, <1>5 DEF FollowInv, WireFollows, LiveFollows, ScreenFollows, LateFollows, ShownInv, Attachment
  <1> QED
    BY <1>8, <1>9, <1>10, <1>11, <1>12, <1>13, <1>14 DEF TermInv

LEMMA TermNext ==
  ASSUME TermInv, [TerminalNext]_terminalVars
  PROVE  TermInv'
  <1>1. CASE Deckd
    BY <1>1, OutputStep, EndEpisodeStep, ExitStep, TakeRequestStep, TakeScreenStep DEF Deckd
  <1>2. CASE Arrives
    BY <1>2, OnOutputStep, OnDroppedStep, OnExitStep, OnReplyStep DEF Arrives
  <1>3. CASE Continues
    BY <1>3, AfterRequestStep, AfterScreenStep DEF Continues
  <1>4. CASE Owner
    BY <1>4, AttachStep, DetachStep DEF Owner
  <1>5. CASE Fails
    BY <1>5, DownStep, ScreenTimeoutStep DEF Fails
  <1>6. CASE Repairs
    BY <1>6, UpStep, EndRowStep, AttachAgainStep DEF Repairs
  <1>7. CASE UNCHANGED terminalVars
    <2>1. again' \subseteq Tabs /\ spent' \in Nat
      BY <1>7 DEF terminalVars, tabSide, TermInv, Typed
    <2> QED
      BY <1>7, <2>1, StayStep DEF terminalVars, ptySide, linkSide, tabSide, replies
  <1> QED
    BY <1>1, <1>2, <1>3, <1>4, <1>5, <1>6, <1>7 DEF TerminalNext

-----------------------------------------------------------------------------
(* The inductive invariant of the terminal's output.                       *)
THEOREM TerminalInvariant == TerminalSpec => []TermInv
  <1>1. TerminalInit => TermInv
    BY TermInitially
  <1>2. TermInv /\ [TerminalNext]_terminalVars => TermInv'
    BY TermNext
  <1> QED
    BY <1>1, <1>2, PTL DEF TerminalSpec

LEMMA TypedOK ==
  ASSUME TermInv
  PROVE  TerminalOK
  <1>1. Typed /\ DownInv /\ ChainInv
    BY DEF TermInv
  <1>2. /\ pty.out \in 0..MaxOut /\ pty.ended \in BOOLEAN
        /\ conn.episode \in {"none", "open", "more"} /\ conn.callbacks \in Nat
        /\ {conn.stream, conn.watch, connected, taken} \subseteq BOOLEAN
        /\ arrived \in 0..pty.out /\ session \in {"live", "told", "over"} /\ again \subseteq Tabs
    BY <1>1 DEF Typed
  <1>3. Range(chain) \subseteq {"attach", "detach", "watch"}
    BY <1>1, LastIs DEF Typed, Range, Op
  <1>4. \A t \in Tabs: tab[t].at \in {"off", "lost", "syncing", "live"}
    BY <1>1 DEF Typed, TabRecord
  <1> QED
    BY <1>1, <1>2, <1>3, <1>4 DEF TerminalOK, DownInv, ChainInv, OneRequest

(* A tab whose attach was answered shows neither a gap nor a chunk twice,  *)
(* for any number of tabs, chunks and faults (bridge.mjs: sync, output;    *)
(* main.mjs: sendOutput).                                                  *)
THEOREM UntornHolds == TerminalSpec => []Untorn
  <1>1. TermInv => Untorn
    BY TypedOK DEF Untorn, TermInv, FollowInv, ShownInv
  <1> QED
    BY <1>1, TerminalInvariant, PTL

(* deckd streams exactly when a tab reads, and watches, once the requests  *)
(* of the tabs that came and went are answered (ptyOf, removeTab).         *)
THEOREM StreamFollows == TerminalSpec => []StreamFollowsTabs
  <1>1. ASSUME TermInv PROVE StreamFollowsTabs
    <2> SUFFICES ASSUME connected, chain = <<>>, ~pty.ended
                 PROVE  conn.watch /\ (conn.stream <=> Reading # {})
      BY DEF StreamFollowsTabs
    <2>1. Alive
      BY <1>1 DEF TermInv, ExitInv, Exits, Alive
    <2>2. conn.stream = (Executed = "attach") /\ conn.watch = (Executed # "detach")
      BY <1>1, <2>1 DEF TermInv, ChainInv, Streams
    <2>3. Executed = IF Reading = {} THEN "watch" ELSE "attach"
      BY DEF Executed
    <2> QED
      BY <2>2, <2>3
  <1>2. TermInv => StreamFollowsTabs
    BY <1>1
  <1> QED
    BY <1>2, TerminalInvariant, PTL

(* At rest an attached tab shows all there is, but for one that was        *)
(* dropping output when the link was lost (sync, sendOutput, AttachAgain). *)
THEOREM QuietHolds == TerminalSpec => []QuietIsCurrent
  <1>1. ASSUME TermInv PROVE QuietIsCurrent
    <2> SUFFICES ASSUME AtRest, NEW t \in On PROVE Current(t) \/ Frozen(t)
      BY DEF QuietIsCurrent
    <2>1. /\ connected /\ wire = <<>> /\ settled = {} /\ screens = {} /\ chain = <<>> /\ conn.callbacks = 0
          /\ DOMAIN wire = {} /\ DOMAIN chain = {}
      BY DEF AtRest
    <2>2. t \in Tabs /\ t \in Reading /\ tab[t] \in TabRecord
      <3>1. t \in Tabs /\ tab[t].at # "off"
        BY DEF On
      <3>2. tab[t] \in TabRecord
        BY <1>1, <3>1 DEF TermInv, Typed
      <3>3. tab[t].at # "lost"
        BY <1>1, <2>1, <3>1 DEF TermInv, DownInv
      <3> QED
        BY <3>1, <3>2, <3>3 DEF Reading, TabRecord
    <2>3. Alive /\ tab[t].ready
      <3>1. ASSUME t \in Waiting PROVE FALSE
        <4>1. ~Alive => \E i \in DOMAIN chain: chain[i] = "attach"
          BY <1>1, <2>1, <3>1 DEF TermInv, ExitInv, Over, Alive
        <4>2. Alive => Waiting = {}
          BY <1>1, <2>1 DEF TermInv, ChainInv, Ends
        <4> QED
          BY <2>1, <3>1, <4>1, <4>2
      <3>2. tab[t].ready
        BY <2>2, <3>1 DEF Waiting
      <3> QED
        BY <1>1, <2>2, <3>2, ReadyIs DEF Reading
    <2>4. tab[t].at = "live"
      <3>1. \A r: ~Outstanding(r)
        BY <2>1 DEF Outstanding, OnWire, Settled
      <3>2. ~Syncing(t)
        BY <1>1, <2>2, <3>1 DEF TermInv, TurnInv, Answered
      <3> QED
        BY <2>2, <2>3, <3>2 DEF Syncing, Reading
    <2>5. ~tab[t].dropping => pty.out = shown[t]
      <3>1. conn.episode = "none"
        BY <1>1, <2>1 DEF TermInv, Episodes, Typed
      <3>2. ~tab[t].dropping => Follows(0, shown[t])
        BY <1>1, <2>2, <2>3, <2>4 DEF TermInv, FollowInv, LiveFollows, Attached
      <3>3. Len(wire) = 0 /\ Silent(0, Len(wire) + 1)
        <4>1. Len(wire) = 0
          BY <2>1
        <4>2. (0 + 1)..((Len(wire) + 1) - 1) = {}
          BY <4>1
        <4> QED
          BY <4>1, <4>2 DEF Silent
      <3> QED
        BY <3>1, <3>2, <3>3 DEF Follows
    <2> QED
      BY <2>4, <2>5 DEF Current, Frozen
  <1>2. TermInv => QuietIsCurrent
    BY <1>1
  <1> QED
    BY <1>2, TerminalInvariant, PTL
=============================================================================
