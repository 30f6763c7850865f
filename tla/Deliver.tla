------------------------------ MODULE Deliver -------------------------------
(***************************************************************************)
(* Answering one permission request from the deck: approvals/deliver.mjs   *)
(* with the closing rules of machines/request.mjs.  An answer is typed     *)
(* into the session's terminal by deckd, and nothing but a later screen or *)
(* a later hook shows that it landed.  Meanwhile the owner may answer in   *)
(* the terminal, the request may expire, a hook may close it while the     *)
(* keys are on their way, and the server may be killed.                    *)
(*                                                                         *)
(* The server is one JavaScript thread: an action here is what runs        *)
(* between two awaits.  The database row and the audit survive a crash,    *)
(* the attempts and the watch do not.                                      *)
(***************************************************************************)
EXTENDS Naturals, Sequences

CONSTANTS
    Calls,        \* the answer calls that may be in flight
    MaxAnswers,   \* bound: answers the deck is asked for
    MaxCrashes,   \* bound: server crashes
    MaxRetries    \* SCREEN_RETRIES

ASSUME BoundsAssumption ==
    MaxAnswers \in Nat /\ MaxCrashes \in Nat /\ MaxRetries \in Nat

VARIABLES
    state, delivery, answer, tier,  \* the `requests` row
    audit,      \* the request's `answered` rows in approval_audit
    counted,    \* how often the request raised the allow counter of its rule
    up,         \* the server runs
    calls,      \* the calls of `attempt` in flight; also the set `busy`
    watch,      \* verify's timers and pollers for this request
    typed,      \* choices deckd has typed the keys of
    answers, crashes

row == <<state, delivery, answer, tier>>
books == <<audit, counted>>
bounds == <<answers, crashes>>
vars == <<state, delivery, answer, tier, audit, counted, up, calls, watch,
          typed, answers, crashes>>

Choice == {"allow", "deny"}
Tiers == {"safe", "caution", "destructive"}
Rank(t) == CASE t = "safe" -> 0 [] t = "caution" -> 1 [] t = "destructive" -> 2

NoAnswer == [kind |-> "none"]
Final(via, choice) == [kind |-> "final", via |-> via, choice |-> choice]
Terminal(choice) == Final("terminal", choice)
Finals == [kind : {"final"}, via : {"deck", "terminal"}, choice : Choice]
(* What the deck sent, and the earlier answer that did not land.           *)
Sents == [kind : {"sent"}, choice : Choice, prior : Choice \cup {"none"}]
(* A hook closed the row while the write was in flight.                    *)
Pendings == [kind : {"pending"}, choice : Choice,
             accepted : Finals, refused : Finals]
Answers == {NoAnswer} \cup Finals \cup Sents \cup Pendings

Idle == [pc |-> "idle"]
Call == [pc : {"screen", "scan", "write"}, choice : Choice,
         batch : BOOLEAN, confirm : BOOLEAN, sending : BOOLEAN, tries : Nat,
         wasDelivery : {"idle", "did_not_land"}, wasAnswer : Answers,
         prior : Choice \cup {"none"}]

NoWatch == [on |-> FALSE]
Watch == [on : {TRUE}, late : BOOLEAN, choice : Choice]

TypeOK ==
    /\ state \in {"open", "answered", "expired"}
    /\ delivery \in {"idle", "sending", "verifying", "did_not_land"}
    /\ answer \in Answers /\ tier \in Tiers
    /\ audit \in Seq(Finals)
    /\ counted \in Nat /\ up \in BOOLEAN
    /\ calls \in [Calls -> Call \cup {Idle}]
    /\ watch \in Watch \cup {NoWatch}
    /\ typed \subseteq Choice
    /\ answers \in 0..MaxAnswers /\ crashes \in 0..MaxCrashes

Init ==
    /\ state = "open" /\ delivery = "idle" /\ answer = NoAnswer
    /\ tier \in {"safe", "destructive"}
    /\ audit = <<>> /\ counted = 0 /\ up = TRUE
    /\ calls = [c \in Calls |-> Idle]
    /\ watch = NoWatch /\ typed = {} /\ answers = 0 /\ crashes = 0

-----------------------------------------------------------------------------
(* Seeded fault: the row is appended whether or not there is one.          *)
RecordAgain(final) == audit' = Append(audit, final)

(* recordAnswered: the row is appended only when there is none yet.        *)
Record(final) ==
    audit' = IF audit = <<>> THEN <<final>> ELSE audit

(* recordAllow counts an allow of a Safe request.                          *)
Count(final) ==
    counted' = IF final.choice = "allow" /\ tier = "safe"
               THEN counted + 1 ELSE counted
(* proved: a terminal answer was counted by the hook that recorded it.     *)
Proved(final) ==
    /\ Record(final)
    /\ IF final.via = "deck" THEN Count(final) ELSE UNCHANGED counted

(* judge: the deck's answer when the hook is in time and agrees with it.   *)
Judge(sent, verdict, inTime) ==
    IF inTime /\ sent = verdict THEN Final("deck", sent) ELSE Terminal(verdict)

(* Seeded fault: keys on their way count as typed.                         *)
ClosingAnswerEager(verdict, inTime, priorInTime) ==
    IF delivery = "idle" THEN Terminal(verdict)
    ELSE Judge(answer.choice, verdict, inTime)

(* closingAnswer, before and after deckd's word on the keys.               *)
ClosingAnswer(verdict, inTime, priorInTime) ==
    IF delivery = "sending" THEN
        [kind |-> "pending", choice |-> verdict,
         accepted |-> Judge(answer.choice, verdict, inTime),
         refused |-> Judge(answer.prior, verdict, priorInTime)]
    ELSE IF delivery \in {"verifying", "did_not_land"} THEN
        Judge(answer.choice, verdict, inTime)
    ELSE Terminal(verdict)

(* tierChecks: a batch answers Safe requests only, and a Destructive one   *)
(* is allowed only with its confirmation.                                  *)
TierAllows(call, t) ==
    /\ call.batch => t = "safe"
    /\ t = "destructive" /\ call.choice # "deny" => call.confirm

-----------------------------------------------------------------------------
(* POST of an answer, up to the first await.                               *)
Answer(c, choice, batch, confirm) ==
    /\ up /\ answers < MaxAnswers
    /\ calls[c] = Idle
    /\ state = "open"
    /\ \A d \in Calls : calls[d] = Idle
    /\ delivery \notin {"sending", "verifying"}
    /\ batch => choice = "allow" /\ ~confirm
    /\ LET call == [pc |-> "screen", choice |-> choice, batch |-> batch,
                    confirm |-> confirm, sending |-> FALSE, tries |-> 0,
                    wasDelivery |-> delivery, wasAnswer |-> answer,
                    prior |-> IF delivery = "did_not_land"
                              THEN answer.choice ELSE "none"]
       IN  TierAllows(call, tier) /\ calls' = [calls EXCEPT ![c] = call]
    /\ answers' = answers + 1
    /\ UNCHANGED <<row, books, up, watch, typed, crashes>>

(* The catch block: an attempt that was recorded is taken back, and a      *)
(* verdict a hook left behind is applied as if nothing had been typed.     *)
Fail(c) ==
    /\ calls' = [calls EXCEPT ![c] = Idle]
    /\ IF ~calls[c].sending THEN
           UNCHANGED <<state, delivery, answer, audit, counted, watch>>
       ELSE /\ UNCHANGED state
            /\ IF state = "open" THEN
                   /\ delivery' = calls[c].wasDelivery
                   /\ answer' = calls[c].wasAnswer
                   /\ UNCHANGED <<audit, counted, watch>>
               ELSE IF answer.kind = "pending" THEN
                   /\ answer' = answer.refused
                   /\ delivery' = IF answer.refused.via = "deck"
                                  THEN "verifying" ELSE "idle"
                   /\ Record(answer.refused)
                   /\ \/ Count(answer.refused)
                      \/ answer.refused.via = "terminal" /\ UNCHANGED counted
                   /\ watch' = NoWatch
               ELSE /\ answer' = IF state = "answered" THEN answer
                                 ELSE calls[c].wasAnswer
                    /\ delivery' = "idle"
                    /\ UNCHANGED <<audit, counted, watch>>

(* Seeded fault: the rules are not asked again before the keys leave.      *)
SendUnasked(c, t) ==
    /\ delivery' = "sending"
    /\ answer' = [kind |-> "sent", choice |-> calls[c].choice,
                  prior |-> calls[c].prior]
    /\ calls' = [calls EXCEPT ![c].pc = "write", ![c].sending = TRUE]
    /\ UNCHANGED <<state, audit, counted, watch>>

(* The rules once more, on the tier the row has by now; then the attempt   *)
(* is recorded and the keys go to deckd.                                   *)
Send(c, t) ==
    IF TierAllows(calls[c], t)
    THEN /\ delivery' = "sending"
         /\ answer' = [kind |-> "sent", choice |-> calls[c].choice,
                       prior |-> calls[c].prior]
         /\ calls' = [calls EXCEPT ![c].pc = "write", ![c].sending = TRUE]
         /\ UNCHANGED <<state, audit, counted, watch>>
    ELSE Fail(c)

(* The screen was read: it shows this request, or the attempt fails.  An   *)
(* allow waits for the extension scan first.                               *)
ReadScreen(c) ==
    /\ calls[c].pc = "screen"
    /\ \/ Fail(c)
       \/ /\ state = "open"
          /\ \/ /\ calls[c].choice = "allow"
                /\ calls' = [calls EXCEPT ![c].pc = "scan"]
                /\ UNCHANGED <<state, delivery, answer, audit, counted, watch>>
             \/ calls[c].choice = "deny" /\ Send(c, tier)
    /\ UNCHANGED <<tier, up, typed, bounds>>

Scan(c) ==
    /\ calls[c].pc = "scan"
    /\ \/ state # "open" /\ Fail(c) /\ UNCHANGED tier
       \/ /\ state = "open"
          /\ \E t \in Tiers : Rank(t) >= Rank(tier) /\ tier' = t /\ Send(c, t)
    /\ UNCHANGED <<up, typed, bounds>>

(* deckd typed the keys and said so.                                       *)
WriteAccepted(c) ==
    /\ calls[c].pc = "write"
    /\ typed' = typed \cup {calls[c].choice}
    /\ calls' = [calls EXCEPT ![c] = Idle]
    /\ IF state = "open" THEN
           /\ delivery' = "verifying"
           /\ watch' = [on |-> TRUE, late |-> FALSE, choice |-> calls[c].choice]
           /\ UNCHANGED <<state, answer, audit, counted>>
       ELSE /\ watch' = NoWatch /\ UNCHANGED state
            /\ IF answer.kind = "pending" THEN
                   /\ answer' = answer.accepted
                   /\ delivery' = IF answer.accepted.via = "deck"
                                  THEN "verifying" ELSE "idle"
                   /\ Record(answer.accepted)
                   /\ \/ Count(answer.accepted)
                      \/ answer.accepted.via = "terminal" /\ UNCHANGED counted
               ELSE /\ answer' = IF state = "answered" THEN answer
                                 ELSE calls[c].wasAnswer
                    /\ delivery' = "idle"
                    /\ UNCHANGED <<audit, counted>>
    /\ UNCHANGED <<tier, up, bounds>>

(* deckd refused: the screen changed, and it is read again, or the call    *)
(* fails.  A reply that is lost is a failure too, typed or not.            *)
WriteRefused(c) ==
    /\ calls[c].pc = "write"
    /\ \/ /\ calls[c].tries < MaxRetries
          /\ calls' = [calls EXCEPT ![c].pc = "screen", ![c].tries = @ + 1]
          /\ UNCHANGED <<state, delivery, answer, audit, counted, watch, typed>>
       \/ Fail(c) /\ typed' \in {typed, typed \cup {calls[c].choice}}
    /\ UNCHANGED <<tier, up, bounds>>

-----------------------------------------------------------------------------
(* closedByHook: the watch finds the row closed and books the answer.      *)
ClosedByHook ==
    /\ state # "open" /\ answer.kind # "pending"
    /\ watch' = NoWatch
    /\ IF state = "answered" THEN Proved(answer) ELSE UNCHANGED books
    /\ UNCHANGED row

Poll ==
    /\ up /\ watch.on /\ ClosedByHook
    /\ UNCHANGED <<up, calls, typed, bounds>>

(* Seeded fault: the row is not read again before the screen's proof.      *)
PromptGoneBlind ==
    /\ up /\ watch.on /\ ~watch.late
    /\ state' = "answered" /\ answer' = Final("deck", watch.choice)
    /\ Proved(answer')
    /\ watch' = NoWatch
    /\ UNCHANGED <<delivery, tier, up, calls, typed, bounds>>

(* A screen without the prompt proves the answer within verifyMs.          *)
PromptGone ==
    /\ up /\ watch.on /\ ~watch.late
    /\ \/ ClosedByHook
       \/ /\ state = "open"
          /\ state' = "answered" /\ answer' = Final("deck", watch.choice)
          /\ Proved(answer')
          /\ watch' = NoWatch
          /\ UNCHANGED <<delivery, tier>>
    /\ UNCHANGED <<up, calls, typed, bounds>>
(* verifyMs is over without proof; a late hook may still bring it.         *)
VerifyTimeout ==
    /\ up /\ watch.on /\ ~watch.late
    /\ \/ ClosedByHook
       \/ /\ state = "open"
          /\ delivery' = "did_not_land"
          /\ watch' = [watch EXCEPT !.late = TRUE]
          /\ UNCHANGED <<state, answer, tier, books>>
    /\ UNCHANGED <<up, calls, typed, bounds>>

LateTimeout ==
    /\ up /\ watch.on /\ watch.late
    /\ watch' = NoWatch
    /\ UNCHANGED <<row, books, up, calls, typed, bounds>>

-----------------------------------------------------------------------------
(* A hook closes the request: applyRequestHook and the server's auditClosed.*)
(* The hook's time is within the sent answer's `until` or not, and within  *)
(* that of the answer before it, which is earlier; a terminal allow counts *)
(* when both hooks came from one Claude process.                           *)
Hook(verdict, inTime, priorInTime) ==
    /\ up /\ state = "open"
    /\ priorInTime => inTime
    /\ state' = "answered"
    /\ answer' = ClosingAnswer(verdict, inTime, priorInTime)
    /\ IF answer'.kind = "final" /\ answer'.via = "terminal"
       THEN Record(answer') /\ (Count(answer') \/ UNCHANGED counted)
       ELSE UNCHANGED books
    /\ UNCHANGED <<delivery, tier, up, calls, watch, typed, bounds>>

(* The process ended, the session was replaced, the prompt went idle.      *)
Expire ==
    /\ up /\ state = "open"
    /\ state' = "expired"
    /\ UNCHANGED <<delivery, answer, tier, books, up, calls, watch, typed, bounds>>

(* raiseTiers and the pre-scan: an open request's tier only rises.         *)
RaiseTier ==
    /\ up /\ state = "open"
    /\ \E t \in Tiers : Rank(t) > Rank(tier) /\ tier' = t
    /\ UNCHANGED <<state, delivery, answer, books, up, calls, watch, typed, bounds>>

(* The server is killed between two turns of its event loop; deckd is      *)
(* another process and may still type what it was given.                   *)
Crash ==
    /\ up /\ crashes < MaxCrashes
    /\ up' = FALSE /\ crashes' = crashes + 1
    /\ calls' = [c \in Calls |-> Idle]
    /\ watch' = NoWatch
    /\ \E late \in SUBSET {calls[c].choice : c \in {d \in Calls : calls[d].pc = "write"}} :
           typed' = typed \cup late
    /\ UNCHANGED <<row, books, answers>>

(* Seeded fault: only what was being sent is recovered.                    *)
RestartSendingOnly ==
    /\ ~up /\ up' = TRUE
    /\ IF state = "open" /\ delivery = "sending"
       THEN delivery' = "idle" /\ answer' = NoAnswer
       ELSE UNCHANGED <<delivery, answer>>
    /\ UNCHANGED <<state, tier, books, calls, watch, typed, bounds>>

(* recover, once at start.                                                 *)
Restart ==
    /\ ~up /\ up' = TRUE
    /\ IF state = "open" /\ delivery \in {"sending", "verifying"} THEN
           /\ delivery' = "idle"
           /\ answer' = IF answer.prior = "none" THEN NoAnswer
                        ELSE [kind |-> "sent", choice |-> answer.prior,
                              prior |-> "none"]
           /\ UNCHANGED audit
       ELSE IF state # "open"
               /\ (answer.kind = "pending" \/ delivery = "sending") THEN
           /\ delivery' = "idle"
           /\ answer' = IF state = "answered" THEN Terminal(answer.choice)
                        ELSE NoAnswer
           /\ IF state = "answered" THEN Record(answer') ELSE UNCHANGED audit
       ELSE UNCHANGED <<delivery, answer, audit>>
    /\ UNCHANGED <<state, tier, counted, calls, watch, typed, bounds>>

Server(c) == ReadScreen(c) \/ Scan(c) \/ WriteAccepted(c) \/ WriteRefused(c)

Watching == Poll \/ PromptGone \/ VerifyTimeout \/ LateTimeout

Others == Expire \/ RaiseTier \/ Crash \/ Restart

Deck == \/ \E c \in Calls, choice \in Choice, batch, confirm \in BOOLEAN :
               Answer(c, choice, batch, confirm)
        \/ \E c \in Calls : Server(c)
        \/ Watching

Next == \/ Deck \/ Others
        \/ \E verdict \in Choice, inTime, priorInTime \in BOOLEAN :
               Hook(verdict, inTime, priorInTime)

Spec == Init /\ [][Next]_vars

(* Screen reads, scans and writes are bounded by timeouts and timers fire. *)
Fairness == /\ \A c \in Calls : WF_vars(Server(c))
            /\ WF_vars(Poll) /\ WF_vars(VerifyTimeout) /\ WF_vars(Restart)

FairSpec == Spec /\ Fairness

(* A prompt hook is one that, when its time is within `until`, reaches the *)
(* server while the deck still follows the request, and a poll interval    *)
(* before the late watch stops: `until` is counted from the send and the   *)
(* watch from the accepted write, so a hook that is not prompt was held up *)
(* on its way or came in the last moment of a ten-minute watch.            *)
PromptNext ==
    \/ (Deck \/ Others) /\ ~(LateTimeout /\ state = "answered")
    \/ \E verdict \in Choice, inTime, priorInTime \in BOOLEAN :
          /\ inTime => watch.on \/ delivery = "sending"
          /\ Hook(verdict, inTime, priorInTime)

PromptSpec == Init /\ [][PromptNext]_vars /\ Fairness

-----------------------------------------------------------------------------
(* A request has at most one `answered` row, written by whichever of the   *)
(* deliverer, the hook and the recovery gets there, and it says what the   *)
(* request says ("so the deliverer, the server's terminal-answer audit and *)
(* recover can never write it twice"); one allow raises the counter of its *)
(* rule once; and the deck is credited with an answer only if deckd did    *)
(* type the keys of that choice.                                           *)
BooksAgree ==
    /\ TypeOK
    /\ Len(audit) <= 1
    /\ audit # <<>> => state = "answered" /\ answer = audit[1]
    /\ counted <= 1
    /\ counted = 1 => state = "answered" /\ answer \in Finals /\ answer.choice = "allow"
    /\ answer.kind = "final" /\ answer.via = "deck" => answer.choice \in typed

(* What a request was answered with never changes afterwards.              *)
SettledIsFinal ==
    [][answer.kind = "final" => answer' = answer /\ state' = state]_vars

(* Keys leave for deckd only under the tier the request has at that        *)
(* moment, however it rose while the screen was read or scanned.           *)
SentUnderRules ==
    [][\A c \in Calls :
          calls[c].pc # "write" /\ calls'[c].pc = "write"
              => TierAllows(calls[c], tier')]_vars

(* A delivery that refuses every new answer (answer_in_flight), or a hook's *)
(* verdict that waits for the write it overlapped.                         *)
InFlight ==
    \/ delivery \in {"sending", "verifying"} /\ state = "open"
    \/ answer.kind = "pending"

(* Every answer ends: proved, refused, or known not to have landed, with   *)
(* and without a crash.                                                    *)
DeliveryEnds == InFlight ~> ~InFlight

(* Every answered request gets its `answered` row ("Every decision about a *)
(* request or rule is recorded in the deck database").                     *)
AnsweredIsAudited == (state = "answered") ~> (audit # <<>>)

=============================================================================
