------------------------------ MODULE Terminal ------------------------------
(***************************************************************************)
(* The output of one PTY on its way to the browser tabs that show it:      *)
(* deckd's side of the server's connection (deckd/main.mjs: sendOutput,    *)
(* attach, detach, screen, watchScreen, exit), the link that reconnects    *)
(* (pty/link.mjs) and the PTY bridge (pty-bridge/bridge.mjs).              *)
(*                                                                         *)
(* Output is counted in chunks; a snapshot with scrollback stands for all  *)
(* chunks up to its own.  What was sent to a tab is what it shows.  A      *)
(* reply of deckd is handled after the events that arrived in the same     *)
(* read, but before anything else the server does.  Sizes, input and tails *)
(* are not in this module.                                                 *)
(***************************************************************************)
EXTENDS Integers, Sequences, FiniteSets, SequencesExt

CONSTANTS
  Tabs,        (* browser tabs that can show the PTY, each with its socket  *)
  MaxOut,      (* bound: chunks the PTY writes                              *)
  MaxEvents    (* bound: attaches and detaches by the owner, and faults:    *)
               (* losses of the connection to deckd, sockets that are over  *)
               (* their limit, and screen requests that time out            *)

ASSUME TerminalBounds ==
  {MaxOut, MaxEvents} \subseteq Nat

VARIABLES
  pty,       (* deckd: chunks written so far, whether it has ended          *)
  conn,      (* deckd's side of the connection: does it stream output,      *)
             (* watch the screen, is dropping (episode), and the dropped    *)
             (* events whose write callback is to come                      *)
  connected, (* the link is connected                                       *)
  wire,      (* from deckd to the server, in order                          *)
  screens,   (* screen requests that deckd has not answered: tab and turn   *)
  chain,     (* attach, detach and watchScreen requests, one after another  *)
  taken,     (* deckd has answered the first of them                        *)
  arrived,   (* the last chunk that arrived as an output event              *)
  settled,   (* replies that arrived and whose continuation is to run       *)
  running,   (* one has run, so all of them run before the next read        *)
  session,   (* the session row: live, told of the exit, or over            *)
  tab,       (* the Tab of each browser tab: off, lost with the link,       *)
             (* syncing (its output is buffered) or live; is its PTY's      *)
             (* attach ready                                                *)
  again,     (* tabs whose client was told output_dropped, and attaches     *)
             (* again                                                       *)
  shown,     (* the chunks a tab shows are 1..shown, or Torn                *)
  spent      (* what the bounds are about                                   *)

ptySide == <<pty, conn>>
replies == <<settled, running>>
linkSide == <<connected, wire, screens, chain, taken, arrived, replies, session>>
tabSide == <<tab, again, shown, spent>>
terminalVars == <<ptySide, linkSide, tabSide>>

Torn == -1
NoConn == [stream |-> FALSE, watch |-> FALSE, episode |-> "none", callbacks |-> 0]
NoTab == [at |-> "off", ready |-> FALSE, buffer |-> <<>>, dropping |-> FALSE, turn |-> 0]

Spend == spent < MaxEvents /\ spent' = spent + 1
On == {t \in Tabs: tab[t].at # "off"}
Reading == {t \in Tabs: tab[t].at \in {"syncing", "live"}}   \* pty.tabs
Waiting == {t \in Reading: ~tab[t].ready}

TerminalInit ==
  /\ pty = [out |-> 0, ended |-> FALSE]
  /\ conn = [NoConn EXCEPT !.watch = TRUE]
  /\ connected = TRUE /\ wire = <<>> /\ screens = {} /\ chain = <<>> /\ taken = FALSE
  /\ arrived = 0 /\ settled = {} /\ running = FALSE /\ session = "live"
  /\ tab = [t \in Tabs |-> NoTab]
  /\ again = {} /\ shown = [t \in Tabs |-> 0]
  /\ spent = 0

-----------------------------------------------------------------------------
(* sendOutput: a chunk goes to the connection, or, when its queue is over  *)
(* the cap, opens an episode with a dropped event; in an episode it is     *)
(* dropped.                                                                *)
Output ==
  /\ ~pty.ended /\ pty.out < MaxOut
  /\ pty' = [pty EXCEPT !.out = @ + 1]
  /\ \/ ~conn.stream /\ UNCHANGED <<conn, wire>>
     \/ /\ conn.stream /\ conn.episode = "none"
        /\ wire' = Append(wire, [t |-> "output", n |-> pty.out + 1])
        /\ UNCHANGED conn
     \/ /\ conn.stream /\ conn.episode = "none" /\ wire # <<>>
        /\ wire' = Append(wire, [t |-> "dropped"])
        /\ conn' = [conn EXCEPT !.episode = "open", !.callbacks = @ + 1]
     \/ /\ conn.stream /\ conn.episode # "none"
        /\ conn' = [conn EXCEPT !.episode = "more"]
        /\ UNCHANGED wire
  /\ UNCHANGED <<connected, screens, chain, taken, arrived, replies, session, tabSide>>

(* A broken callback that does not tell of what was dropped meanwhile.     *)
EndEpisodeQuietly ==
  /\ conn.callbacks > 0
  /\ conn' = [conn EXCEPT !.callbacks = @ - 1, !.episode = "none"]
  /\ UNCHANGED <<pty, connected, wire, screens, chain, taken, arrived, replies, session, tabSide>>

(* The write callback of a dropped event ends the episode, with another    *)
(* dropped event when bytes were dropped since.                            *)
EndEpisode ==
  /\ conn.callbacks > 0
  /\ conn' = [conn EXCEPT !.callbacks = @ - 1, !.episode = "none"]
  /\ wire' = IF conn.episode = "more" THEN Append(wire, [t |-> "dropped"]) ELSE wire
  /\ UNCHANGED <<pty, connected, screens, chain, taken, arrived, replies, session, tabSide>>

(* onExit: the exit event follows the last output.                         *)
Exit ==
  /\ ~pty.ended
  /\ pty' = [pty EXCEPT !.ended = TRUE]
  /\ wire' = IF connected THEN Append(wire, [t |-> "exit"]) ELSE wire
  /\ conn' = [conn EXCEPT !.watch = FALSE, !.stream = FALSE]
  /\ UNCHANGED <<connected, screens, chain, taken, arrived, replies, session, tabSide>>

(* deckd takes the request at the head of the chain.                       *)
TakeRequest ==
  /\ connected /\ chain # <<>> /\ ~taken
  /\ taken' = TRUE
  /\ wire' = Append(wire, [t |-> "done", ok |-> ~pty.ended])
  /\ conn' = IF pty.ended THEN conn
             ELSE CASE Head(chain) = "attach" -> [conn EXCEPT !.stream = TRUE]
                    [] Head(chain) = "detach" ->
                         [conn EXCEPT !.stream = FALSE, !.watch = FALSE, !.episode = "none"]
                    [] Head(chain) = "watch"  -> [conn EXCEPT !.watch = TRUE]
  /\ UNCHANGED <<pty, connected, screens, chain, arrived, replies, session, tabSide>>

(* deckd's screen, after the flush of the screen model.                    *)
TakeScreen ==
  \E s \in screens:
    /\ screens' = screens \ {s}
    /\ wire' = Append(wire, [t |-> "screen", s |-> s, ok |-> ~pty.ended, n |-> pty.out])
    /\ UNCHANGED <<pty, conn, connected, chain, taken, arrived, replies, session, tabSide>>

-----------------------------------------------------------------------------
(* deliver, of several chunks in order: what does not fit the socket's     *)
(* limit makes the tab a dropping one, and the tab is told.                *)
AllShown(old, ns) ==
  IF ns = [i \in 1..Len(ns) |-> old + i] THEN old + Len(ns) ELSE Torn
Slow(T) ==
  /\ IF T = {} THEN UNCHANGED spent ELSE Spend
  /\ again' = again \cup T

(* A turn of sync that no request under way has.                           *)
NextTurn(t) ==
  LET snapshots == {m \in Range(wire) \cup {a.m : a \in settled}: m.t = "screen"}
  IN  Max({0} \cup {s.turn + 1 : s \in {s \in screens \cup {m.s : m \in snapshots}: s.tab = t}})

(* sync: ask for the screen and buffer the output until it comes.          *)
Synced(T, ready) ==
  /\ tab' = [t \in Tabs |-> IF t \in T
               THEN [tab[t] EXCEPT !.at = "syncing", !.ready = @ \/ ready,
                                   !.turn = NextTurn(t), !.buffer = <<>>]
               ELSE tab[t]]
  /\ screens' = screens \cup {[tab |-> t, turn |-> NextTurn(t)] : t \in T}

Removed(T) == tab' = [t \in Tabs |-> IF t \in T THEN NoTab ELSE tab[t]]

(* A broken removeTab that leaves the watch to the attach.                 *)
DetachedUnwatched(T) ==
  IF connected /\ T # {} /\ Reading = T THEN chain \o <<"detach">> ELSE chain

(* removeTab: the last tab of a PTY detaches, which turns off the screen   *)
(* watch of the connection too, and the watch is asked for again.          *)
Detached(T) ==
  IF connected /\ T # {} /\ Reading = T THEN chain \o <<"detach", "watch">> ELSE chain

Reads(type) == ~running /\ wire # <<>> /\ Head(wire).t = type /\ wire' = Tail(wire)

(* What arrives from deckd: an event is handled at once ...                *)
OnOutput ==
  /\ Reads("output")
  /\ arrived' = Head(wire).n
  /\ LET fed == {t \in Tabs: tab[t].at = "live" /\ ~tab[t].dropping} IN
     \E slow \in SUBSET fed:
       /\ Slow(slow)
       /\ tab' = [t \in Tabs |->
            IF tab[t].at = "syncing" THEN [tab[t] EXCEPT !.buffer = Append(@, Head(wire).n)]
            ELSE [tab[t] EXCEPT !.dropping = @ \/ t \in slow]]
       /\ shown' = [t \in Tabs |->
            IF t \in fed \ slow THEN AllShown(shown[t], <<Head(wire).n>>) ELSE shown[t]]
  /\ UNCHANGED <<ptySide, connected, screens, chain, taken, replies, session>>

OnDropped ==
  /\ Reads("dropped")
  /\ Synced(Reading, FALSE)
  /\ UNCHANGED <<ptySide, connected, chain, taken, arrived, replies, session, again, shown, spent>>

OnExit ==
  /\ Reads("exit")
  /\ session' = "told"
  /\ Removed(Reading)
  /\ UNCHANGED <<ptySide, connected, screens, chain, taken, arrived, replies, again, shown, spent>>

(* ... and a reply settles its promise, with the number of its arrival.    *)
OnReply ==
  /\ Reads("done") \/ Reads("screen")
  /\ settled' = settled \cup {[m |-> Head(wire), seam |-> arrived]}
  /\ UNCHANGED <<ptySide, connected, screens, chain, taken, arrived, running, session, tabSide>>

Runs(reply) == settled' = settled \ {reply} /\ running' = (settled' # {})

(* The reply to the first request of the chain.  Tabs wait for the attach  *)
(* that made their PTY, which is the last one of the chain; when it fails  *)
(* a PTY with one tab is left by it, one with several is just forgotten.   *)
AfterRequest ==
  \E s \in settled:
    /\ s.m.t = "done"
    /\ Runs(s)
    /\ taken' = FALSE
    /\ LET ready == Head(chain) = "attach" /\ "attach" \notin Range(Tail(chain))
           rest  == IF Head(chain) = "detach" /\ ~s.m.ok THEN Tail(Tail(chain)) ELSE Tail(chain)
       IN \/ ready /\ s.m.ok /\ Synced(Waiting, TRUE) /\ chain' = rest
          \/ /\ ready /\ ~s.m.ok /\ Removed(Waiting)
             /\ chain' = IF Cardinality(Waiting) = 1 THEN rest \o <<"detach", "watch">> ELSE rest
             /\ UNCHANGED screens
          \/ ~ready /\ chain' = rest /\ UNCHANGED <<tab, screens>>
    /\ UNCHANGED <<ptySide, connected, wire, arrived, session, again, shown, spent>>

(* A broken seam: all that was buffered.                                   *)
LaterAll(buffer, seam) == buffer

(* The reply to a screen request: the snapshot, and what arrived after it, *)
(* which is the end of the buffer.                                         *)
Later(buffer, seam) ==
  SubSeq(buffer, 1 + Max({0} \cup {i \in DOMAIN buffer: buffer[i] <= seam}), Len(buffer))

AfterScreen ==
  \E s \in settled:
    /\ s.m.t = "screen"
    /\ Runs(s)
    /\ LET t    == s.m.s.tab
           mine == tab[t].at = "syncing" /\ tab[t].turn = s.m.s.turn
           late == IF tab[t].dropping THEN <<>> ELSE Later(tab[t].buffer, s.seam)
       IN \/ ~mine /\ UNCHANGED <<chain, tabSide>>
          \/ /\ mine /\ ~s.m.ok
             /\ chain' = Detached({t}) /\ Removed({t})
             /\ UNCHANGED <<again, shown, spent>>
          \/ /\ mine /\ s.m.ok
             /\ \E k \in 0..Len(late):
                  /\ Slow(IF k < Len(late) THEN {t} ELSE {})
                  /\ tab' = [tab EXCEPT ![t].at = "live", ![t].buffer = <<>>, ![t].turn = 0,
                                        ![t].dropping = @ \/ k < Len(late)]
                  /\ shown' = [shown EXCEPT ![t] = AllShown(s.m.n, SubSeq(late, 1, k))]
             /\ UNCHANGED chain
    /\ UNCHANGED <<ptySide, connected, wire, screens, taken, arrived, session>>

-----------------------------------------------------------------------------
(* attach, of a new Tab, which replaces the old one before that leaves: it *)
(* waits for the attach of its PTY, or syncs at once.                      *)
Attaching(t) ==
  LET joins == Reading # {} /\ "attach" \notin Range(chain)
  IN /\ connected /\ session # "over"
     /\ tab' = [tab EXCEPT ![t] = [NoTab EXCEPT !.at = "syncing", !.ready = joins, !.turn = NextTurn(t)]]
     /\ screens' = IF joins THEN screens \cup {[tab |-> t, turn |-> NextTurn(t)]} ELSE screens
     /\ chain' = IF Reading = {} THEN Append(chain, "attach") ELSE chain

(* term.attach by the owner.                                               *)
Attach(t) ==
  /\ tab[t].at = "off" /\ settled = {} /\ Spend
  /\ Attaching(t)
  /\ UNCHANGED <<ptySide, connected, wire, taken, arrived, replies, session, again, shown>>

(* term.attach by the client that was told output_dropped; while the link  *)
(* is down it is refused, and the tab stays as it is.                      *)
AttachAgain(t) ==
  /\ t \in again /\ settled = {}
  /\ again' = again \ {t}
  /\ \/ Attaching(t)
     \/ (~connected \/ session = "over") /\ UNCHANGED <<screens, chain, tab>>
  /\ UNCHANGED <<ptySide, connected, wire, taken, arrived, replies, session, shown, spent>>

(* term.detach, or the tab's socket closes.                                *)
Detach(t) ==
  /\ tab[t].at # "off" /\ settled = {} /\ Spend
  /\ chain' = Detached({t}) /\ Removed({t})
  /\ again' = again \ {t}
  /\ UNCHANGED <<ptySide, connected, wire, screens, taken, arrived, replies, session, shown>>

(* A screen request that the tab waits for is not answered in time.        *)
ScreenTimeout(t) ==
  /\ tab[t].at = "syncing" /\ [tab |-> t, turn |-> tab[t].turn] \in screens
  /\ settled = {} /\ Spend
  /\ chain' = Detached({t}) /\ Removed({t})
  /\ UNCHANGED <<ptySide, connected, wire, screens, taken, arrived, replies, session, again, shown>>

(* disconnect: what waits for an attach fails, the other tabs stay.        *)
Down ==
  /\ connected /\ settled = {} /\ Spend
  /\ connected' = FALSE /\ conn' = NoConn
  /\ wire' = <<>> /\ screens' = {} /\ chain' = <<>> /\ taken' = FALSE
  /\ tab' = [t \in Tabs |->
       IF t \in Reading \ Waiting
       THEN [tab[t] EXCEPT !.at = "lost", !.ready = FALSE, !.turn = 0, !.buffer = <<>>]
       ELSE NoTab]
  /\ UNCHANGED <<pty, arrived, replies, session, again, shown>>

(* connect: the rows are reconciled, each PTY is watched, and the tabs     *)
(* that stayed are attached again when their PTY still runs.               *)
Up ==
  /\ ~connected
  /\ connected' = TRUE
  /\ session' = IF pty.ended THEN "over" ELSE session
  /\ conn' = [NoConn EXCEPT !.watch = ~pty.ended]
  /\ IF pty.ended THEN Removed(On) /\ UNCHANGED chain
     ELSE /\ chain' = IF On = {} THEN <<>> ELSE <<"attach">>
          /\ tab' = [t \in Tabs |-> IF t \in On THEN [tab[t] EXCEPT !.at = "syncing"] ELSE tab[t]]
  /\ UNCHANGED <<pty, wire, screens, taken, arrived, replies, again, shown, spent>>

(* liveExit has read the exit record.                                      *)
EndRow ==
  /\ session = "told" /\ settled = {}
  /\ session' = "over"
  /\ UNCHANGED <<ptySide, connected, wire, screens, chain, taken, arrived, replies, tabSide>>

Deckd == Output \/ EndEpisode \/ Exit \/ TakeRequest \/ TakeScreen
Arrives == OnOutput \/ OnDropped \/ OnExit \/ OnReply
Continues == AfterRequest \/ AfterScreen
Owner == \E t \in Tabs: Attach(t) \/ Detach(t)
Fails == Down \/ \E t \in Tabs: ScreenTimeout(t)
Repairs == Up \/ EndRow \/ \E t \in Tabs: AttachAgain(t)
TerminalNext == Deckd \/ Arrives \/ Continues \/ Owner \/ Fails \/ Repairs

TerminalSpec == TerminalInit /\ [][TerminalNext]_terminalVars

-----------------------------------------------------------------------------
Attached(t) == tab[t].at = "live" /\ tab[t].ready

TerminalOK ==
  /\ pty.out \in 0..MaxOut /\ pty.ended \in BOOLEAN
  /\ conn.episode \in {"none", "open", "more"} /\ conn.callbacks \in Nat
  /\ {conn.stream, conn.watch, connected, taken} \subseteq BOOLEAN
  /\ Range(chain) \subseteq {"attach", "detach", "watch"} /\ taken => chain # <<>>
  /\ arrived \in 0..pty.out /\ session \in {"live", "told", "over"} /\ again \subseteq Tabs
  /\ \A t \in Tabs: /\ tab[t].at \in {"off", "lost", "syncing", "live"}
                    /\ tab[t].at = "lost" => ~connected
  /\ ~connected => wire = <<>> /\ chain = <<>> /\ screens = {} /\ conn = NoConn

(* Whatever is dropped on the way, superseded, lost or attached again: a   *)
(* tab whose attach was answered never shows output with a gap in it, nor  *)
(* a chunk twice (the seam of sync, and the second dropped event of        *)
(* sendOutput).  A tab that still waits for its attach may: a dropped      *)
(* event of the attach before gives it a snapshot too early, and what      *)
(* follows is not streamed until the attach (NeverTorn).                   *)
Untorn == TerminalOK /\ \A t \in Tabs: Attached(t) => shown[t] \in 0..pty.out

(* Attaches and detaches of tabs that come and go reach deckd in the order *)
(* that leaves its connection streaming exactly when a tab reads, and the  *)
(* screen watch, which a detach turns off, is on (serial in ptyOf and      *)
(* removeTab).                                                             *)
StreamFollowsTabs ==
  connected /\ chain = <<>> /\ ~pty.ended => conn.watch /\ (conn.stream <=> Reading # {})

(* Once nothing is under way any more, every tab that is still attached    *)
(* shows all there is, but for one that was dropping output when the link  *)
(* was lost and whose client was refused (sync, sendOutput, AttachAgain).  *)
AtRest ==
  /\ connected /\ wire = <<>> /\ settled = {} /\ screens = {} /\ chain = <<>> /\ again = {}
  /\ conn.callbacks = 0
Current(t) == tab[t].at = "live" /\ shown[t] = pty.out
Frozen(t) == tab[t].at = "live" /\ tab[t].dropping
QuietIsCurrent == AtRest => \A t \in On: Current(t) \/ Frozen(t)

(* The comment of the bridge: tabs "are attached again with term.attached, *)
(* a fresh snapshot and the browser resize when the link is back".  So a   *)
(* tab that is attached shows all there is, without exception.             *)
AttachedIsCurrent == AtRest => \A t \in On: Current(t)

(* docs/deck/05-api.md, term.attach: a snapshot, "then streams output".    *)
NeverTorn == \A t \in Tabs: shown[t] # Torn
=============================================================================
