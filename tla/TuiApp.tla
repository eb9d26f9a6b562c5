---------------------------------- MODULE TuiApp ----------------------------------
(***************************************************************************)
(* The terminal view of a flock (agent-mesh-tui): a feed thread that       *)
(* follows the verified log, a checker thread that hashes cited files, and *)
(* a UI loop that takes their messages and the keys, in the order they     *)
(* come, and keeps what is selected, filtered and open on a log that grows *)
(* under it.                                                               *)
(*                                                                         *)
(* Of the three stream filters one (the kind) stands for all.  The Board,  *)
(* Lane and Waiting tabs, which move their cursors alike, are one tab,     *)
(* with the Waiting list, which shrinks, and the Lane tab's recheck.  What *)
(* a file's bytes say against the cited id is left out: a checked file is  *)
(* a known file.                                                           *)
(***************************************************************************)
EXTENDS Integers, Sequences, FiniteSets, FiniteSetsExt, SequencesExt

CONSTANTS
    Files,       \* files an event can cite
    Page,        \* PAGE: rows that PageUp and PageDown move
    MaxHistory,  \* HISTORY: jumps that Backspace can undo
    MaxQueue,    \* bound on the UI's channel
    MaxInbox,    \* bound on the checks that wait, for a recheck to be asked
    MaxEvents    \* bound on the log

LogKinds == {"answer", "ask"}
NoFile == 0
All == "all"       \* no filter

VARIABLES
    log,      \* the reader's verified events
    feed,     \* the feed thread: whether it runs, and whether it has caught up
    queue,    \* the UI's channel: models and drifts
    app,      \* App: the model shown and every selection
    asked,    \* the cited files the checker was last asked for by a model
    inbox,    \* the checker's channel
    checking  \* the checker thread: the files it checks, or Idle

tuiVars == <<log, feed, queue, app, asked, inbox, checking>>

Idle == <<>>

\* kind: the body; of: the event it answers (a parent); file: what it cites
LogEvent == [kind: LogKinds, of: 0..MaxEvents, file: Files \cup {NoFile}]

-------------------------------------------------------------------------------
(* What a model of the first n events holds *)

\* cited_files
Cited(n) == {log[i].file : i \in 1..n} \ {NoFile}

\* waiting_rows: the asks no answer has closed
Waiting(n) == {i \in 1..n : log[i].kind = "ask" /\ ~\E j \in 1..n : log[j].of = i}

\* StreamState::rows: the positions the filter admits, in order.
Rows(a) == SetToSortSeq({i \in 1..a.shown : a.filter \in {All, log[i].kind}}, <)

\* stream_selected
Shows(a, i) == i \in Range(Rows(a))

\* The last row, the first position if there is none.
LastRow(a) == IF Rows(a) = <<>> THEN 1 ELSE Last(Rows(a))

\* StreamState::settle: the newest row if following, else the one selected, the next one
\* after it, or the last.
Settle(a) ==
    LET later == {r \in Range(Rows(a)) : r >= a.sel}
    IN [a EXCEPT !.sel = IF a.follow \/ later = {} THEN LastRow(a) ELSE Min(later)]

\* stream_move: by rows through what is shown, clamped.
Move(a, by) ==
    LET rows == Rows(a)
        at == IF Shows(a, a.sel) THEN CHOOSE k \in DOMAIN rows : rows[k] = a.sel ELSE 1
        to == Max({1, Min({Len(rows), at + by})})
    IN IF rows = <<>> THEN a ELSE [a EXCEPT !.sel = rows[to]]

\* App::new, on the saved log.
TuiInit ==
    /\ log \in {<<>>} \cup {<<[kind |-> "ask", of |-> 0, file |-> f]>> : f \in Files}
    /\ feed = [runs |-> TRUE, live |-> FALSE]
    /\ queue = <<>>
    /\ app = Settle([shown |-> Len(log), link |-> "stale", tab |-> "lists", sel |-> 1,
                     follow |-> TRUE, panel |-> FALSE, history |-> <<>>, filter |-> All,
                     cursor |-> 1, drift |-> {}, fed |-> FALSE])
    /\ asked = {} /\ inbox = <<>> /\ checking = Idle

-------------------------------------------------------------------------------
(* The feed thread: Feed::run, and the model of its outcome *)

Open == app.tab # "closed"

Send(msg) == Len(queue) < MaxQueue /\ queue' = Append(queue, msg)
ModelMsg(n, link) == [what |-> "model", n |-> n, link |-> link, files |-> {}]

FeedFrame(e) ==
    /\ Open /\ feed.runs /\ Len(log) < MaxEvents /\ e.of <= Len(log)
    /\ e.kind = "ask" <=> e.of = 0
    /\ e.kind = "answer" => e.file = NoFile
    /\ log' = Append(log, e)
    /\ Send(ModelMsg(Len(log) + 1, IF feed.live THEN "live" ELSE "stale"))
    /\ UNCHANGED <<feed, app, asked, inbox, checking>>

FeedCaught ==
    /\ Open /\ feed.runs /\ ~feed.live
    /\ feed' = [feed EXCEPT !.live = TRUE]
    /\ Send(ModelMsg(Len(log), "live"))
    /\ UNCHANGED <<log, app, asked, inbox, checking>>

\* A plausible bug: a stream that ends says nothing more.
FeedEndsQuietly(link) ==
    /\ Open /\ feed.runs
    /\ feed' = [feed EXCEPT !.runs = FALSE]
    /\ UNCHANGED <<log, queue, app, asked, inbox, checking>>

\* The stream is down, verification failed, or a frame could not be saved.
FeedEnds(link) ==
    /\ Open /\ feed.runs
    /\ feed' = [feed EXCEPT !.runs = FALSE]
    /\ Send(ModelMsg(Len(log), link))
    /\ UNCHANGED <<log, app, asked, inbox, checking>>

-------------------------------------------------------------------------------
(* The checker thread *)

\* A plausible bug: the requests that wait are dropped, not the one at hand.
CheckOldest ==
    /\ Open /\ checking = Idle /\ inbox # <<>>
    /\ checking' = <<Head(inbox)>> /\ inbox' = <<>>
    /\ UNCHANGED <<log, feed, queue, app, asked>>

\* It takes the newest request and drops the ones before.
CheckNewest ==
    /\ Open /\ checking = Idle /\ inbox # <<>>
    /\ checking' = <<Last(inbox)>> /\ inbox' = <<>>
    /\ UNCHANGED <<log, feed, queue, app, asked>>

\* check_all_via: every file gets a state, of this host or of the server.
Checked ==
    /\ Open /\ checking # Idle
    /\ Send([what |-> "drift", n |-> 0, link |-> "none", files |-> Head(checking)])
    /\ checking' = Idle
    /\ UNCHANGED <<log, feed, app, asked, inbox>>

-------------------------------------------------------------------------------
(* The UI loop *)

\* set_model, then a check if the cited files are not those asked for last.
TakeModel ==
    /\ Open /\ queue # <<>> /\ Head(queue).what = "model"
    /\ LET n == Head(queue).n
           len == Cardinality(Waiting(n))
       IN /\ app' = Settle([app EXCEPT !.shown = n, !.link = Head(queue).link, !.fed = TRUE,
                                       !.cursor = Max({1, Min({@, len})})])
          /\ inbox' = IF Cited(n) = asked THEN inbox ELSE Append(inbox, Cited(n))
          /\ asked' = Cited(n)
    /\ queue' = Tail(queue)
    /\ UNCHANGED <<log, feed, checking>>

\* set_drift
TakeDrift ==
    /\ Open /\ queue # <<>> /\ Head(queue).what = "drift"
    /\ app' = [app EXCEPT !.drift = Head(queue).files]
    /\ queue' = Tail(queue)
    /\ UNCHANGED <<log, feed, asked, inbox, checking>>

\* cycle: the next kind the log has after the current one, none after the last.
Cycle(a) ==
    LET has == {log[i].kind : i \in 1..a.shown}
    IN CASE a.filter = All /\ has # {} -> IF "answer" \in has THEN "answer" ELSE "ask"
         [] a.filter = "answer" /\ "ask" \in has -> "ask"
         [] OTHER -> All

\* stream_key
StreamKey(a, key) ==
    CASE key = "up" -> Move([a EXCEPT !.follow = FALSE], -1)
      [] key = "down" -> Move(a, 1)
      [] key = "pageup" -> Move([a EXCEPT !.follow = FALSE], -Page)
      [] key = "pagedown" -> Move(a, Page)
      [] key = "home" -> Move([a EXCEPT !.follow = FALSE], -MaxEvents)
      [] key = "end" -> [a EXCEPT !.follow = TRUE, !.sel = LastRow(a)]
      [] key = "f" -> Settle([a EXCEPT !.follow = ~@])
      [] key = "enter" /\ Shows(a, a.sel) -> [a EXCEPT !.panel = TRUE, !.history = <<>>]
      [] key = "k" -> Settle([a EXCEPT !.filter = Cycle(a)])
      [] key = "c" -> Settle([a EXCEPT !.filter = All])
      [] OTHER -> a

\* push_history: at its limit the oldest jump is forgotten.
Pushed(a) ==
    Append(IF Len(a.history) = MaxHistory THEN Tail(a.history) ELSE a.history, a.sel)

\* A plausible bug: the view is left as it was when a parent outside of it is opened.
JumpHidden(a, to) ==
    IF to = 0 THEN a
    ELSE [a EXCEPT !.follow = FALSE, !.history = Pushed(a), !.sel = to]

\* To a parent of the event that is open; if the filter hides it, the filter goes.
Jump(a, to) ==
    IF to = 0 THEN a
    ELSE [a EXCEPT !.follow = FALSE, !.history = Pushed(a), !.sel = to,
                   !.filter = IF Shows(a, to) THEN @ ELSE All]

\* panel_key
PanelKey(a, key) ==
    CASE key = "esc" -> [a EXCEPT !.panel = FALSE]
      [] key = "up" -> Move([a EXCEPT !.follow = FALSE, !.history = <<>>], -1)
      [] key = "down" -> Move([a EXCEPT !.history = <<>>], 1)
      [] key = "backspace" /\ a.history # <<>> ->
            [a EXCEPT !.sel = Last(a.history), !.history = Front(@)]
      [] key = "parent" /\ a.sel \in 1..a.shown -> Jump(a, log[a.sel].of)
      [] OTHER -> a

\* wait_key; board_key and lane_key move theirs in the same way
WaitKey(a, key) ==
    LET last == Max({1, Cardinality(Waiting(a.shown))})
        to(k) == Max({1, Min({last, k})})
    IN CASE key = "up" -> [a EXCEPT !.cursor = to(@ - 1)]
         [] key = "down" -> [a EXCEPT !.cursor = to(@ + 1)]
         [] key = "pageup" -> [a EXCEPT !.cursor = to(@ - Page)]
         [] key = "pagedown" -> [a EXCEPT !.cursor = to(@ + Page)]
         [] key = "home" -> [a EXCEPT !.cursor = 1]
         [] key = "end" -> [a EXCEPT !.cursor = last]
         [] OTHER -> a

Tabs == {"lists", "stream"}
Keys == {"up", "down", "pageup", "pagedown", "home", "end", "f", "enter", "k", "c", "esc",
         "backspace", "parent"}

InPanel == app.tab = "stream" /\ app.panel

\* App::handle: a key for the tab that shows ...
PressKey(key) ==
    /\ Open
    /\ key = "esc" => InPanel
    /\ app' = CASE app.tab = "stream" -> IF app.panel THEN PanelKey(app, key) ELSE StreamKey(app, key)
                [] app.tab = "lists" -> WaitKey(app, key)
    /\ app' # app
    /\ UNCHANGED <<log, feed, queue, asked, inbox, checking>>

\* ... r in the Lane tab, which take_recheck turns into a check ...
PressRecheck ==
    /\ app.tab = "lists" /\ Len(inbox) < MaxInbox
    /\ inbox' = Append(inbox, Cited(app.shown))
    /\ UNCHANGED <<log, feed, queue, app, asked, checking>>

\* ... or for another tab (Tab, BackTab, 1 to 4) ...
PressTab(tab) ==
    /\ Open /\ tab # app.tab
    /\ app' = [app EXCEPT !.tab = tab]
    /\ UNCHANGED <<log, feed, queue, asked, inbox, checking>>

\* ... or to close: q, and Esc outside of the panel.  The threads go with the process.
PressQuit ==
    /\ Open
    /\ app' = [app EXCEPT !.tab = "closed", !.panel = FALSE, !.history = <<>>, !.follow = FALSE,
                          !.sel = 1, !.cursor = 1, !.filter = All, !.fed = FALSE, !.drift = {}]
    /\ queue' = <<>> /\ inbox' = <<>> /\ checking' = Idle /\ asked' = {}
    /\ UNCHANGED <<log, feed>>

-------------------------------------------------------------------------------
TuiNext ==
    \/ \E e \in LogEvent : FeedFrame(e)
    \/ FeedCaught
    \/ \E link \in {"stale", "failed", "unsaved"} : FeedEnds(link)
    \/ CheckNewest \/ Checked \/ TakeModel \/ TakeDrift
    \/ \E key \in Keys : PressKey(key)
    \/ \E tab \in Tabs : PressTab(tab)
    \/ PressRecheck \/ PressQuit

TuiSpec == TuiInit /\ [][TuiNext]_tuiVars

-------------------------------------------------------------------------------
(* Properties *)

\* However the log, the filter and the panel change, what is selected is what is shown: an
\* open panel and every event Backspace leads to are rows of the stream, a following stream
\* is at its newest row, and the cursor is on a row of its list.
SelectionIsShown ==
    /\ app.panel => Shows(app, app.sel) /\ \A i \in DOMAIN app.history : Shows(app, app.history[i])
    /\ app.follow => app.sel = LastRow(app)
    /\ app.cursor <= Max({1, Cardinality(Waiting(app.shown))})

\* When no message is under way, the view is up to date with its threads: every file cited
\* by what it shows has been checked, it shows all that was verified, and it says "live"
\* only while it follows.
QuietIsCurrent ==
    queue = <<>> /\ inbox = <<>> /\ checking = Idle /\ app.fed =>
       /\ app.drift = Cited(app.shown)
       /\ app.shown = Len(log)
       /\ app.link = "live" <=> feed.runs /\ feed.live

===============================================================================
