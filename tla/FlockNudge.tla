------------------------------- MODULE FlockNudge --------------------------------
(***************************************************************************)
(* The adapter that nudges members at their terminal (agent-mesh-cli       *)
(* flock/nudge.rs, nudging.rs, panes.rs and herdr.rs): it follows the      *)
(* verified board, and for a brief that nobody has taken it finds the      *)
(* member's pane, waits for it to settle, looks again, prompts, looks once *)
(* more and records what happened.  herdr is external: its panes change    *)
(* under the adapter at any time.                                          *)
(*                                                                         *)
(* One helper is nudged; the operator stands for the members whose panes   *)
(* are protected.  A terminal is a number that never comes back.           *)
(***************************************************************************)
EXTENDS Integers, Sequences, FiniteSets

CONSTANTS
    Briefs,          \* briefs addressed to the helper
    Panes,           \* herdr's panes, next to the adapter's own
    MaxLog,          \* bound on the board's events
    MaxPaneChanges,  \* bound on changes in herdr
    MaxRuns          \* bound on the times the adapter is started

NoLabel == "nobody"
Labels == {"helper", "operator", NoLabel}
NotGiven == 0

VARIABLES
    board,     \* the board: events of kind brief, taken (ack or closed), nudged, misfire, demote
    view,      \* how much of it the adapter has verified
    herdr,     \* each pane: whether it is listed, its label, terminal and status
    claim,     \* the pane the helper's active session claims
    scope,     \* the panes on the deny list
    map,       \* --map: the pane given for the helper
    paneChanges, \* how much has changed in herdr, which numbers the terminals
    adapter,   \* the adapter's process and the nudge it is at
    tried,     \* Ctx::act: what this run has tried
    runs,
    \* history
    prompts,   \* how often each brief was prompted
    unrecorded,\* how often a prompted brief's record was lost
    landed     \* the terminal behind the pane when it was last prompted

nudgeVars == <<board, view, herdr, claim, scope, map, paneChanges, adapter, tried, runs,
               prompts, unrecorded, landed>>

Down == [pc |-> "down", live |-> FALSE, of |-> NotGiven, pane |-> NotGiven, before |-> <<>>,
         found |-> "none"]

NudgeInit ==
    /\ board = <<>> /\ view = 0
    /\ herdr = [p \in Panes |-> [listed |-> TRUE, label |-> IF p = 1 THEN "helper" ELSE NoLabel,
                                 term |-> 0, idle |-> TRUE]]
    /\ claim \in Panes \cup {NotGiven}
    /\ scope \in {{}, {2}}
    /\ map \in {NotGiven, 2}
    /\ paneChanges = 0
    /\ adapter = Down /\ tried = {} /\ runs = 0
    /\ prompts = [b \in Briefs |-> 0] /\ unrecorded = [b \in Briefs |-> 0]
    /\ landed = [b \in Briefs |-> NotGiven]

-------------------------------------------------------------------------------
(* The board *)

Post(kind, of) ==
    /\ Len(board) < MaxLog
    /\ board' = Append(board, [kind |-> kind, of |-> of])

Told(n) == {board[i] : i \in 1..n}
HasEvent(n, kinds, of) == \E e \in Told(n) : e.kind \in kinds /\ e.of = of

\* A brief is published, the helper takes it, or the roster drops the adapter's role.
BoardMoves(kind, of) ==
    /\ kind = "brief" => ~HasEvent(Len(board), {"brief"}, of)
    /\ kind = "taken" => HasEvent(Len(board), {"brief"}, of)
    /\ kind = "demote" => of = NotGiven
    /\ Post(kind, of)
    /\ UNCHANGED <<view, herdr, claim, scope, map, paneChanges, adapter, tried, runs, prompts,
                   unrecorded, landed>>

\* pending: briefs of the verified board that nobody has closed, taken or been nudged for.
Pending(n) ==
    {b \in Briefs : HasEvent(n, {"brief"}, b) /\ ~HasEvent(n, {"taken", "nudged", "misfire"}, b)}

IsAdapter(n) == ~HasEvent(n, {"demote"}, NotGiven)

-------------------------------------------------------------------------------
(* herdr *)

HerdrChanges(p, row) ==
    /\ paneChanges < MaxPaneChanges /\ row # herdr[p]
    /\ paneChanges' = paneChanges + 1
    /\ herdr' = [herdr EXCEPT ![p] = row]
    /\ UNCHANGED <<board, view, claim, scope, map, adapter, tried, runs, prompts, unrecorded, landed>>

\* A pane is relabelled, gets another terminal, closes, starts or ends a turn.
HerdrMoves(p) ==
    \/ \E l \in Labels : HerdrChanges(p, [herdr[p] EXCEPT !.label = l])
    \/ HerdrChanges(p, [herdr[p] EXCEPT !.term = paneChanges + 1])
    \/ HerdrChanges(p, [herdr[p] EXCEPT !.listed = ~@])
    \/ HerdrChanges(p, [herdr[p] EXCEPT !.idle = ~@])

-------------------------------------------------------------------------------
(* Whose pane *)

Listed == {p \in Panes : herdr[p].listed}
Labelled(who) == {p \in Listed : herdr[p].label = who}

\* join: the map before the claim before the label, and a label only if it is unique.
Placed(who) ==
    LET given == IF who # "helper" THEN {} ELSE {p \in Panes : p = map}
        said  == IF who # "helper" THEN {} ELSE {p \in Panes : p = claim}
        chosen == IF given # {} THEN given ELSE IF said # {} THEN said ELSE Labelled(who)
    IN IF Cardinality(chosen) = 1 THEN chosen \cap Listed ELSE {}

\* resolve: the pane of the helper, or none.  A claim on a pane that has gone is refused
\* before any label is looked at; one pane speaks for one member; a protected or denied
\* pane is not used.
Resolve ==
    LET p == Placed("helper")
    IN IF map = NotGiven /\ claim # NotGiven /\ claim \notin Listed THEN {}
       ELSE (p \ Placed("operator")) \ (Labelled("operator") \cup scope)

\* identity: what herdr says of the pane and of the agent in it.
Identity(p) == <<p, herdr[p].label, herdr[p].term>>

-------------------------------------------------------------------------------
(* The adapter *)

\* A plausible bug: the saved board is acted on before the rest of it is read.
StartActing ==
    /\ adapter.pc = "down" /\ runs < MaxRuns
    /\ runs' = runs + 1
    /\ adapter' = [Down EXCEPT !.pc = "act", !.live = TRUE] /\ tried' = {}
    /\ UNCHANGED <<board, view, herdr, claim, scope, map, paneChanges, prompts, unrecorded, landed>>

\* nudging::run, from the board the reader saved; its lock keeps a second adapter out.
Start ==
    /\ adapter.pc = "down" /\ runs < MaxRuns
    /\ runs' = runs + 1
    /\ adapter' = [Down EXCEPT !.pc = "follow"] /\ tried' = {}
    /\ UNCHANGED <<board, view, herdr, claim, scope, map, paneChanges, prompts, unrecorded, landed>>

\* Nothing is decided from a partial replay; an adapter the board has demoted ends.
Acts(n) ==
    adapter' = IF ~IsAdapter(n) THEN Down
               ELSE [adapter EXCEPT !.pc = "act", !.live = TRUE]

Frame ==
    /\ adapter.pc = "follow" /\ view < Len(board)
    /\ view' = view + 1
    /\ IF adapter.live THEN Acts(view + 1) ELSE UNCHANGED adapter
    /\ UNCHANGED <<board, herdr, claim, scope, map, paneChanges, tried, runs, prompts, unrecorded, landed>>

Caught ==
    /\ adapter.pc = "follow" /\ ~adapter.live /\ view = Len(board)
    /\ Acts(view)
    /\ UNCHANGED <<board, view, herdr, claim, scope, map, paneChanges, tried, runs, prompts,
                   unrecorded, landed>>

\* Ctx::act: the pending briefs of this board, each tried once in a run.
Try(b) ==
    /\ adapter.pc = "act" /\ b \in Pending(view) \ tried
    /\ tried' = tried \cup {b}
    /\ adapter' = [adapter EXCEPT !.pc = "observe", !.of = b]
    /\ UNCHANGED <<board, view, herdr, claim, scope, map, paneChanges, runs, prompts, unrecorded, landed>>

Acted ==
    /\ adapter.pc = "act" /\ Pending(view) \subseteq tried
    /\ adapter' = [adapter EXCEPT !.pc = "follow"]
    /\ UNCHANGED <<board, view, herdr, claim, scope, map, paneChanges, tried, runs, prompts,
                   unrecorded, landed>>

Found(what) == adapter' = [adapter EXCEPT !.pc = "record", !.found = what]

\* The pane is resolved and its identity noted; the wait for it to settle follows.  Like
\* every look, it fails if herdr does not answer (~ok).
Observe(ok) ==
    /\ adapter.pc = "observe"
    /\ IF ~ok \/ Resolve = {} THEN Found("status")
       ELSE \E p \in Resolve :
              adapter' = [adapter EXCEPT !.pc = "settle", !.pane = p, !.before = Identity(p)]
    /\ UNCHANGED <<board, view, herdr, claim, scope, map, paneChanges, tried, runs, prompts,
                   unrecorded, landed>>

\* wait_settled returns, or runs out; then the same pane must still be the helper's, with
\* the same agent in it, and idle.
PaneSettled(ok) ==
    /\ adapter.pc = "settle"
    /\ IF ok /\ adapter.pane \in Resolve /\ Identity(adapter.pane) = adapter.before /\ herdr[adapter.pane].idle
       THEN adapter' = [adapter EXCEPT !.pc = "prompt"] ELSE Found("status")
    /\ UNCHANGED <<board, view, herdr, claim, scope, map, paneChanges, tried, runs, prompts,
                   unrecorded, landed>>

\* The prompt goes to the pane, whatever is in it by now.
Prompt ==
    /\ adapter.pc = "prompt" /\ herdr[adapter.pane].listed
    /\ prompts' = [prompts EXCEPT ![adapter.of] = @ + 1]
    /\ landed' = [landed EXCEPT ![adapter.of] = herdr[adapter.pane].term]
    /\ adapter' = [adapter EXCEPT !.pc = "check"]
    /\ UNCHANGED <<board, view, herdr, claim, scope, map, paneChanges, tried, runs, unrecorded>>

\* herdr reports a failure; the text may have reached the pane all the same.
PromptFails(reached) ==
    /\ adapter.pc = "prompt" /\ (reached => herdr[adapter.pane].listed)
    /\ Found("status")
    /\ prompts' = [prompts EXCEPT ![adapter.of] = IF reached THEN @ + 1 ELSE @]
    /\ unrecorded' = [unrecorded EXCEPT ![adapter.of] = IF reached THEN @ + 1 ELSE @]
    /\ UNCHANGED <<board, view, herdr, claim, scope, map, paneChanges, tried, runs, landed>>

\* A plausible bug: a prompt that was delivered is taken for a nudge.
CheckNothing(ok) ==
    /\ adapter.pc = "check"
    /\ Found("nudged")
    /\ UNCHANGED <<board, view, herdr, claim, scope, map, paneChanges, tried, runs, prompts,
                   unrecorded, landed>>

\* Looked at once more: the same pane and agent, or a misfire.
Check(ok) ==
    /\ adapter.pc = "check"
    /\ Found(IF ok /\ adapter.pane \in Resolve /\ Identity(adapter.pane) = adapter.before
             THEN "nudged" ELSE "misfire")
    /\ UNCHANGED <<board, view, herdr, claim, scope, map, paneChanges, tried, runs, prompts,
                   unrecorded, landed>>

\* The record is emitted; what admission refuses, or the session loses, is said and left.
Record(admitted) ==
    /\ adapter.pc = "record"
    /\ IF admitted /\ IsAdapter(Len(board)) /\ adapter.found # "status"
       THEN Post(adapter.found, adapter.of) /\ UNCHANGED unrecorded
       ELSE /\ board' = board
            /\ unrecorded' = IF adapter.found = "status" THEN unrecorded
                             ELSE [unrecorded EXCEPT ![adapter.of] = @ + 1]
    /\ adapter' = [Down EXCEPT !.pc = "act", !.live = TRUE]
    /\ UNCHANGED <<view, herdr, claim, scope, map, paneChanges, tried, runs, prompts, landed>>

\* The process ends: a crash, or the stream closes.
AdapterDies ==
    /\ adapter.pc # "down"
    /\ adapter' = Down /\ tried' = {}
    /\ unrecorded' = IF adapter.pc = "check" \/ (adapter.pc = "record" /\ adapter.found # "status")
                     THEN [unrecorded EXCEPT ![adapter.of] = @ + 1] ELSE unrecorded
    /\ UNCHANGED <<board, view, herdr, claim, scope, map, paneChanges, runs, prompts, landed>>

-------------------------------------------------------------------------------
NudgeNext ==
    \/ \E k \in {"brief", "taken", "demote"}, b \in Briefs \cup {NotGiven} :
          (k = "demote" <=> b = NotGiven) /\ BoardMoves(k, b)
    \/ \E p \in Panes : HerdrMoves(p)
    \/ Start \/ Frame \/ Caught \/ Acted
    \/ \E b \in Briefs : Try(b)
    \/ Prompt
    \/ \E ok \in BOOLEAN : Observe(ok) \/ PaneSettled(ok) \/ PromptFails(ok) \/ Check(ok) \/ Record(ok)
    \/ AdapterDies

NudgeSpec == NudgeInit /\ [][NudgeNext]_nudgeVars

-------------------------------------------------------------------------------
(* Properties *)

\* What the board says of a nudge is true: a brief recorded as nudged was prompted, and
\* into the terminal the adapter had found for the helper, however herdr's panes moved
\* between its looks.
RecordIsTrue ==
    adapter.pc = "record" /\ adapter.found = "nudged" =>
       /\ prompts[adapter.of] > 0
       /\ landed[adapter.of] = adapter.before[3]

\* A brief is prompted again only if the record of an earlier prompt was lost: not by a
\* second frame, a restart, or a replay that has not caught up.
PromptedAgainOnlyIfLost ==
    \A b \in Briefs : prompts[b] <= 1 + unrecorded[b]

\* A recorded nudge is true, and is made again only if its record was lost.
NudgedIsTrue == RecordIsTrue /\ PromptedAgainOnlyIfLost

===============================================================================
