-------------------------------- MODULE MCDesk --------------------------------
(***************************************************************************)
(* The board of a flock, the commands and views that work on it, and the   *)
(* terminal view: a shepherd, a helper and an adapter on two lanes; the    *)
(* helper may be dropped from the roster and return.  A behaviour explores *)
(* the board or the terminal view.                                         *)
(***************************************************************************)
EXTENDS FlockDesk, TuiApp, TLC

CONSTANTS s, h, a, l1

VARIABLE which   \* the component that this behaviour is of

MCMembers == {s, h, a}

Staffed == s :> "shepherd" @@ h :> "helper" @@ a :> "adapter"
HelperDropped == [Staffed EXCEPT ![h] = "absent"]

MCRosters == {Staffed, HelperDropped}

\* Work under way: the shepherd's brief for the helper, the helper's job and
\* its question to the operator.
Begun ==
    <<[Says("brief", s) EXCEPT !.lane = l1, !.to = h],
      [Says("job", h) EXCEPT !.lane = l1],
      [Says("ask", h) EXCEPT !.lane = l1, !.ref = 1]>>

BegunInit ==
    /\ roster = Genesis
    /\ order = [i \in DOMAIN Begun |-> [event |-> Begun[i], conflict |-> 0]]
    /\ closers = [i \in 1..MaxEntries |-> 0]
    /\ DeskInit

allVars == <<which, vars, cmd, tuiVars>>

MCInit ==
    /\ which \in {"desk", "tui"}
    /\ BegunInit
    /\ TuiInit
    /\ which # "tui" => log = <<>>

MCNext ==
    \/ which = "desk" /\ DeskNext
       /\ UNCHANGED <<which, tuiVars>>
    \/ which = "tui" /\ TuiNext
       /\ UNCHANGED <<which, vars, cmd>>

MCSpec == MCInit /\ [][MCNext]_allVars

\* What is looked at is what is there.  See FlockDesk: all readers agree on what is
\* open.  See TuiApp: what is selected is a row that is shown.
ViewsAreTrue == ReadersAgree /\ SelectionIsShown

===============================================================================
