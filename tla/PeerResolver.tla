----------------------------- MODULE PeerResolver -------------------------------
(***************************************************************************)
(* Discovery and the peer resolver (agent-mesh-discovery announce.rs and   *)
(* browse.rs, agent-mesh-transport resolver.rs): agents announce           *)
(* themselves by mDNS, the browse thread turns what it sees into events, a *)
(* pump task keeps the table of peers by them, and resolve looks a peer up *)
(* or waits for it with a deadline.                                        *)
(*                                                                         *)
(* mDNS is external: it shows an announcement any number of times, and a   *)
(* withdrawal once.                                                        *)
(***************************************************************************)
EXTENDS Integers, Sequences

CONSTANTS
    Agents,     \* agents that announce themselves
    Lookups,    \* calls of resolve
    MaxSeen,    \* bound on what mDNS shows
    MaxEvents   \* bound on the events waiting for the pump

VARIABLES
    announced,  \* services registered with mDNS: the agents with an AnnouncerHandle
    seen,       \* how much mDNS has shown so far
    events,     \* the channel from the browse thread to the pump
    byFp,       \* by_fp: the agents in the table
    pump,       \* "recv", or "notify" between the insert and notify_waiters
    lookup      \* each call of resolve

vars == <<announced, seen, events, byFp, pump, lookup>>

NotCalled == [pc |-> "none", fp |-> 0, notified |-> FALSE]

Init ==
    /\ announced = {} /\ seen = 0
    /\ events = <<>> /\ byFp = {} /\ pump = "recv"
    /\ lookup = [l \in Lookups |-> NotCalled]

-------------------------------------------------------------------------------
(* Announce and browse *)

\* Announcer::start registers the service under the agent's own instance name.
Announce(a) ==
    /\ a \notin announced
    /\ announced' = announced \cup {a}
    /\ UNCHANGED <<seen, events, byFp, pump, lookup>>

\* The bridge thread: a resolution whose TXT record holds the fingerprints is passed on.
BrowseResolved(a) ==
    /\ a \in announced /\ seen < MaxSeen /\ Len(events) < MaxEvents
    /\ seen' = seen + 1
    /\ events' = Append(events, [kind |-> "resolved", agent |-> a])
    /\ UNCHANGED <<announced, byFp, pump, lookup>>

\* ... and one that does not is ignored (peer_from_service_info).
BrowseMalformed ==
    /\ seen < MaxSeen
    /\ seen' = seen + 1
    /\ UNCHANGED <<announced, events, byFp, pump, lookup>>

\* Dropping the AnnouncerHandle unregisters the service; the bridge passes the goodbye on.
Withdraw(a) ==
    /\ a \in announced /\ Len(events) < MaxEvents
    /\ announced' = announced \ {a}
    /\ events' = Append(events, [kind |-> "removed", agent |-> a])
    /\ UNCHANGED <<seen, byFp, pump, lookup>>

-------------------------------------------------------------------------------
(* The pump *)

\* Resolved: the peer is put in the table ...
PumpInsert ==
    /\ pump = "recv" /\ events # <<>> /\ Head(events).kind = "resolved"
    /\ byFp' = byFp \cup {Head(events).agent}
    /\ events' = Tail(events)
    /\ pump' = "notify"
    /\ UNCHANGED <<announced, seen, lookup>>

\* ... and then every Notified that exists at that moment is woken.
PumpNotify ==
    /\ pump = "notify"
    /\ pump' = "recv"
    /\ lookup' = [l \in Lookups |-> [lookup[l] EXCEPT !.notified = @ \/ lookup[l].pc = "parked"]]
    /\ UNCHANGED <<announced, seen, events, byFp>>

\* Removed: the entries of that instance go.
PumpRemove ==
    /\ pump = "recv" /\ events # <<>> /\ Head(events).kind = "removed"
    /\ byFp' = byFp \ {Head(events).agent}
    /\ events' = Tail(events)
    /\ UNCHANGED <<announced, seen, pump, lookup>>

-------------------------------------------------------------------------------
(* resolve *)

\* A look at the table: the peer, or on to the wait.
Looks(l, fp) ==
    lookup' = [lookup EXCEPT ![l] =
                 [pc |-> IF fp \in byFp THEN "found" ELSE "missed", fp |-> fp, notified |-> FALSE]]

Resolve(l, fp) ==
    /\ lookup[l].pc = "none"
    /\ Looks(l, fp)
    /\ UNCHANGED <<announced, seen, events, byFp, pump>>

\* on_insert.notified(): from here on a notify_waiters reaches this call.
Listens(l) ==
    /\ lookup[l].pc = "missed"
    /\ lookup' = [lookup EXCEPT ![l].pc = "parked"]
    /\ UNCHANGED <<announced, seen, events, byFp, pump>>

\* Woken: it looks again, and waits again if the insert was of another peer.
Wakes(l) ==
    /\ lookup[l].pc = "parked" /\ lookup[l].notified
    /\ Looks(l, lookup[l].fp)
    /\ UNCHANGED <<announced, seen, events, byFp, pump>>

\* The deadline.
TimesOut(l) ==
    /\ lookup[l].pc = "parked"
    /\ lookup' = [lookup EXCEPT ![l].pc = "unknown"]
    /\ UNCHANGED <<announced, seen, events, byFp, pump>>

-------------------------------------------------------------------------------
Next ==
    \/ \E a \in Agents : Announce(a) \/ BrowseResolved(a) \/ Withdraw(a)
    \/ BrowseMalformed
    \/ PumpInsert \/ PumpNotify \/ PumpRemove
    \/ \E l \in Lookups : \/ \E a \in Agents : Resolve(l, a)
                          \/ Listens(l) \/ Wakes(l) \/ TimesOut(l)

Spec == Init /\ [][Next]_vars

\* What resolve promises: "waiting up to `timeout` for the peer to show up".  A call that
\* is parked, with nothing on its way to wake it, waits for a peer that is not in the
\* table; so no peer that has shown up is answered by the deadline.
ParkedMeansUnknown ==
    \A l \in Lookups :
       lookup[l].pc = "parked" /\ ~lookup[l].notified /\ pump # "notify" => lookup[l].fp \notin byFp

===============================================================================
