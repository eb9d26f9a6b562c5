------------------------------ MODULE SshTransport -----------------------------
(***************************************************************************)
(* The SSH transport of one bus (agent-mesh-transport-ssh transport.rs and *)
(* process.rs): concurrent sends to one peer over a cached session, replies *)
(* on the session a request came by, dedicated streams, the accept loop,   *)
(* the session slots they share, the OpenSSH children, and the close.      *)
(*                                                                         *)
(* A connection is one session with its reader task; its handshake and its *)
(* records are in SshSession.  A caller is one task of the bus inside      *)
(* send_to, reply or open_stream_to.                                       *)
(***************************************************************************)
EXTENDS Integers, FiniteSets

CONSTANTS
    Callers,       \* tasks of the bus that call the transport
    Conns,         \* connections that can exist, as numbers
    MaxSessions,   \* SshTransportOptions.max_sessions
    MaxMessages    \* bound on the envelopes the bus hands over

None == 0

\* None names no task and no connection.
ASSUME TransportAssumption ==
    /\ Conns \subseteq Nat \ {None} /\ None \notin Callers
    /\ MaxSessions \in Nat \ {0} /\ MaxMessages \in Nat

VARIABLES
    caller,     \* where each caller is, on which connection, and where its envelope was written
    conn,       \* each connection
    child,      \* its OpenSSH process, and who looks after it
    free,       \* free permits of session_slots
    cache,      \* outbound_sessions: the connection cached for the peer
    connecting, \* the caller that holds outbound_connect
    writing,    \* the caller that holds the writer of each route
    tracked,    \* connections whose tasks are in session_tasks
    accepting,  \* whether the accept loop runs
    closing,    \* how far Transport::close is
    owned,      \* the tasks close has taken over
    \* history
    messages,   \* envelopes handed over so far
    twice       \* whether an envelope was written on a second connection

vars == <<caller, conn, child, free, cache, connecting, writing, tracked, accepting,
          closing, owned, messages, twice>>

Shutdown == closing # "no"
Alive(c) == conn[c].route = "alive"

\* Phases: auth, open, ending (route dead, uncached), released (slot freed),
\* closed (the peer can see it).
NoConn == [kind |-> "none", phase |-> "unused", slot |-> FALSE, route |-> "none",
           eof |-> FALSE, stalled |-> FALSE]
NoChild == [run |-> "none", watch |-> "none"]
AtRest == [pc |-> "rest", conn |-> None, on |-> None, how |-> "none"]

Init ==
    /\ caller = [t \in Callers |-> AtRest]
    /\ conn = [c \in Conns |-> NoConn]
    /\ child = [c \in Conns |-> NoChild]
    /\ free = MaxSessions
    /\ cache = None /\ connecting = None
    /\ writing = [c \in Conns |-> None]
    /\ tracked = {} /\ accepting = TRUE
    /\ closing = "no" /\ owned = {}
    /\ messages = 0 /\ twice = FALSE

Unused(c) == conn[c].phase = "unused" /\ \A d \in Conns : d < c => conn[d].phase # "unused"
MarkDead(k) == [k EXCEPT !.route = IF @ = "alive" THEN "dead" ELSE @]
At(t, pc) == caller[t].pc = pc
Goes(t, pc) == caller' = [caller EXCEPT ![t].pc = pc]
Returns(t) ==
    /\ caller' = [caller EXCEPT ![t] = AtRest]
    /\ connecting' = IF connecting = t THEN None ELSE connecting

Over(k) == [MarkDead(k) EXCEPT !.phase = "closed", !.eof = FALSE, !.stalled = FALSE]

\* What drop gives back of a connection that did not get a task of its own.
Dropped(c) ==
    /\ conn' = [conn EXCEPT ![c] = [Over(@) EXCEPT !.slot = FALSE]]
    /\ free' = free + (IF conn[c].slot THEN 1 ELSE 0)

-------------------------------------------------------------------------------
(* OpenSSH children *)

\* A plausible bug: the child of a dropped carrier is not killed.
LeftRunning(k) == IF k.run = "none" THEN k ELSE [k EXCEPT !.watch = "orphan"]

\* Drop for UnauthenticatedSshCarrier kills the child and leaves it to a reaper.
Orphaned(k) == IF k.run = "none" THEN k
               ELSE [run |-> IF k.run = "running" THEN "killed" ELSE k.run, watch |-> "orphan"]

\* fail_inner_auth and finish first close the halves and wait.
Watched(k) == IF k.run = "none" THEN k ELSE [k EXCEPT !.watch = "wait"]

\* A child exits by itself; one that does while nobody waits for it is found so
\* as soon as somebody does.  One that is killed exits.
ChildExits(c, from) ==
    /\ child[c].watch # "none"
    /\ child[c].run = from
    /\ child' = [child EXCEPT ![c].run = "exited"]
    /\ UNCHANGED <<caller, conn, free, cache, connecting, writing, tracked, accepting,
                   closing, owned, messages, twice>>

\* wait_for_exit: the child is reaped, or the grace runs out and it is killed.
ChildWait(c) ==
    /\ child[c].watch = "wait"
    /\ \/ /\ child[c].run = "exited"
          /\ child' = [child EXCEPT ![c] = [run |-> "reaped", watch |-> "done"]]
       \/ /\ child[c].run = "running"
          /\ child' = [child EXCEPT ![c] = [run |-> "killed", watch |-> "reap"]]
    /\ UNCHANGED <<caller, conn, free, cache, connecting, writing, tracked, accepting,
                   closing, owned, messages, twice>>

\* kill_and_reap: reaped within the grace, or given up and dropped.
ChildReap(c) ==
    /\ child[c].watch = "reap"
    /\ child' = [child EXCEPT ![c] =
                   IF @.run = "exited" THEN [run |-> "reaped", watch |-> "done"]
                                       ELSE Orphaned(@)]
    /\ UNCHANGED <<caller, conn, free, cache, connecting, writing, tracked, accepting,
                   closing, owned, messages, twice>>

\* The reaper that drop leaves behind, kill_on_drop standing behind it.
OrphanReaped(c) ==
    /\ child[c].watch = "orphan" /\ child[c].run = "exited"
    /\ child' = [child EXCEPT ![c] = [run |-> "reaped", watch |-> "done"]]
    /\ UNCHANGED <<caller, conn, free, cache, connecting, writing, tracked, accepting,
                   closing, owned, messages, twice>>

Unwatched(c) == child[c].watch \in {"none", "orphan", "done"}

-------------------------------------------------------------------------------
(* Sending *)

\* send_over_session up to the connect lock: a live cached route is used, a dead
\* one forgotten.
Looks(t, pcMiss) ==
    IF cache # None /\ Alive(cache)
    THEN /\ caller' = [caller EXCEPT ![t] =
              [pc |-> "route", conn |-> cache, on |-> caller[t].on, how |-> "cached"]]
         /\ UNCHANGED cache
    ELSE /\ caller' = [caller EXCEPT ![t] =
              [pc |-> pcMiss, conn |-> None, on |-> caller[t].on, how |-> "new"]]
         /\ cache' = None

Send(t) ==
    /\ At(t, "rest") /\ ~Shutdown
    /\ messages < MaxMessages
    /\ messages' = messages + 1
    /\ Looks(t, "lock")
    /\ UNCHANGED <<conn, child, free, connecting, writing, tracked, accepting, closing,
                   owned, twice>>

\* Transport::reply: on the route of the request while it lives, else as a send.
Reply(t, c) ==
    /\ At(t, "rest") /\ ~Shutdown
    /\ conn[c].route # "none" /\ conn[c].kind = "accepted"
    /\ messages < MaxMessages
    /\ messages' = messages + 1
    /\ IF Alive(c)
       THEN /\ caller' = [caller EXCEPT ![t] =
                 [pc |-> "route", conn |-> c, on |-> None, how |-> "reply"]]
            /\ UNCHANGED cache
       ELSE Looks(t, "lock")
    /\ UNCHANGED <<conn, child, free, connecting, writing, tracked, accepting, closing,
                   owned, twice>>

\* Transport::open_stream_to: a slot, with neither the cache nor the connect lock.
OpenStream(t) ==
    /\ At(t, "rest") /\ ~Shutdown
    /\ messages < MaxMessages
    /\ messages' = messages + 1
    /\ caller' = [caller EXCEPT ![t] =
         [pc |-> "slot", conn |-> None, on |-> None, how |-> "stream"]]
    /\ UNCHANGED <<conn, child, free, cache, connecting, writing, tracked, accepting,
                   closing, owned, twice>>

\* A plausible bug: the cache is not looked at again under the connect lock.
ConnectLocked(t) ==
    /\ At(t, "lock") /\ connecting = None
    /\ IF Shutdown
       THEN Returns(t) /\ UNCHANGED cache
       ELSE connecting' = t /\ Goes(t, "slot") /\ UNCHANGED cache
    /\ UNCHANGED <<conn, child, free, writing, tracked, accepting, closing, owned,
                   messages, twice>>

\* The connect lock is taken, and the cache looked at again: another caller may
\* have connected meanwhile.
ConnectLock(t) ==
    /\ At(t, "lock") /\ connecting = None
    /\ IF Shutdown
       THEN Returns(t) /\ UNCHANGED cache
       ELSE connecting' = t /\ Looks(t, "slot")
    /\ UNCHANGED <<conn, child, free, writing, tracked, accepting, closing, owned,
                   messages, twice>>

\* A slot is awaited no longer than the authentication deadline.
TakeSlot(t) ==
    /\ At(t, "slot")
    /\ \/ /\ ~Shutdown /\ free > 0
          /\ \E c \in Conns :
               /\ Unused(c)
               /\ conn' = [conn EXCEPT ![c] = [NoConn EXCEPT
                    !.kind = IF caller[t].how = "stream" THEN "stream" ELSE "cached",
                    !.phase = "auth", !.slot = TRUE]]
               /\ caller' = [caller EXCEPT ![t] = [@ EXCEPT !.pc = "dial", !.conn = c]]
          /\ free' = free - 1
          /\ UNCHANGED connecting
       \/ Returns(t) /\ UNCHANGED <<conn, free>>
    /\ UNCHANGED <<child, cache, writing, tracked, accepting, closing, owned, messages,
                   twice>>

\* open_carrier starts a child, or fails; a closed transport is noticed after it.
Dial(t) ==
    /\ At(t, "dial")
    /\ LET c == caller[t].conn
       IN \/ /\ ~Shutdown
             /\ child' = [child EXCEPT ![c] = [run |-> "running", watch |-> "none"]]
             /\ Goes(t, "auth")
             /\ UNCHANGED <<conn, free, connecting>>
          \/ Dropped(c) /\ Returns(t) /\ UNCHANGED child
    /\ UNCHANGED <<cache, writing, tracked, accepting, closing, owned, messages, twice>>

\* The handshake as initiator, and the first record of a message session: it goes
\* well, fails (the child is then supervised before the slot goes back), or is
\* cut short by the close.
Connects(t, pc, next) ==
    /\ At(t, pc)
    /\ LET c == caller[t].conn
       IN \/ /\ ~Shutdown
             /\ caller' = [caller EXCEPT ![t].pc = next]
             /\ UNCHANGED <<conn, child, free, connecting>>
          \/ /\ Goes(t, "failing")
             /\ child' = [child EXCEPT ![c] = Watched(@)]
             /\ UNCHANGED <<conn, free, connecting>>
          \/ /\ Shutdown
             /\ child' = [child EXCEPT ![c] = Orphaned(@)]
             /\ Dropped(c) /\ Returns(t)
    /\ UNCHANGED <<cache, writing, tracked, accepting, closing, owned, messages>>

Authenticate(t) ==
    /\ Connects(t, "auth", IF caller[t].how = "stream" THEN "track" ELSE "first")
    /\ UNCHANGED twice

FirstRecord(t) ==
    /\ Connects(t, "first", "check")
    /\ twice' = (twice \/ caller[t].on # None)

Failing(t) ==
    /\ At(t, "failing") /\ Unwatched(caller[t].conn)
    /\ Dropped(caller[t].conn) /\ Returns(t)
    /\ UNCHANGED <<child, cache, writing, tracked, accepting, closing, owned, messages,
                   twice>>

\* Nothing is cached for a transport that is seen to be closed.
CheckOpen(t) ==
    /\ At(t, "check")
    /\ LET c == caller[t].conn
       IN IF Shutdown
          THEN /\ child' = [child EXCEPT ![c] = Orphaned(@)]
               /\ Dropped(c) /\ Returns(t)
          ELSE Goes(t, "insert") /\ UNCHANGED <<child, conn, free, connecting>>
    /\ UNCHANGED <<cache, writing, tracked, accepting, closing, owned, messages, twice>>

\* spawn_authenticated_reader: the cache's lock is awaited, the route is cached, be it after
\* the close has emptied the cache, and its task is spawned ...
Insert(t) ==
    /\ At(t, "insert")
    /\ cache' = caller[t].conn
    /\ conn' = [conn EXCEPT ![caller[t].conn].phase = "open", ![caller[t].conn].route = "alive"]
    /\ Goes(t, "track")
    /\ UNCHANGED <<child, free, connecting, writing, tracked, accepting, closing, owned,
                   messages, twice>>

\* A plausible bug: a route whose task came too late for the close stays in the cache.
TrackOnly(t) ==
    /\ At(t, "track")
    /\ LET c == caller[t].conn
       IN IF Shutdown
          THEN child' = [child EXCEPT ![c] = Orphaned(@)] /\ Dropped(c) /\ UNCHANGED tracked
          ELSE /\ conn' = [conn EXCEPT ![c].phase = IF @ = "auth" THEN "open" ELSE @,
                                       ![c].route = IF @ = "none" THEN "alive" ELSE @]
               /\ tracked' = tracked \union {c}
               /\ UNCHANGED <<child, free>>
    /\ Returns(t)
    /\ UNCHANGED <<cache, writing, accepting, closing, owned, messages, twice>>

\* ... and put among the tracked ones, unless the transport closed in the meantime: then the
\* task is aborted, the route marked dead and uncached.  A stream gets its route and its
\* bridge here.
Track(t) ==
    /\ At(t, "track")
    /\ LET c == caller[t].conn
       IN IF Shutdown
          THEN /\ child' = [child EXCEPT ![c] = Orphaned(@)]
               /\ Dropped(c)
               /\ cache' = IF cache = c THEN None ELSE cache
               /\ UNCHANGED tracked
          ELSE /\ conn' = [conn EXCEPT ![c].phase = IF @ = "auth" THEN "open" ELSE @,
                                       ![c].route = IF @ = "none" THEN "alive" ELSE @]
               /\ tracked' = tracked \union {c}
               /\ UNCHANGED <<child, free, cache>>
    /\ Returns(t)
    /\ UNCHANGED <<writing, accepting, closing, owned, messages, twice>>

\* send_on_route: nothing is tried on a closed transport or a dead route.
BeginOnRoute(t) ==
    /\ At(t, "route")
    /\ IF Shutdown \/ ~Alive(caller[t].conn)
       THEN /\ Returns(t)
            /\ cache' = IF caller[t].how = "cached" /\ cache = caller[t].conn
                        THEN None ELSE cache
       ELSE Goes(t, "writer") /\ UNCHANGED <<connecting, cache>>
    /\ UNCHANGED <<conn, child, free, writing, tracked, accepting, closing, owned,
                   messages, twice>>

LockWriter(t) ==
    /\ At(t, "writer") /\ writing[caller[t].conn] = None
    /\ Alive(caller[t].conn)
    /\ writing' = [writing EXCEPT ![caller[t].conn] = t]
    /\ twice' = (twice \/ caller[t].on # None)
    /\ caller' = [caller EXCEPT ![t] = [@ EXCEPT !.pc = "write", !.on = caller[t].conn]]
    /\ UNCHANGED <<conn, child, free, cache, connecting, tracked, accepting, closing,
                   owned, messages>>

RouteWritten(t) ==
    /\ At(t, "write")
    /\ writing' = [writing EXCEPT ![caller[t].conn] = None]
    /\ Returns(t)
    /\ UNCHANGED <<conn, child, free, cache, tracked, accepting, closing, owned, messages,
                   twice>>

\* A plausible bug: an envelope whose write failed is tried on another connection.
RetryElsewhere(t) ==
    /\ caller[t].pc \in {"writer", "write"}
    /\ LET c == caller[t].conn
       IN /\ conn' = [conn EXCEPT ![c] = MarkDead(@)]
          /\ writing' = [writing EXCEPT ![c] = IF @ = t THEN None ELSE @]
          /\ cache' = IF cache = c THEN None ELSE cache
          /\ IF connecting = t \/ Shutdown THEN Returns(t)
             ELSE caller' = [caller EXCEPT ![t] = [@ EXCEPT !.pc = "lock", !.conn = None,
                                                           !.how = "new"]]
                  /\ UNCHANGED connecting
    /\ UNCHANGED <<child, free, tracked, accepting, closing, owned, messages, twice>>

\* The record fails, its deadline passes (also while waiting for the writer), or
\* the transport closes: RouteWriteAttempt marks the route dead, the cache forgets
\* it, and the error goes to the caller, who is told no more than that.
RouteFails(t) ==
    /\ caller[t].pc \in {"writer", "write"}
    /\ LET c == caller[t].conn
       IN /\ conn' = [conn EXCEPT ![c] = MarkDead(@)]
          /\ writing' = [writing EXCEPT ![c] = IF @ = t THEN None ELSE @]
          /\ cache' = IF caller[t].how = "cached" /\ cache = c THEN None ELSE cache
    /\ Returns(t)
    /\ UNCHANGED <<child, free, tracked, accepting, closing, owned, messages, twice>>

-------------------------------------------------------------------------------
(* The accept loop *)

\* A carrier is accepted if a slot is free at once, and refused otherwise.
Accept ==
    /\ accepting /\ ~Shutdown /\ free > 0
    /\ \E c \in Conns : Unused(c) /\ \E k \in {"accepted", "served"} :
         conn' = [conn EXCEPT ![c] = [NoConn EXCEPT !.kind = k, !.phase = "new", !.slot = TRUE]]
    /\ free' = free - 1
    /\ UNCHANGED <<caller, child, cache, connecting, writing, tracked, accepting, closing,
                   owned, messages, twice>>

AcceptTrack(c) ==
    /\ conn[c].phase = "new"
    /\ IF Shutdown
       THEN Dropped(c) /\ accepting' = FALSE /\ UNCHANGED tracked
       ELSE /\ conn' = [conn EXCEPT ![c].phase = "auth"]
            /\ tracked' = tracked \union {c}
            /\ UNCHANGED <<free, accepting>>
    /\ UNCHANGED <<caller, child, cache, connecting, writing, closing, owned, messages,
                   twice>>

\* The handshake as responder; a stream also reads its opening envelope.
Serve(c) ==
    /\ conn[c].kind \in {"accepted", "served"} /\ conn[c].phase = "auth"
    /\ \/ /\ ~Shutdown
          /\ conn' = [conn EXCEPT ![c].phase = "open", ![c].route = "alive"]
          /\ UNCHANGED free
       \/ Dropped(c)
    /\ UNCHANGED <<caller, child, cache, connecting, writing, tracked, accepting, closing,
                   owned, messages, twice>>

-------------------------------------------------------------------------------
(* The task of a connection *)

IsStream(c) == conn[c].kind \in {"stream", "served"}
HasTask(c) == c \in tracked \union owned

\* The bus closes its sending half: only the outbound pump ends.
BusHalfCloses(c) ==
    /\ IsStream(c) /\ conn[c].phase = "open" /\ ~conn[c].eof
    /\ conn' = [conn EXCEPT ![c].eof = TRUE]
    /\ UNCHANGED <<caller, child, free, cache, connecting, writing, tracked, accepting,
                   closing, owned, messages, twice>>

\* The bus stops reading, and the inbound pump is stuck on a full pipe.
BusStalls(c) ==
    /\ IsStream(c) /\ conn[c].phase = "open" /\ Alive(c) /\ ~conn[c].stalled
    /\ conn' = [conn EXCEPT ![c].stalled = TRUE]
    /\ UNCHANGED <<caller, child, free, cache, connecting, writing, tracked, accepting,
                   closing, owned, messages, twice>>

\* A pump meets a fatal error: a torn frame or a failed write outbound (unless it
\* has seen the end of the bus's half), the peer gone, a record past its deadline
\* or a dropped receiver inbound (unless it is stuck).
PumpFails(c) ==
    /\ IsStream(c) /\ conn[c].phase = "open" /\ Alive(c)
    /\ ~conn[c].eof \/ ~conn[c].stalled
    /\ conn' = [conn EXCEPT ![c] = MarkDead(@)]
    /\ UNCHANGED <<caller, child, free, cache, connecting, writing, tracked, accepting,
                   closing, owned, messages, twice>>

\* The receive loop of a message session ends by an error of the record layer.
ReaderFails(c) ==
    /\ ~IsStream(c) /\ conn[c].phase = "open" /\ HasTask(c) /\ Alive(c)
    /\ conn' = [conn EXCEPT ![c] = [MarkDead(@) EXCEPT !.phase = "ending"]]
    /\ cache' = IF cache = c THEN None ELSE cache
    /\ UNCHANGED <<caller, child, free, connecting, writing, tracked, accepting, closing,
                   owned, messages, twice>>

\* A plausible bug: the pumps of a stream are run to their ends.
EndsWhenIdle(c) == Shutdown \/ (~Alive(c) /\ ~conn[c].stalled)

\* What ends a task: the close, or the death of its route, whatever it waits for.
Ends(c) == Shutdown \/ ~Alive(c)

TaskEnds(c) ==
    /\ conn[c].phase = "open" /\ HasTask(c) /\ Ends(c)
    /\ conn' = [conn EXCEPT ![c] = [MarkDead(@) EXCEPT !.phase = "ending"]]
    /\ cache' = IF cache = c THEN None ELSE cache
    /\ UNCHANGED <<caller, child, free, connecting, writing, tracked, accepting, closing,
                   owned, messages, twice>>

\* A plausible bug: the permit is handed back although the route's end did so too.
FreeSlotTwice(c) ==
    /\ conn[c].phase = "ending"
    /\ conn' = [conn EXCEPT ![c].phase = "released", ![c].slot = FALSE]
    /\ free' = free + 1 + (IF IsStream(c) THEN 1 ELSE 0)
    /\ UNCHANGED <<caller, child, cache, connecting, writing, tracked, accepting, closing,
                   owned, messages, twice>>

\* A plausible bug: the slot goes back when the task is over, after the close.
FreeSlotLast(c) ==
    /\ conn[c].phase = "ending"
    /\ conn' = [conn EXCEPT ![c].phase = "released"]
    /\ UNCHANGED <<free, caller, child, cache, connecting, writing, tracked, accepting,
                   closing, owned, messages, twice>>

\* The slot is freed before the connection closes, for the peer may reconnect at once.
FreeSlot(c) ==
    /\ conn[c].phase = "ending"
    /\ conn' = [conn EXCEPT ![c].phase = "released", ![c].slot = FALSE]
    /\ free' = free + 1
    /\ UNCHANGED <<caller, child, cache, connecting, writing, tracked, accepting, closing,
                   owned, messages, twice>>

CloseConn(c) ==
    /\ conn[c].phase = "released"
    /\ conn' = [conn EXCEPT ![c] = Over(@)]
    /\ child' = [child EXCEPT ![c] = Watched(@)]
    /\ UNCHANGED <<caller, free, cache, connecting, writing, tracked, accepting, closing,
                   owned, messages, twice>>

TaskDone(c) == conn[c].phase = "closed" /\ Unwatched(c)

-------------------------------------------------------------------------------
(* Closing *)

\* The flag is set and the slots are closed at one go.
CloseFlag ==
    /\ closing = "no" /\ closing' = "slots"
    /\ UNCHANGED <<caller, conn, child, free, cache, connecting, writing, tracked,
                   accepting, owned, messages, twice>>

CloseCache ==
    /\ closing = "slots" /\ closing' = "cache"
    /\ cache' = None
    /\ conn' = IF cache = None THEN conn ELSE [conn EXCEPT ![cache] = MarkDead(@)]
    /\ UNCHANGED <<caller, child, free, connecting, writing, tracked, accepting, owned,
                   messages, twice>>

\* The accept loop is aborted, at a point where it awaits, and then the tasks taken.
CloseTasks ==
    /\ closing = "cache" /\ closing' = "tasks"
    /\ \A c \in Conns : conn[c].phase # "new"
    /\ accepting' = FALSE
    /\ owned' = tracked /\ tracked' = {}
    /\ UNCHANGED <<caller, conn, child, free, cache, connecting, writing, messages, twice>>

\* close awaits each task, and aborts those still running at the deadline.
CloseWait ==
    /\ closing = "tasks" /\ closing' = "closed"
    /\ LET rest == {c \in owned : ~TaskDone(c)}
       IN /\ conn' = [c \in Conns |-> IF c \in rest
                        THEN [Over(conn[c]) EXCEPT !.slot = FALSE] ELSE conn[c]]
          /\ child' = [c \in Conns |-> IF c \in rest THEN Orphaned(child[c]) ELSE child[c]]
          /\ free' = free + Cardinality({c \in rest : conn[c].slot})
    /\ UNCHANGED <<caller, cache, connecting, writing, tracked, accepting, owned, messages,
                   twice>>

-------------------------------------------------------------------------------
CallerStep(t) ==
    \/ ConnectLock(t) \/ TakeSlot(t) \/ Dial(t) \/ Authenticate(t) \/ FirstRecord(t)
    \/ Failing(t) \/ CheckOpen(t) \/ Insert(t) \/ Track(t) \/ BeginOnRoute(t)
    \/ LockWriter(t) \/ RouteWritten(t) \/ RouteFails(t)

ConnStep(c) ==
    \/ ChildExits(c, "killed") \/ ChildWait(c) \/ ChildReap(c) \/ OrphanReaped(c)
    \/ AcceptTrack(c) \/ Serve(c) \/ TaskEnds(c) \/ FreeSlot(c) \/ CloseConn(c)

CloseStep == CloseCache \/ CloseTasks \/ CloseWait

Next ==
    \/ \E t \in Callers :
         \/ Send(t) \/ OpenStream(t) \/ \E c \in Conns : Reply(t, c)
         \/ CallerStep(t)
    \/ Accept
    \/ \E c \in Conns :
         \/ ConnStep(c) \/ ChildExits(c, "running")
         \/ BusHalfCloses(c) \/ BusStalls(c) \/ PumpFails(c) \/ ReaderFails(c)
    \/ CloseFlag \/ CloseStep

\* The runtime polls every task; deadlines bound what a caller waits for; a killed
\* process exits.
Fairness ==
    /\ \A t \in Callers : WF_vars(CallerStep(t))
    /\ \A c \in Conns : WF_vars(ConnStep(c))
    /\ WF_vars(CloseStep)

Spec == Init /\ [][Next]_vars /\ Fairness

-------------------------------------------------------------------------------
(* Properties *)

\* Every slot is free or held by one connection: no error path keeps one or gives
\* one back twice.
SlotsConserved ==
    free + Cardinality({c \in Conns : conn[c].slot}) = MaxSessions

\* Concurrent first sends do not open sessions side by side: there is never more
\* than one live message session to the peer.
OneLiveSession ==
    Cardinality({c \in Conns : conn[c].kind = "cached" /\ Alive(c)}) <= 1

\* An envelope is written on one connection at most.  A failed write may have been
\* delivered, so trying it elsewhere could deliver it twice.
WrittenOnce == ~twice

\* When the peer can see an established session close, its slot is free already.
SlotFreedBeforeClose ==
    \A c \in Conns : (conn[c].phase = "closed" /\ conn[c].route # "none") => ~conn[c].slot

\* A stream whose route has died gives its slot back, whoever stalls on it.
DeadRouteLetsGo ==
    \A c \in Conns : (conn[c].route = "dead") ~> ~conn[c].slot

\* After the close nothing is left: no caller waits, no session holds a slot, no
\* route is cached, and every child has been reaped, although callers were in the
\* middle of connecting when it came.
CloseLeavesNothing ==
    Shutdown ~> /\ \A t \in Callers : At(t, "rest")
                /\ cache = None
                /\ \A c \in Conns : /\ conn[c].phase \in {"unused", "closed"}
                                    /\ child[c].run \in {"none", "reaped"}

\* Slots are conserved and free before a close shows, and sends neither open sessions side
\* by side nor write an envelope twice.
SessionsAreSound == SlotsConserved /\ SlotFreedBeforeClose /\ OneLiveSession /\ WrittenOnce

\* A dead route lets its slot go, and a close leaves nothing.
SessionsLetGo == DeadRouteLetsGo /\ CloseLeavesNothing

===============================================================================
