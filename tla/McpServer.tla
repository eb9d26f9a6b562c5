-------------------------------- MODULE McpServer ---------------------------------
(***************************************************************************)
(* `amesh mcp` (cli mcp.rs, flock/mcp.rs): a loop that reads JSON-RPC      *)
(* lines from its client, runs one tool at a time over the bus, the        *)
(* resolver or the flock session it was started for, and writes the        *)
(* answers.  Beside it peers come and go, and the session's socket is      *)
(* taken over by other sessions (flock/discover.rs looks who is there).    *)
(***************************************************************************)
EXTENDS Integers, Sequences, FiniteSets

CONSTANTS
    HostFlocks, \* flocks that sessions on this host belong to
    Peers,      \* agents the resolver may know
    MaxLines,   \* bound on the client's lines
    MaxMoves    \* bound on what the environment does

NoFlock == 0     \* no session; no flock is called so
Home == CHOOSE f \in HostFlocks : TRUE   \* the flock the tools were started for

VARIABLES
    lines,    \* the client's lines so far
    read,     \* how many the server has read
    tool,     \* the call being handled
    out,      \* what it has written, by the line each answers
    known,    \* PeerResolver's peers
    session,  \* the flock of the session behind the socket, NoFlock if nobody answers
    found,    \* what `session` was when Where::session last looked
    emitted,  \* the flocks events went to, with what was seen before
    asked,    \* the peers a request or a publication went to, with the prefix's matches then
    moves

mcpVars == <<lines, read, tool, out, known, session, found, emitted, asked, moves>>

\* A line: not a request at all, or one with or without an id
Methods == {"initialize", "tools/call", "other"}
Tools == {"mesh_peers", "mesh_request", "flock_status", "flock_emit", "unknown"}
NoTool == [at |-> "rest", name |-> "none"]
Request(id, method, name) == [is |-> "request", id |-> id, method |-> method, name |-> name]
Blank == [is |-> "blank", id |-> FALSE, method |-> "other", name |-> "unknown"]
Garbage == [is |-> "garbage", id |-> FALSE, method |-> "other", name |-> "unknown"]
Line == {Blank, Garbage} \cup {Request(id, method, "unknown") : id \in BOOLEAN, method \in Methods}
        \cup {Request(id, "tools/call", name) : id \in BOOLEAN, name \in Tools}

\* run: the bus is bound, and the tools are bound to a socket that answers for their flock
McpInit ==
    /\ lines = <<>> /\ read = 0 /\ tool = NoTool /\ out = <<>>
    /\ known = {} /\ session = Home /\ found = Home
    /\ emitted = {} /\ asked = {} /\ moves = 0

-------------------------------------------------------------------------------
(* serve *)

Unanswered(l) == l.is = "blank" \/ (l.is = "request" /\ ~l.id)

\* A plausible bug: a notification is answered as well.
AnswerAll(i, ok) ==
    out' = IF lines[i].is = "blank" THEN out ELSE Append(out, [line |-> i, ok |-> ok])

\* write_line, which a notification does not get
AnswerLine(i, ok) ==
    out' = IF Unanswered(lines[i]) THEN out ELSE Append(out, [line |-> i, ok |-> ok])

\* The outcome of a call: `?` on the way out becomes an error of the same id
ToolEnds(ok) == tool' = NoTool /\ AnswerLine(read, ok)

\* next_line and handle_request, which runs for a notification too
Serve ==
    /\ tool = NoTool /\ read < Len(lines)
    /\ read' = read + 1
    /\ LET l == lines[read + 1]
           running == l.is = "request" /\ l.method = "tools/call" /\ l.name # "unknown"
       IN IF running
          THEN /\ tool' = [at |-> CASE l.name \in {"flock_status", "flock_emit"} -> "guard"
                                    [] OTHER -> "args",
                           name |-> l.name]
               /\ out' = out
          ELSE tool' = NoTool /\ AnswerLine(read + 1, l.method = "initialize")
    /\ UNCHANGED <<lines, known, session, found, emitted, asked, moves>>

-------------------------------------------------------------------------------
(* The mesh's tools *)

\* topic_and_body and peer_route: an argument is missing, an endpoint is given in full, or a
\* prefix is looked up among the peers known now.  Every peer here starts with every prefix.
ToolPeers ==
    /\ tool.at = "args" /\ tool.name = "mesh_peers"
    /\ ToolEnds(TRUE)
    /\ UNCHANGED <<lines, read, known, session, found, emitted, asked, moves>>

ResolvePeer ==
    /\ tool.at = "args" /\ tool.name = "mesh_request"
    /\ IF Cardinality(known) = 1
       THEN tool' = [tool EXCEPT !.at = "request"] /\ asked' = asked \cup {known} /\ out' = out
       ELSE ToolEnds(FALSE) /\ asked' = asked
    /\ UNCHANGED <<lines, read, known, session, found, emitted, moves>>

BadArguments ==
    /\ tool.at = "args" /\ ToolEnds(FALSE)
    /\ UNCHANGED <<lines, read, known, session, found, emitted, asked, moves>>

\* The bus answers, fails, or the time is over; the loop waits for it
Requested(ok) ==
    /\ tool.at = "request" /\ ToolEnds(ok)
    /\ UNCHANGED <<lines, read, known, session, found, emitted, asked, moves>>

-------------------------------------------------------------------------------
(* The flock's tools *)

\* A plausible bug: any session that answers will do.
AnySession == session # NoFlock

\* Where::session with a socket and a flock: `who` is asked, and must be of the flock whose
\* genesis is in the directory
BelongsHere == session = Home

\* FlockTools::call asks on every call, and `send` of emit.rs asks again before the event
Look(from, to) ==
    /\ tool.at = from
    /\ found' = session
    /\ IF BelongsHere THEN tool' = [tool EXCEPT !.at = to] /\ out' = out
       ELSE ToolEnds(FALSE)
    /\ UNCHANGED <<lines, read, known, session, emitted, asked, moves>>

\* The text tools read the log itself.
FlockRead ==
    /\ tool.at = "guarded" /\ tool.name = "flock_status"
    /\ ToolEnds(TRUE)
    /\ UNCHANGED <<lines, read, known, session, found, emitted, asked, moves>>

\* `kind`, `refs` and `body` parse, then Where::session looks again
FlockEmit == tool.name = "flock_emit" /\ Look("guarded", "emit")

\* One Emit on a new connection to the same socket.  The session signs; admission decides.
Send(admitted) ==
    /\ tool.at = "emit"
    /\ IF session # NoFlock THEN emitted' = emitted \cup {<<session, found>>} ELSE emitted' = emitted
    /\ ToolEnds(session # NoFlock /\ admitted)
    /\ UNCHANGED <<lines, read, known, session, found, asked, moves>>

-------------------------------------------------------------------------------
(* The client, the resolver, and sessions *)

ClientWrites(l) ==
    /\ Len(lines) < MaxLines /\ lines' = Append(lines, l)
    /\ UNCHANGED <<read, tool, out, known, session, found, emitted, asked, moves>>

Move == moves < MaxMoves /\ moves' = moves + 1

PeerKnown(p) ==
    /\ Move /\ known' = known \cup {p}
    /\ UNCHANGED <<lines, read, tool, out, session, found, emitted, asked>>

\* The session ends, or another is started on the same socket: bind_private replaces it.
SessionMoves(f) ==
    /\ Move /\ f # session /\ session' = f
    /\ UNCHANGED <<lines, read, tool, out, known, found, emitted, asked>>

-------------------------------------------------------------------------------
McpNext ==
    \/ Serve \/ ToolPeers \/ ResolvePeer \/ BadArguments
    \/ \E ok \in BOOLEAN : Requested(ok) \/ Send(ok)
    \/ Look("guard", "guarded") \/ FlockRead \/ FlockEmit
    \/ \E l \in Line : ClientWrites(l)
    \/ \E p \in Peers : PeerKnown(p)
    \/ \E f \in HostFlocks \cup {NoFlock} : SessionMoves(f)

McpSpec == McpInit /\ [][McpNext]_mcpVars

-------------------------------------------------------------------------------
(* Properties *)

\* The client can match answers to its requests: the lines that were handled and want an
\* answer have one each, in the order they came, whatever the tools ran into, and nothing else
\* is written.  No call is handled before the one ahead of it was answered.  (serve.)
AnsweredInOrder ==
    LET handled == IF tool = NoTool THEN read ELSE read - 1
    IN /\ \A i, j \in DOMAIN out : i < j => out[i].line < out[j].line
       /\ {out[i].line : i \in DOMAIN out} = {i \in 1..handled : ~Unanswered(lines[i])}

\* An event of the flock's tools goes to a session of the flock they were started for, unless
\* the socket changed hands after it was looked at for this very event; and a request by
\* prefix goes to the only peer that had it.  (Where::session, FlockTools::call, resolve_peer.)
RightDestination ==
    /\ \A e \in emitted : e[2] = Home
    /\ \A k \in asked : Cardinality(k) = 1

\* Every call is served: its answer comes in its turn, and what it sends goes where it
\* belongs.
CallsAreServed == AnsweredInOrder /\ RightDestination

===============================================================================
