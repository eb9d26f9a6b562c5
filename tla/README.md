# agent-mesh in TLA+

This directory is a verification development of agent-mesh: TLA+ modules that
model its parts, TLC configurations that check them on small instances, and
theorems with proofs that TLAPS checks for every value of the constants.

Everything is translated from the Rust source. `PROJECT.json` maps each
definition to the lines it stands for.

## 1. The system

agent-mesh gives software agents cryptographic identities, a message bus and,
on top, a *flock*: one home server that admits signed events of a team of
agents into a single log, from which everyone derives the same board.

| Component | Code | State it keeps | Operations |
|---|---|---|---|
| Flock derived state | `flock-server/{state,sessions,chain}.rs` | epoch, roster, invites, sessions, role holders, certificates, writer heads | vet an event, take it in, replay a frame |
| Flock server | `flock-server/{server,entry}.rs` | derived state, open challenges, log, refusal chain | invite, enroll (begin, finish), renew (begin, finish), end session, hand off, replace roster, set roots, register device, admit |
| Log | `flock-server/{log,frame,refusal,read}.rs` | two append-only files | append, fsync, recover, snapshot |
| Journal and streams | `flock-server/{journal,serve}.rs` | committed frames, cursors, one thread per connection and one beside each stream | publish, wait, cancel, replay then follow, stop |
| Board | `flock/{board,admission,event}.rs` | entries, closers, roster | decide, apply, attempt view |
| Session client | `flock-session/*.rs`, `flock-server/follow.rs` | a session key, a verified checkpoint of the log | renew, sign, emit, follow, save, resume |
| Flock files and setup | `flock-server/{files,beneath,cite,init,keyfile,lock,private}.rs` | a directory of files, a lock, sockets | init, serve, open beneath a root, read, compare a hash |
| Bus sequences | `bus/{sequence,replay}.rs` | the reserved block on disk, the last sequence issued, the last accepted of each sender | reserve, next, check and advance |
| Bus inbox | `bus/{bus,inbox,reply,replay}.rs` | nonce cache, sequence tracker, handlers, subscriptions, waiters, one task per inbound envelope | publish, request, reply, deliver, time out |
| Bus sessions | `bus/session.rs` | per end a writer, a receiver, a keepalive task, handlers | open, accept, refuse, send, receive, close, shut down |
| iroh transport | `bus/bus.rs`, `transport/*.rs`, `discovery/*.rs` | endpoint, accept loop, connection tasks, reply windows, inbound queue, table of peers | dial, Hello, send, receive, resolve, close |
| SSH transport | `transport-ssh/*.rs` | cached sessions, slots, child processes, tasks; per session two counters and a poison flag | connect, handshake, send, reply, accept, close |
| Identity | `protocol/{agent_key,caveats,authority,assertion}.rs` | keys, chains, caveats, grants | issue, attenuate, verify, bind, admit |
| Revocation | `protocol/{revocation,guard}.rs`, `transport/revocation.rs`, `cli/revocation.rs` | one log per home, caches, the longest log seen | revoke, bump, check, admit |
| Ratchet | `ratchet/*.rs` | one-time keys, sessions | publish a bundle, initiate, accept, encrypt, decrypt |
| Front ends | `cli`, `tui` | panes, bridged streams, MCP calls, commands under way, the terminal view | nudge, bridge, attach, call a tool, close a row, sign for the operator, send, listen, show |

How they interact: a session signs an event and sends it over a connection;
a connection thread takes the server's mutex, the server vets the event
against the derived state, writes one frame, calls fsync, takes the event into
the state and publishes the frame to the journal; every stream's worker wakes,
sends the frame, and ends the stream if the frame's epoch bump left its session
out.  Followers and a restarted server rebuild the same state from the same
frames with the same rules.  Beside it, agents talk over the bus: an envelope is
signed under the sender's next sequence, carried on a connection of its own, and
judged by the receiver's inbox; a session is a stream of such envelopes with an
exact sequence of its own.

What is hard here: two-call exchanges (enroll, renew) with anything in between;
events signed before authority shrank and submitted after; a crash between a
write and its fsync, with readers that already saw more than the medium holds;
a stream that replays while frames are being committed; cancellation racing a
condition variable; a stop that must join every thread; a bus that dies and is
succeeded under the same key while its peers live on; replies that race their
timeouts; a send cancelled in the middle of a frame; two ends that write before
they read; a revocation that races a cache, a queue or another command; a file
tree, a terminal, a socket or a board that changes between the look and the act.
`hazards` in `PROJECT.json` lists each at its line with the properties that would
catch it.

## 2. The modules

### FlockState, FlockServer: who may act, and since when

`FlockState` is the derived state as a value with two operators, `Vet` and
`Apply`, because the code uses the same two both live and on replay
(`State::vet`, `State::apply`).  An admitted event is named by its admission
index.  Certificates are bounded to one epoch, so a certificate is its epoch.
The order of the code's checks is kept only where it shows: which check refused
an event is not state.

`FlockServer` adds the open challenges (`held`), the log and the frame
boundaries (`ends`), with one action per entry point of `entry.rs` and one per
class of submitted event.  The server's mutex makes each call atomic; the
two-call exchanges are two actions.  A call that is refused spends its
challenge and changes nothing else.  Sessions may present any certificate they
were ever given, and right and wrong values of `prev`, of the roster they
replace and of the state they hand off from.

`MCFlock` has a shepherd, a helper and one operator device, and rosters that drop
the helper or make it the delegate.

### FlockLog, FlockHistory: what survives

`FlockLog` models the admissions file and the refusals file as whole frames, an
incomplete tail and the number of frames known to be on the medium, and every
step of the write path (`writing`, `written`, fsync), of recovery (verify both
files, recover the log, recover the refusals), of a failed append (the server
is poisoned), of a crash and of a power loss.  A watcher holds what it was sent
and resumes after it; a snapshot reads the file without the server's lock.
Assumptions about the file system, all external: a power loss keeps what was
synced and any prefix of the rest, and a failed fsync may or may not have
reached the medium.

`FlockHistory` is the promise: one history that is only extended, each
submission once, told to readers as a prefix.  `ImplementsHistory` is the
refinement, with the durable part of the file as the history.

### FlockBoard: what the events mean

The admission table (`signer_member`, `ref_spec`, `check_refs`, `apply_table`)
and the board (`closers`, conflicts, the attempt view), with one action per
kind.  Signatures and chains are FlockServer's.

### FlockStream: who is told, and when it ends

The journal's mutex and condition variable, a worker per stream in the steps of
`stream_frames` and `Cursor::next_frame` (lock, look, wait), the thread that
watches the peer and cancels, and `Serving::stop`.  The lock is explicit, so
the model can lose a wake-up if the code could.

### BusSequence: one numbering over many lives

A bus issues a sequence only from a block that it reserved durably.  The model
has the steps of `reserve_unix` (stage and sync, rename, sync the directory),
a failure at each, a crash or a power loss between any two, and a receiver whose
tracker outlives the bus or is itself lost.  A power loss takes back a rename
that was not synced (external).  `Block` stands for `RESERVATION_BLOCK` and
`MaxSeq` for `u64::MAX`.

### BusInbox: who is answered, and by whom

Every bus has its nonce cache, sequence tracker, waiters and inbound tasks.  A
task goes through `on_envelope` one lock at a time, so that tasks interleave
between any two checks.  An application request is sent, returns, is answered,
times out or is dropped.  External: envelopes overtake one another and are
lost, an agent carries another's envelope (`Forward`), and an agent signs one out of
turn (`Stray`): a publish, an answer to a request that was not put to it, or a reply to
nothing, for one agent or for no one in particular, under a nonce that it draws or copies
from any envelope signed so far.  A nonce is otherwise named by what the envelope is, for
two envelopes never draw the same one.

The nonce cache does not know senders, so an envelope out of turn that passes the checks
takes the nonce it came under, and the one it was copied from is then refused.
The code says so of replies to nothing (`on_envelope`, "Unknown replies retain the normal
nonce-first path") and guards one case, which is what `NeverSpoiled` states: a reply that
is awaited is not lost to what others sign under its correlation.

### BusSession: one stream, two ends

A frame is written in two steps under the writer's lock, so a write can be
abandoned between them and leave nothing, part or all of the frame.  The
application of either end opens, decides, sends, closes, drops a half or all of
it whenever the code lets it; the keepalive task shares the writer; the
responder's bus may close.  The opener's may too, but what it then does (abandon a
write, fail a read) it may do at any time.  Time is not modelled: a keepalive, an idle timeout and
the end of the grace may come whenever they are enabled.

### FlockConnections: what a connection leaves behind

The two accept loops of `serve.rs`, one thread per connection with the session,
the challenge and the proof it carries, a failed accept and `stop`.  A session
started on a connection must be ended by it, however it breaks.

### FlockReader, FlockMember: the other end of the socket

`FlockReader` is the reader's checkpoint: locked, verified, staged, renamed and
synced before a frame is shown, with every file operation failing, crashes, power
losses and a server that comes back with an older history.  `FlockMember` is a
session process whose clients emit: renew, ask for the head, sign, admit, with
other members moving the epoch between any two.

### FlockFiles, FlockSetup: files under a changing tree

`FlockFiles` opens a cited path one component at a time beneath a root, stats,
reads and hashes, while the owner of the tree swaps directories for links and
writes to the file.  `FlockSetup` is init, step by step, beside another init and
a serve, with kills and power losses.

### FlockDesk, TuiApp, FlockNudge, McpServer: those who look and then act

`FlockDesk` extends the board with commands that read, pick, sign and send at
different times, and the signer of the operator's device.  `TuiApp` is the feed thread, the
checker thread and the UI loop of the terminal view.  `FlockNudge` is the
adapter that prompts a member's pane (the terminal multiplexer is external and
changes it at any time).  `McpServer` is the tool loop that must find its
session again on every call.

### FlockBridge, FlockAttach, OneShot: across hosts

`FlockBridge` is one chain of client, proxy, bus session, home and worker per
stream, with the places each side counts.  At home an open takes a place, connects to
the server and accepts, in steps, each with its failure; when the accept fails the place
and the connection are dropped without `end_backend`, and the stream is `"left"`.  Who
comes from which host, and the limits of the gate, are chosen initially.  `FlockAttach` is the directory that
stands for a remote flock.  `OneShot` is `send` and `listen`.

### IrohTransport, PeerResolver, SshSession, SshTransport: carriers

`IrohTransport` has the accept loop, its connection tasks, the Hello exchange,
reply windows, calls and close; QUIC is external, and a peer may show any
certificate it has a copy of.  `PeerResolver` is announce, browse, the pump and
`resolve`.  `SshSession` is the handshake and the records of one SSH channel over
a carrier that holds less than a frame.  `SshTransport` is everything around it:
cached sessions, slots, routes, child processes, tasks, close.  A first send looks at the
shutdown flag (`CheckOpen`), caches its route when it gets the cache's lock (`Insert`) and
then hands its task over or takes the route out again (`Track`): close may come between
any two.

### Revocation, Caveats, Certificates, Authority, Ratchet: whose word counts

`Revocation` has the commands that extend the log, the guards with their caches
and the memory they share, and the queue.  `Caveats` is the lattice, as pure
operators, which `Certificates` (chains minted or put together by hand) and
`Authority` (grants, closures, fences) extend.  `Ratchet` is bundles, one-time keys,
sessions and messages; the double ratchet is the library's.

### The MC modules: one component per behaviour

`MCFlock` starts FlockServer from an empty log and from a staffed flock.
`MCHistory`, `MCDesk`, `MCServing`, `MCLinks`, `MCBus` and `MCTrust` each put
components of one theme side by side, which they extend, so that a run evaluates
their assumptions; a variable `which`, chosen initially, says whose behaviour this is.
The components do not share variables, so a run explores the sum of their state
spaces, and each property is that of its component, by its own name in its module.
Where components interact, the interaction is in the component's module: FlockDesk
extends FlockBoard, FlockLog implements FlockHistory, Certificates and Authority
share Caveats, FlockServer is built on FlockState.  In the runs that check
deadlock, components that may come to rest have a self-loop (`Rests`); the log, the
sequences and the revocation commands have none and must always be able to go on.

## 3. The runs

| Run | Module, cfg | Bounds | Shows |
|---|---|---|---|
| `flock` | MCFlock, Flock | from genesis: 3 keys, 3 tokens, 2 challenges, 5 admissions; staffed: 5 more after a prefix of 6; symmetry of keys, tokens, nonces | `SingleHolder`, `InviteSingleUse`, `NoZombieWrites`, `HistoryIsLawful`, `LiveIsReplayed`, `SessionsOnlyAge` |
| `history` | MCHistory, History | log: 3 events, 2 refusals, any number of crashes and power losses; reader: 3 frames, 3 faults; member: 2 clients, 3 epochs; nudges: 1 brief, 2 panes; files: 2 bytes of 2, 2 changes; setup: 3 processes, 2 losses; attach: 2 at once, 3 runs; MCP: 2 lines, 2 moves | `LogSurvives` and the refinement `ImplementsHistory`, `ShownOnlyGrows`, `RefusedOnlyWhenMoved`, `NudgedIsTrue`, `FilesAreGuarded` (`OnlyBeneathTheRoot`, `CitedFileOrNothing`), `OkMeansOpens`, `ServedAsPinned`, `CallsAreServed` (`AnsweredInOrder`, `RightDestination`) |
| `desk` | MCDesk, Desk | board: 3 members, 2 entries after a brief, a job and an ask; view: 2 events, pages of 2 | `FirstCloserWins`, `BoardIsLawful`, `ConflictOnlyIfRaced`, `QuietIsCurrent`, `ViewsAreTrue` (`ReadersAgree`, `SelectionIsShown`) |
| `serving` | MCServing, Serving | streams: 1 session, 3 frames, any number of reconnections; bridge: 2 streams, of one host that may have 1 of 2 places or of two hosts that share 1 place; connections: 2, 1 session, 2 requests each; 2 senders, one silent, one a stranger | `StreamIsTheHistory`, `BackendWithinGate`, `NoOrphanSession`, `PrintedStands`, `NobodyWaitsForGood` |
| `links` | MCLinks, Links | session: 1 message of either side, 1 keepalive, a window of 2 frames; iroh: a peer and a stranger, 2 connections, 1 call | `SessionIsFaithful`, `CarriersAreKeys`, `ClosesEnd` |
| `bus` | MCBus, Bus | sequences: blocks of 3 up to 7, any number of crashes; inbox: 4 agents of 2 users, a request and a publish, a nonce cache of 1, 1 envelope carried again or signed out of turn, one of 4 (`Meddling`) under any nonce; SSH session: frames of 2 pieces, a carrier of 1, 2 records, logs of 2 | `OneNumbering` (`Ascending`, `DroppedOnlyIfOvertaken`, `CrashSkipsAtMostABlock`), `InboxTakesEachOnce` (`HandledOnce`, `NeverSpoiled`, `AnsweredByTarget`, `WaiterLivesWithRequest`), `SshEndsAgree`, `HandshakeNeverStuck`, `RevokedPeerIsSilent` |
| `ssh_transport` | SshTransport, SshTransport | 2 callers, 2 connections, 2 slots, 2 messages | `SessionsAreSound`, `SessionsLetGo` |
| `trust` | MCTrust, Trust | revocation: 2 guards and 2 commands (symmetric), a log of 2, 3 checks; chains of 3 links; 3 grants; 2 accounts and an outsider, 2 keys, 2 sessions | `NoRevocationLost`, `RevocationLasts`, `ChainsHold`, `GrantsAreBounded`, `RatchetReadsOnce` |
| `snapshot` | FlockLog, FlockSnapshot | 2 events, 1 refusal | *violated*: see Findings |
| `keepalive` | BusSession, BusSessionKeepalive | 1 keepalive | *violated* |
| `resolver` | PeerResolver, PeerResolver | 2 agents, 1 lookup | *violated* |
| `signer` | MCDesk, DeskSigner | as `desk` | *violated* |

A property of an MC module that joins several of one component says so in its
comment; the parts are stated, with the code they are about, in the component's
module.

Why the bounds are enough.  Enrollment needs two challenges for one token or
one key to race.  Everything that moves authority needs a shepherd, a member
with a holder and a session waiting behind it: that is the staffed prefix, and
five more admissions hold two transactions with their epoch bumps and an event
after them.  The log needs two frames, so that a frame can follow one that was
left in doubt, and has three.  Streams do not interact except through the
journal's lock, which the writer and the stopper contend for as well, and three
frames are one before a session, one that ends it and one after.  Seven sequences
in blocks of three are two whole blocks and one cut short by the end of the space.
A nonce cache of one forgets a nonce as soon as another envelope arrives, which is
the worst a full cache of any size can do to an envelope that comes back.  One envelope
out of turn is enough to take the nonce of a reply before the reply comes; it may be of
the user or of another, for its addressee or for no one, and under the correlation of
the request or of none.  Two streams fill either limit of the gate and leave one
waiting.  A
message, a keepalive and a goodbye are enough for a torn frame to be followed by
another and for the keepalive task to stand between two.  A carrier that holds less
than a frame is where a sequential handshake would lock up.  Two commands race for a
log, two guards share a memory that one of them is ahead of, and a log of two is a
revocation and one that is put back or follows it; three checks are a connect,
an arrival and the take of an envelope that waited, or a cache, another guard that
moves on, and the cache again.  A chain of three has a link in
the middle, which is the one that a check of leaf and root would miss.

Deadlock is checked in `history`, `bus` and `trust`.  The other models are bounded
and stop at their bounds, or are of things that end.  `HandshakeNeverStuck` says it
of the SSH handshake alone: while it is under way, some step of an end or of the
carrier is enabled.

Fairness.  It is stated in the component's module and is the hypothesis of its
liveness property in the run (`NobodyWaitsForGood`, `ClosesEnd`), so that a run may hold several components.  FlockStream: threads are
scheduled (weak fairness of each worker and of the stopper), and a thread that keeps
asking for the journal's mutex gets it (strong fairness of the steps that take it;
it is held for a few instructions).  That peers read (`PeersRead`) is the
hypothesis of `Delivered` alone.  FlockConnections: the threads, the accept loops
once told to stop, and the joins.  FlockBridge: both pumps of each side, the failure
of a stream that was cut, a failed open, and a worker that closes once it has been
told; nothing is asked of a client.  OneShot: the listener's task and the sender,
whose waits have deadlines.  BusSession: what a closing bus does by itself
(`CloseGoesOn`): the grace timer fires, a refusal, a write that has room and the
finish of a stream go on, a write is abandoned when the bus closes (the biased
select), and the receive loop ends once its tasks have.  IrohTransport: the loop, close,
the tasks of connections, aborts and the end of a reply window, which is a timer.  SshTransport: callers,
connection tasks and close.  Nothing is asked of a handler or of a peer anywhere.

One limit met on the way: BusSession has a window of two frames.  With less, the
dispatcher's own refusal and a keepalive blocked in its write can keep `close_stream`
waiting for the writer's lock (`bus/session.rs`, `Writer::send` and `close_stream`),
which is not under the shutdown's select, and `Bus::close` would wait for the peer.
QUIC's windows are far larger than two such frames.

## 4. The proofs

Eight modules hold the proofs, one for each theme.  Wherever a theorem has a
property's run, the run checks the same definition on a small instance.  Every
theorem is of the component's own specification (`Spec`, or one named for the
component), and no proof uses its fairness.

`FlockServerProofs` proves, for any sets of keys, members, tokens, devices and
nonces, any rosters and any bound on the log:

* `TypeCorrect`: `Spec => []TypeOK`;
* `OneHolder`: `Spec => []SingleHolder`;
* `InvitesSpentOnce`: `Spec => []InviteSingleUse`;
* `EndedStaySilent`: `Spec => []NoZombieWrites`;
* `RolesMoveByHandoff`: `Spec => SessionsOnlyAge`;
* `VettedKeepsTable`: any vetted event keeps the session table sound, which is
  what a recovering server and a follower rely on;
* `HistoryStaysLawful`: `Spec => []HistoryIsLawful`;
* `LogReplays`: `Spec => []LiveIsReplayed`.

Assumptions: keys, devices, the server and `None` are distinct
(`PrincipalsAssumption`), and the rosters are rosters (`BoundsAssumption`).

The inductive invariant `IInv` is `TypeOK` and `Sound(st, log)`.  `SingleHolder`
alone is not inductive: that a hand-off leaves one active session needs to know
that the active session is the holder (`ActiveHolds`), that a pending one is not
(`PendingWaits`), that the holder is a session of that member and is not pending
(`HoldersEnrolled`), and that every enrolled session's member has been seen
(`EnrolledSeen`), which makes its next session pending.  `InviteSingleUse` and
`NoZombieWrites` are about the log, so `Sound` ties the log to the table: a
token or key with a session-start is consumed or enrolled (`StartsKnown`), and a
session that the log ended is ended in the table (`EndsKnown`).  Every action is
reduced to one or two vetted events (`StepVets`), so the work is done once per
kind of event and not once per action.

`HistoryIsLawful` speaks of each event and all those before it, while the server decides
by its state.  `HistoryInv` therefore adds that the state remembers the log (`Told`): a
session's head, activation and start are the latest in the log, the roster in force is
the last one and its delegate the owner's, and no certificate is for an epoch to come.
`Fresh` says that whoever holds a certificate of the current epoch was given one after
the last loss of authority.  A vetted event that takes authority away makes it false, and
the bump in the same frame makes it true again: the proof needs that `StepVets` admits
such an event in no other way, which is the atomicity of `CommitRoster`, `EndSession` and
`Handoff`.

`LiveIsReplayed` is about a recursive function over a log of any length.  The invariant
is that there is a sequence of states from genesis to the live one, each accepted by
replay and leading to the next (`Trace`); a frame more extends it by one state or two.
That replay goes through these very states is an induction, done by the least index at
which it would not (`LeastNatural`, from the library's theorem that `<` is well founded
on the naturals, which needs no operator parameter).

`BusProofs` proves, for any block size and any end of the sequence space:

* `SequencesAscend`: `Spec => []Ascending`;
* `SuccessorIsHeard`: `Spec => []DroppedOnlyIfOvertaken`;
* `CrashIsCheap`: `Spec => []CrashSkipsAtMostABlock`;
* `LivesShareANumbering`: `Spec => []OneNumbering`, the three together.

Its inductive invariant `SequenceInv` adds to them that everything issued is at
most what a power loss would leave of the file (`IssuedIsDurable`, the point of
the directory sync), where the block of a living bus stands with respect to the
file (`BlockHeld`), that a reservation under way is for the very next sequence
(`ReservingNext`), and that the receiver's mark is a sequence it accepted
(`MarkIsAccepted`).

`BusProofs` also proves, for any agents, users, messages, plan, capacity of the nonce
cache and number of strays, of any kind, under any nonce and to any bus:

* `EachIsTakenOnce`: `InboxSpec => []InboxTakesEachOnce`.

It rests on `InboxAssumption` of `BusInbox` (every message has a plan, `None` is no agent,
the bounds are natural numbers), which the run `bus` evaluates for its constants.  None of the
four parts is inductive.  That an envelope is handled once rests on the tracker and not
on the cache, which forgets: whatever is past the checks is at or below the tracker's
mark (`TasksAreSound`, `PastOnce`), so it cannot be let past again.  That a request is
answered by its target needs that an agent replies once and only to what it handled
(`RepliesAreHandled`, `Running`).  `NeverSpoiled` needs to know of every nonce in the
cache whose packet brought it and what became of that packet (`NoncesTell`), that there
is one request of a message and one reply of the agent that was asked (`OneOfEach`), and
of answers of other agents at the bus that asked (`Rival`) when they may have come so far.
Those get past the check of their
signer only when the request is over or the true reply was accepted
(`StraysPassLate`): this is the order of `check_peer` and the nonce cache in
`on_envelope`, and the proof of `CheckPeer` is where it is used.

And for every frame length, every carrier and any number of records, while the
revocation logs of both hosts move (`SshAssumption`: frames, carrier and bounds are
numbers, and neither of the first two is zero):

* `SshSessionsAgree`: `SshSpec => []SshEndsAgree`;
* `RevokedPeersAreSilent`: `SshSpec => RevokedPeerIsSilent`.

`SshInv` says of each end that what is between the two was said by the other
(`OnTheWay`), that past the first flight it knows the other, at the same generation
(`Met`), that a half which is not poisoned has sent what it counted but for the record
it is at (`Sending`) and handed on what it counted (`Receiving`), and that its peer
stood in the log when this had the length that was last passed (`Passed`).  The
poisoning of a half by a write given up is where the numbering would break without it.

`FlockLogProofs` proves, for any submissions and any bound on the refusals:

* `TypeCorrect`: `Spec => []TypeOK`;
* `LogOutlivesCrashes`: `Spec => []LogSurvives`;
* `HistoryIsImplemented`: `Spec => ImplementsHistory`, the refinement of FlockHistory.

`LogInv` says what each phase of the server may rely on.  At most one frame of the log
is not known to be on the medium (`OneInDoubt`), the journal is what the file holds,
except after a failed append, when the server turns everyone away (`JournalIsFile`),
and nobody has been told more than what is synced.  The refinement maps the history to
the part of the file on the medium: an append is a step of FlockHistory when it is
synced, or at the power loss or the recovery that turns a frame in doubt into one that
stays; a crash is no step at all.

Beside the log it proves of those who live by it, for any frames and faults, any
briefs, panes and restarts, and any flocks, peers and calls:

* `ReaderNeverGoesBack`: `ReaderSpec => ShownOnlyGrows`;
* `NudgesAreRecorded`: `NudgeSpec => []NudgedIsTrue`;
* `EventsGoHome`: `McpSpec => []RightDestination`;
* `AnswersComeInOrder`: `McpSpec => []AnsweredInOrder`;
* `CallsStayServed`: `McpSpec => []CallsAreServed`, the two together.

`ReaderInv`: a frame that is not saved is the last one, and all before it was shown
(`AheadByOne`); it says what a save has written so far (`SaveHolds`), and that what was
shown is in the file however the machine ends (`ShownIsSaved`).  `NudgeInv`: terminals
are numbered by the changes of the panes, so that no pane gets an earlier one back
(`TerminalsAscend`), a record that this run has not read is its own (`UnreadIsOwn`), and
every prompt but the last lost its record, while the last is recorded or about to be
(`PromptsAccounted`); the nudge under way is of a brief of this run, in a pane that herdr
has (`AtItsBrief`).  `McpInv`: a call that is about to send looked and found its
flock (`FoundAtHome`), and the lines up to the call at hand are answered
(`AnsweredUpTo`).

`FlockBoardProofs` proves, for any members, lanes, commits, rosters and length:

* `FirstCloserCounts`: `Spec => []FirstCloserWins`;
* `BoardStaysLawful`: `Spec => BoardIsLawful`, from `AttemptsStaySettled`,
  `OperatorAnswersAlone` and `JobsAreEndedByTheirOwn`, one for each conjunct.

Every step admits one event (`StepRecords`), so the work is about `Record`.  `BoardInv`
adds that nothing is closed that is not on the board and by nothing that is not
(`ClosersOnBoard`); without it an entry still to come might already have a closer.

It goes on to the desk and the terminal view, for any files, channel and length of the
log:

* `DeskImplementsBoard`: `DeskSpec => Spec`, so all that is proved of the board holds
  under commands that read, decide and send at different times (`DeskCorrect` is the
  invariant);
* `ConflictsAreRaces`: `DeskSpec => ConflictOnlyIfRaced`;
* `QuietViewIsCurrent`: `TuiSpec => []QuietIsCurrent`.

`DeskInv` adds to `BoardInv` that whatever closed the target of a command under way came
after the command had read the log (`Overtaken`).  `TuiInv`: the models in the UI's channel are
in the order of the log and the view is behind them all (`ModelsAscend`), the last of them, or
the view if there is none, is of all that was verified (`LastModelIsCurrent`), and the
last check asked for, under way or reported covers what the view will cite
(`LastCheckIsOfTheView`).

`ServingProofs` proves of what a peer finds at the other end:

* `StreamsAreTheHistory`: `Spec => []StreamIsTheHistory`;
* `SessionsAreCarried`: `ConnSpec => []NoOrphanSession`;
* `GateBoundsBackends`: `BridgeSpec => []BackendWithinGate`;
* `InitLeavesAFlock`: `SetupSpec => []OkMeansOpens`;
* `AttachmentsServeThePin`: `AttachSpec => []ServedAsPinned`;
* `SessionNeverForks`: `MemberSpec => []RefusedOnlyWhenMoved`;
* `ReadersStayBeneath`: `FilesSpec => []OnlyBeneathTheRoot`;
* `CitedIsHandedOver`: `FilesSpec => []CitedFileOrNothing`;
* `FilesStayGuarded`: `FilesSpec => []FilesAreGuarded`, the two together;
* `PrintedIsTrusted`: `OneShotSpec => []PrintedStands`.

Each is for any number of streams, connections, hosts, commands, clients or senders, and
any bound.  Assumptions: the value for nobody is nobody's name (`StreamAssumption`,
`ConnAssumption`, `SetupAssumption`, `AttachAssumption`), the hops are finitely many and
the limits are numbers (`BridgeAssumption`), the byte that marks the foreign file is in no
other (`FilesAssumption`).  The inductive invariants:

* streams (`StreamInv`): a cursor stands after what was sent (`CursorFollows`), a replay
  ends no earlier than at what was asked for, and `Caught` is not sent before that end
  (`ReplayHonest`), the frame that ends a session
  is marked when it is sent (`EndIsMarked`) and nothing follows it (`StopsAtTheEnd`);
* connections (`ConnInv`): a session is bound to one connection (`BoundOnce`), which will
  end it (`LiveIsCarried`);
* the bridge (`BridgeInv`): a backend has a place or was left by a failed accept
  (`PlaceIsHeld`), and the places are counted against the limits (`GateHolds`, with the library's cardinality theorems);
* setup (`SetupInv`): the init that made the key is the one whose files appear, each in its turn
  (`FilesInTurn`), one that looked and finds no key yet finds nothing else either
  (`LookStillGood`), what an init that returned leaves is in the directory and on the
  medium (`Complete`), and who serves holds the lock (`LockIsHeld`);
* attach (`AttachInv`): who is past `Attachment::open` holds the lock, and pins what it was
  asked for (`PinsUnderLock`);
* the member's session (`MemberInv`): a request is of an enrolled session, its certificate is
  of the epoch it began in or a later one, and the head it signs on is the chain's
  (`RequestInOrder`);
* files (`FilesInv`): a reader walks from the root down and holds what it opened there
  (`ReadersBeneath`, for both the one-resolution and the component-wise walk), and an id
  is cited before anyone asks for it (`CitedFirst`);
* the one-shot message (`ShotInv`): a stranger and the task of its connection come no
  further than the reject (`StrangerIsOut`), and an envelope on the stream is one whose
  sender is done with it (`WasSent`).

`LinksProofs` proves, for any window and number of messages and keepalives, and for any
peers and connections:

* `SessionsAreFaithful`: `Spec => []SessionIsFaithful`;
* `CarriersHaveTheKey`: `IrohSpec => []CarriersAreKeys`.

`SessionInv` looks at one direction at a time (`Direction`): its writer writes only what
its phase allows (`WritesInPhase`), the stream carries what was sent and not yet had
(`Carried`, by a count of the messages past each frame, of which only the last may be
torn), messages are numbered from 1 at both ends (`Numbered`), who said goodbye sends no
more and who heard it has everything (`GoodbyeIsLast`), and each frame is in its place,
the opening first and one verdict (`InPlace`).  `Judged` ties the opener to the handler's
decision.  Which end is which enters only there.  Assumption (`SessionAssumption`): the
window is not zero.  `IrohInv` says of every place an identity is kept in (listener, call,
queue, what was heard and written) that it is the key of its connection.

`TrustProofs` proves, for any commands and guards, any queue and any length of
the log:

* `ReportedStaysRevoked`: `Spec => []NoRevocationLost`;
* `RevocationIsFinal`: `Spec => RevocationLasts`.

Assumptions (`RevocationAssumption`): guards, commands and marks are told apart.
`RevocationInv` joins what holds of the files and the commands (the holder of the lock
has read what is in the file, what was reported is in it) and of the guards: only the
holder of the guards' lock loads, the log a guard decided by is a prefix of the highest
one seen, and what a check knew when it began is in the log it decides by.  The last
is what an arrival needs that waited while its sender was revoked.

It also proves, for any keys, caveats, generations and chains of any length:

* `ChainsStaySound`: `CertSpec => []ChainsHold`;

and for any items, classes, bodies, root and chains of any length:

* `GrantsStayBounded`: `AuthSpec => []GrantsAreBounded`.

Assumptions: the user is no agent's key and what is allowed is caveats
(`CertAssumption`); bodies and root are caveats (`AuthAssumption`).  The lattice comes
first (`ScopeOrder`, `CountOrder`, `CaveatsOrder`: the order is reflexive and
transitive, and the meet of two of which one is at most the other is that one).
`LeafIsLeast` and `LeafIsLeastGrant` go up a chain of any length by the least index at
which the leaf would be allowed more; the fold over all links then stays at the leaf
(`AllowedIsLeaf`).  All this holds of any chain that verifies, however it was put
together; only what a minted chain is good for needs an invariant (`CertInv`: every
link of it holds).  For fences, each step of the decision is shown to lose nothing
whatever the classes mean: `RelatedReaches`, `UnionReaches`, `FromScopeReaches`.

And for any accounts, keys, sessions and messages (`RatchetAssumption`: every agent has a
user, and the outsider is none of them):

* `RatchetsReadOnce`: `RatchetSpec => []RatchetReadsOnce`.

`RatchetInv`: a key is its maker's (`KeysAreOwn`), a bundle that verifies is of the account
it names (`BundlesAreOwn`), sessions are numbered (`SessionsAreNumbered`), and a key
that opened a session is gone from the pool (`KeysAreSpent`), which is what keeps a
repeated first message from opening another.

`SshTransportProofs` proves, for any callers, connections and slots:

* `SessionsStaySound`: `Spec => []SessionsAreSound`.

`SessionsInv` gives each phase of a connection its slot (`SlotByPhase`) and counts them
(`SlotsCounted`, with the library's cardinality theorems); a connection that is being
made has one maker (`MadeByOne`), which holds the connect lock (`LockHeld`); a live
session of a message is the cached one (`LiveIsCached`), so that a second caller finds
it and opens none.  Assumption (`TransportAssumption`): connections are numbered from 1.

Only model-checked, and why.  Liveness and enabledness, which the prover does not do:
`NobodyWaitsForGood`, `ClosesEnd`, `SessionsLetGo`, `HandshakeNeverStuck`.  Induction over data: `ReadersAgree` compares views of which one
is a recursive function over the board, and `SelectionIsShown` is about the sorted
sequence of the rows a filter admits, a library operator defined by choice that no fact
in the library describes.  Everything else the passing runs check is proved.

## 5. Findings

`snapshot`: the comment on `Snapshot` (`flock-server/read.rs`) says that an
append in flight is not visible or incomplete.  Between the write and the fsync
of `Log::append` the whole frame is in the file, and `read_frames` returns it;
a power loss may take it away again.  Streams are not exposed to this: they are
fed from the journal after the fsync.

`keepalive`: the comment on `Body::Keepalive` (`bus/session.rs`) says that a
keepalive is never surfaced.  The responder's keepalive task starts when the open
is admitted, before its handler has decided, and `Session::initiate` takes the
responder's first frame for the verdict.  A handler that takes longer than the
keepalive interval (15 s) to accept loses the session: the opener fails with
"unexpected keepalive frame".

`resolver`: `PeerResolver::resolve` looks at the table and then creates its
`Notified`.  A peer inserted in between is in the table while the call waits for an
insert, and the deadline answers None unless something is announced again.

`signer`: `SignReply::Refused` says that nothing was signed.  Every error of
`sign_one` is answered so, and it connects to the server after it signed: a refused
or lost submission is reported as if the device had not signed.

Three observations that no run is about.  The documentation of `Gate`
(`cli/flock_bridge.rs`) says that a peer cannot allocate more than the limits allow, and
that of `end_backend` that a place is held until the backend worker is really gone.
`serve_home` connects the backend and then accepts; when the accept cannot be written, `?`
drops the connection and the permit at once, and the next stream is let in while the
server's thread of the first still serves.  The closed socket tells that thread, and it ends
(`PlacesComeBack`), so the excess does not last.  `BackendWithinGate` leaves these threads
out (without that it fails, as soon as a second stream takes the place of one whose accept
failed), and holds on every other way out.  `signed_prekey_bundle` (`ratchet/account.rs`) says
it consumes one one-time key, and `mark_keys_as_published` takes every unpublished one
out of the pool, so a second bundle needs new keys.  And a restarted nudging adapter
repeats a nudge whose record had not been written, which the flock's own
instructions say and the first lines of `nudging.rs` do not.

## 6. Not modelled, and what comes next

Not modelled: cryptography (signatures hold or do not), encodings, framing, size
limits of messages, permission bits, process hardening, argument parsing, printing
and rendering, the Python bindings, the in-memory transport of the tests, the GitHub
binding.  mDNS, QUIC, OpenSSH, the terminal multiplexer, the double ratchet and the
file system are external and modelled by what the code relies on.

Also left out: the pickling of a ratchet account (`from_pickle`, `pickle`), which only its
tests use; an account restored from an older pickle would hold spent keys again, and
`RatchetReadsOnce` says nothing of it.  The cancellation of the home's session handlers by
its own bus: home, server and bus are one process, which drops the bus after serving has
ended (`cli/flock/mod.rs`).  Requests that an agent signs out of turn: up to the handler
they go the way of its publishes.

Proofs to add: that the row selected is one shown (`SelectionIsShown`), once the rows
are described without a sort, and that readers agree (`ReadersAgree`), by the least index
at which they would not, as `LogReplays` does for replay.
