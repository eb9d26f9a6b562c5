---------------------------- MODULE FlockStream ----------------------------
(***************************************************************************)
(* Streams: the journal's lock and condition variable (journal.rs), the    *)
(* connection threads that replay and then follow it (serve.rs), the       *)
(* thread beside each that watches for its peer's end, and a server that   *)
(* stops while all of them run.                                            *)
(*                                                                         *)
(* A stream belongs to one session and carries its name.  A frame is its   *)
(* position in the journal, whether it holds an epoch bump, and who was    *)
(* eligible after it.  Publishing, stopping and cancelling each take the   *)
(* journal's lock, change a flag and notify: one step, taken while nobody  *)
(* holds the lock.  A worker's look at the journal is three steps, so that *)
(* others run between its check and its wait if the lock lets them.        *)
(***************************************************************************)
EXTENDS Naturals, Sequences, FiniteSets

CONSTANTS
    Streams,     \* sessions, each with one stream at a time
    None,        \* nobody
    MaxFrames    \* bound on the journal

ASSUME StreamAssumption == None \notin Streams /\ MaxFrames \in Nat

VARIABLES
    frames,     \* the journal
    stopped,    \* Inner::stopped
    jlock,      \* the worker that holds the journal's lock
    started,    \* session -> the frame that started it, or 0
    ended,      \* session -> the frame that ended it, or 0
    dropped,    \* sessions whose member the roster does not list
    pc,         \* where each worker is
    next,       \* Cursor::next: how many frames the cursor is past
    replayEnd,  \* stream_frames' replay_end
    caught,     \* whether `Caught` was sent on this stream
    cancelled,  \* the cursor's cancellation flag
    over,       \* whether the frame in hand is the stream's last
    gone,       \* whether the peer closed its end
    shut,       \* whether the server shut the connection down
    asked,      \* what was published when the stream was authorized
    got,        \* what the peer has received, over all its streams
    stop        \* progress of Serving::stop

journal == <<frames, stopped>>
sessions == <<started, ended, dropped>>
worker == <<next, replayEnd, caught, over, asked>>
peers == <<gone, shut>>
vars == <<frames, stopped, jlock, started, ended, dropped, pc, next, replayEnd,
          caught, cancelled, over, gone, shut, asked, got, stop>>

Eligible(s, e, d) == {k \in Streams : s[k] # 0 /\ e[k] = 0 /\ k \notin d}

\* A worker is running: its thread has to end before the server is gone.
Running(w) == pc[w] \notin {"idle", "closed"}

Init ==
    /\ frames = <<>>
    /\ stopped = FALSE
    /\ jlock = None
    /\ started = [w \in Streams |-> 0]
    /\ ended = [w \in Streams |-> 0]
    /\ dropped = {}
    /\ pc = [w \in Streams |-> "idle"]
    /\ next = [w \in Streams |-> 0]
    /\ replayEnd = [w \in Streams |-> 0]
    /\ caught = [w \in Streams |-> FALSE]
    /\ cancelled = [w \in Streams |-> FALSE]
    /\ over = [w \in Streams |-> FALSE]
    /\ gone = [w \in Streams |-> FALSE]
    /\ shut = [w \in Streams |-> FALSE]
    /\ asked = [w \in Streams |-> 0]
    /\ got = [w \in Streams |-> <<>>]
    /\ stop = "no"

Goto(w, label) == pc' = [pc EXCEPT ![w] = label]

\* Every waiter looks again.
NotifyAll ==
    pc' = [w \in Streams |-> IF pc[w] = "waiting" THEN "want" ELSE pc[w]]

-----------------------------------------------------------------------------
(* The writer: the server commits a frame and publishes it. *)

\* Mutant: publishing does not notify.
PublishSilently(bump, s, e, d) ==
    /\ jlock = None
    /\ Len(frames) < MaxFrames
    /\ frames' = Append(frames, [bump |-> bump, eligible |-> Eligible(s, e, d)])
    /\ started' = s /\ ended' = e /\ dropped' = d
    /\ UNCHANGED <<stopped, jlock, pc, worker, cancelled, peers, got, stop>>

Publish(bump, s, e, d) ==
    /\ jlock = None
    /\ Len(frames) < MaxFrames
    /\ frames' = Append(frames, [bump |-> bump, eligible |-> Eligible(s, e, d)])
    /\ started' = s /\ ended' = e /\ dropped' = d
    /\ NotifyAll
    /\ UNCHANGED <<stopped, jlock, worker, cancelled, peers, got, stop>>

Here == Len(frames) + 1

PublishWork == Publish(FALSE, started, ended, dropped)

PublishStart(k) ==
    /\ started[k] = 0
    /\ Publish(FALSE, [started EXCEPT ![k] = Here], ended, dropped)

\* A session ends, or hands its role over: always with an epoch bump.
PublishEnd(k) ==
    /\ started[k] # 0 /\ ended[k] = 0
    /\ Publish(TRUE, started, [ended EXCEPT ![k] = Here], dropped)

PublishDrop(k) ==
    /\ k \notin dropped
    /\ Publish(TRUE, started, ended, dropped \cup {k})

PublishRestore(k) ==
    /\ k \in dropped
    /\ Publish(FALSE, started, ended, dropped \ {k})

-----------------------------------------------------------------------------
(* A connection that opens a stream. *)

\* The proof is checked under the server's lock: a live, certified session of
\* a current member.
Authorize(w) ==
    /\ pc[w] \in {"idle", "closed"}
    /\ stop = "no"
    /\ w \in Eligible(started, ended, dropped)
    /\ Goto(w, "authorized")
    /\ asked' = [asked EXCEPT ![w] = Len(frames)]
    /\ gone' = [gone EXCEPT ![w] = FALSE]
    /\ shut' = [shut EXCEPT ![w] = FALSE]
    /\ UNCHANGED <<journal, jlock, sessions, next, replayEnd, caught, cancelled,
                   over, got, stop>>

\* Mutant: the cursor starts at the frame the token names.
OpenCursorInclusive(w) ==
    /\ pc[w] = "authorized"
    /\ jlock = None
    /\ next' = [next EXCEPT ![w] = IF got[w] = <<>> THEN 0 ELSE Len(got[w]) - 1]
    /\ cancelled' = [cancelled EXCEPT ![w] = FALSE]
    /\ Goto(w, "begun")
    /\ UNCHANGED <<journal, jlock, sessions, replayEnd, caught, over, asked,
                   peers, got, stop>>

\* The cursor is placed after the peer's saved head, which names the last
\* frame it received (FlockLog shows the server has it).
OpenCursor(w) ==
    /\ pc[w] = "authorized"
    /\ jlock = None
    /\ next' = [next EXCEPT ![w] = Len(got[w])]
    /\ cancelled' = [cancelled EXCEPT ![w] = FALSE]
    /\ Goto(w, "begun")
    /\ UNCHANGED <<journal, jlock, sessions, replayEnd, caught, over, asked,
                   peers, got, stop>>

\* Mutant: the replay is taken to end at the resume point.
ReadEndEarly(w) ==
    /\ pc[w] = "begun"
    /\ jlock = None
    /\ replayEnd' = [replayEnd EXCEPT ![w] = next[w]]
    /\ caught' = [caught EXCEPT ![w] = FALSE]
    /\ Goto(w, "loop")
    /\ UNCHANGED <<journal, jlock, sessions, next, cancelled, over, asked, peers,
                   got, stop>>

ReadEnd(w) ==
    /\ pc[w] = "begun"
    /\ jlock = None
    /\ replayEnd' = [replayEnd EXCEPT ![w] = Len(frames)]
    /\ caught' = [caught EXCEPT ![w] = FALSE]
    /\ Goto(w, "loop")
    /\ UNCHANGED <<journal, jlock, sessions, next, cancelled, over, asked, peers,
                   got, stop>>

\* The end of the replay is announced once.
Loop(w) ==
    /\ pc[w] = "loop"
    /\ IF ~caught[w] /\ next[w] >= replayEnd[w]
       THEN Goto(w, "caught") ELSE Goto(w, "want")
    /\ UNCHANGED <<journal, jlock, sessions, worker, cancelled, peers, got, stop>>

Broken(w) == gone[w] \/ shut[w]

SendCaught(w) ==
    /\ pc[w] = "caught"
    /\ ~Broken(w)
    /\ caught' = [caught EXCEPT ![w] = TRUE]
    /\ Goto(w, "want")
    /\ UNCHANGED <<journal, jlock, sessions, next, replayEnd, over, asked,
                   cancelled, peers, got, stop>>

-----------------------------------------------------------------------------
(* Cursor::next_frame. *)

Lock(w) ==
    /\ pc[w] = "want"
    /\ jlock = None
    /\ jlock' = w
    /\ Goto(w, "holding")
    /\ UNCHANGED <<journal, sessions, worker, cancelled, peers, got, stop>>

\* Mutant: whether the session is over is asked only of live frames.
LastFrameLive(w, f) == f.bump /\ caught[w] /\ w \notin f.eligible

\* A frame with a bump that leaves the session out is the stream's last,
\* unless it is older than the session.
LastFrame(w, f) == f.bump /\ next[w] + 1 >= started[w] /\ w \notin f.eligible

Look(w) ==
    /\ pc[w] = "holding"
    /\ IF cancelled[w]
       THEN Goto(w, "ending") /\ jlock' = None /\ UNCHANGED <<next, over>>
       ELSE IF next[w] < Len(frames)
       THEN /\ over' = [over EXCEPT ![w] = LastFrame(w, frames[next[w] + 1])]
            /\ next' = [next EXCEPT ![w] = @ + 1]
            /\ Goto(w, "sending") /\ jlock' = None
       ELSE IF stopped
       THEN Goto(w, "ending") /\ jlock' = None /\ UNCHANGED <<next, over>>
       ELSE Goto(w, "checked") /\ UNCHANGED <<jlock, next, over>>
    /\ UNCHANGED <<journal, sessions, replayEnd, caught, asked, cancelled, peers,
                   got, stop>>

\* Mutant: the worker sleeps with the lock.
WaitHolding(w) ==
    /\ pc[w] = "checked"
    /\ Goto(w, "waiting")
    /\ UNCHANGED <<journal, jlock, sessions, worker, cancelled, peers, got, stop>>

\* Condvar::wait gives the lock up and sleeps in one step.
Wait(w) ==
    /\ pc[w] = "checked"
    /\ jlock' = None
    /\ Goto(w, "waiting")
    /\ UNCHANGED <<journal, sessions, worker, cancelled, peers, got, stop>>

-----------------------------------------------------------------------------
(* Sending, and the end of a stream. *)

SendFrame(w) ==
    /\ pc[w] = "sending"
    /\ ~Broken(w)
    /\ got' = [got EXCEPT ![w] = Append(@, next[w])]
    /\ Goto(w, IF over[w] THEN "ending" ELSE "loop")
    /\ UNCHANGED <<journal, jlock, sessions, worker, cancelled, peers, stop>>

\* The last message says why the stream is over.
SendClosed(w) ==
    /\ pc[w] = "ending"
    /\ ~Broken(w)
    /\ Goto(w, "leaving")
    /\ UNCHANGED <<journal, jlock, sessions, worker, cancelled, peers, got, stop>>

\* Writing to a connection that is gone or shut fails.
SendFails(w) ==
    /\ pc[w] \in {"sending", "caught", "ending"}
    /\ Broken(w)
    /\ Goto(w, "leaving")
    /\ UNCHANGED <<journal, jlock, sessions, worker, cancelled, peers, got, stop>>

\* The worker shuts the connection and joins the thread that watches it, which
\* then sees the end of the connection and cancels.
EndStream(w) ==
    /\ pc[w] = "leaving"
    /\ jlock = None
    /\ shut' = [shut EXCEPT ![w] = TRUE]
    /\ cancelled' = [cancelled EXCEPT ![w] = TRUE]
    /\ Goto(w, "closed")
    /\ UNCHANGED <<journal, jlock, sessions, worker, gone, got, stop>>

PeerLeaves(w) ==
    /\ Running(w)
    /\ ~gone[w]
    /\ gone' = [gone EXCEPT ![w] = TRUE]
    /\ UNCHANGED <<journal, jlock, sessions, pc, worker, cancelled, shut, got, stop>>

Watching(w) == pc[w] \notin {"idle", "authorized", "closed"}

\* Mutant: the flag is set without the journal's lock.
CancelUnlocked(w) ==
    /\ Watching(w)
    /\ Broken(w)
    /\ ~cancelled[w]
    /\ cancelled' = [cancelled EXCEPT ![w] = TRUE]
    /\ NotifyAll
    /\ UNCHANGED <<journal, jlock, sessions, worker, peers, got, stop>>

\* The watching thread sees the connection end.
Cancel(w) ==
    /\ Watching(w)
    /\ Broken(w)
    /\ ~cancelled[w]
    /\ jlock = None
    /\ cancelled' = [cancelled EXCEPT ![w] = TRUE]
    /\ NotifyAll
    /\ UNCHANGED <<journal, jlock, sessions, worker, peers, got, stop>>

-----------------------------------------------------------------------------
(* Serving::stop: the accept loops end, the journal stops, every connection *)
(* is cut, every thread is joined.                                          *)

StopAccepting ==
    /\ stop = "no"
    /\ stop' = "refusing"
    /\ UNCHANGED <<journal, jlock, sessions, pc, worker, cancelled, peers, got>>

StopJournal ==
    /\ stop = "refusing"
    /\ jlock = None
    /\ stopped' = TRUE
    /\ NotifyAll
    /\ stop' = "stopped"
    /\ UNCHANGED <<frames, jlock, sessions, worker, cancelled, peers, got>>

\* Mutant: connections are joined without being cut.
CutConnectionsNot ==
    /\ stop = "stopped"
    /\ stop' = "joining"
    /\ UNCHANGED <<journal, jlock, sessions, pc, worker, cancelled, peers, got>>

CutConnections ==
    /\ stop = "stopped"
    /\ shut' = [w \in Streams |-> shut[w] \/ Running(w)]
    /\ stop' = "joining"
    /\ UNCHANGED <<journal, jlock, sessions, pc, worker, cancelled, gone, got>>

Join ==
    /\ stop = "joining"
    /\ \A w \in Streams : ~Running(w)
    /\ stop' = "done"
    /\ UNCHANGED <<journal, jlock, sessions, pc, worker, cancelled, peers, got>>

-----------------------------------------------------------------------------

Writer ==
    /\ stop # "done"
    /\ \/ PublishWork
       \/ \E k \in Streams : \/ PublishStart(k) \/ PublishEnd(k)
                             \/ PublishDrop(k) \/ PublishRestore(k)

Worker(w) ==
    \/ OpenCursor(w) \/ ReadEnd(w) \/ Loop(w) \/ Lock(w) \/ Look(w) \/ Wait(w)
    \/ SendFails(w) \/ EndStream(w) \/ Cancel(w)

Send(w) == SendCaught(w) \/ SendFrame(w) \/ SendClosed(w)

Stopper == StopJournal \/ CutConnections \/ Join

Next ==
    \/ Writer
    \/ \E w \in Streams : Authorize(w) \/ Worker(w) \/ Send(w) \/ PeerLeaves(w)
    \/ StopAccepting \/ Stopper

\* The steps at which the worker itself asks for the journal's lock.
WorkerLocks(w) == OpenCursor(w) \/ ReadEnd(w) \/ Lock(w) \/ EndStream(w)

\* Threads are scheduled, and a mutex that is free again and again is had by a
\* thread that keeps asking for it.  A peer may never read what it is sent.
Fairness ==
    /\ WF_vars(Stopper)
    /\ SF_vars(StopJournal)
    /\ \A w \in Streams :
          /\ WF_vars(Worker(w))
          /\ SF_vars(WorkerLocks(w)) /\ SF_vars(Cancel(w))

Spec == Init /\ [][Next]_vars /\ Fairness

\* Every peer reads what it is sent.
PeersRead == \A w \in Streams : WF_vars(Send(w))

-----------------------------------------------------------------------------
(* Properties. *)

Labels == {"idle", "authorized", "begun", "loop", "caught", "want", "holding",
           "checked", "waiting", "sending", "ending", "leaving", "closed"}

TypeOK ==
    /\ \A i \in DOMAIN frames :
          frames[i] \in [bump: BOOLEAN, eligible: SUBSET Streams]
    /\ jlock \in Streams \cup {None}
    /\ jlock # None => pc[jlock] \in {"holding", "checked"}
    /\ \A w \in Streams : /\ pc[w] \in Labels
                          /\ pc[w] \in {"holding", "checked"} => jlock = w
                          /\ next[w] <= Len(frames)
    /\ stop \in {"no", "refusing", "stopped", "joining", "done"}

\* However a peer's streams were cut and reopened, replay and live delivery
\* together gave it every frame once and in order.
ExactlyOnce == \A w \in Streams : got[w] = [i \in 1..Len(got[w]) |-> i]

\* A session never receives a frame committed after the one that ended it,
\* even if it ended between its proof and the first frame it was sent.
NothingAfterTheEnd ==
    \A w \in Streams : ended[w] # 0 =>
        \A i \in DOMAIN got[w] : got[w][i] <= ended[w]

\* `Caught` means what it says: by then the peer has everything that was
\* published before it proved itself.
CaughtMeansCaughtUp ==
    \A w \in Streams : (caught[w] /\ pc[w] \in {"want", "holding", "checked", "waiting"})
        => Len(got[w]) >= asked[w]

\* What a peer has received over all its streams is the history: every frame once and in
\* order, none after the one that ends its session, and "caught up" only when it is.
StreamIsTheHistory == ExactlyOnce /\ NothingAfterTheEnd /\ CaughtMeansCaughtUp

\* A stream whose peer went away ends, though nothing is ever published again:
\* the cancellation cannot fall between the cursor's check and its wait.
PeerGoneEnds ==
    \A w \in Streams : (Running(w) /\ gone[w]) ~> ~Running(w)

\* Stopping ends, whatever the streams are doing and whether or not their
\* peers read: the log's lock is free afterwards.
StopEnds == (stop = "refusing") ~> (stop = "done")

\* What is published reaches every open stream whose peer reads, unless the
\* stream ends.
Delivered ==
    PeersRead =>
        \A w \in Streams, i \in 1..MaxFrames :
            (Running(w) /\ Len(frames) >= i) ~> (Len(got[w]) >= i \/ ~Running(w))

=============================================================================
