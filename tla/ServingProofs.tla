---------------------------- MODULE ServingProofs ----------------------------
(***************************************************************************)
(* Theorems about what the flock server serves.                            *)
(*                                                                         *)
(* Event streams, for any streams and any length of the journal: a peer    *)
(* gets the journal from its start, each frame once and in order, nothing  *)
(* past the end of its session, and is told that it has caught up only     *)
(* once it has.                                                            *)
(*                                                                         *)
(* Connections, for any of them and any sessions: a live session has one   *)
(* connection that will end it.                                            *)
(*                                                                         *)
(* The bridge, for any hosts, streams and limits: the server has no more   *)
(* threads for remote hosts than the gate at home admits, but for those    *)
(* that it hung up on because it could not accept.                         *)
(*                                                                         *)
(* The directory, for any commands at once, killed anywhere, and any power *)
(* losses: an init that returned left a flock that opens, the socket leads *)
(* to the server that holds the log, and an attached directory serves the  *)
(* flock it is pinned to.                                                  *)
(*                                                                         *)
(* A member's session, for any clients and epochs: it never forks its own  *)
(* chain, and is refused for its certificate only if the epoch moved.      *)
(*                                                                         *)
(* Cited files, for any bytes, sizes and changes of the tree: no reader    *)
(* leaves the root, and what is handed over is what was cited.             *)
(*                                                                         *)
(* The one-shot message, for any senders at once: what is printed was sent *)
(* by a peer that stood, and no stranger's send reports success.           *)
(***************************************************************************)
EXTENDS FlockStream, FlockBridge, FlockConnections, FlockSetup, FlockAttach, FlockMember,
        FlockFiles, OneShot, FiniteSetTheorems, TLAPS

-------------------------------------------------------------------------------
(* Streams: the inductive invariant *)

Frames == [bump : BOOLEAN, eligible : SUBSET Streams]

JournalTyped ==
    /\ frames \in Seq(Frames)
    /\ started \in [Streams -> Nat] /\ ended \in [Streams -> Nat]
    /\ dropped \subseteq Streams

WorkersTyped ==
    /\ pc \in [Streams -> Labels]
    /\ next \in [Streams -> Nat] /\ replayEnd \in [Streams -> Nat]
    /\ asked \in [Streams -> Nat]
    /\ caught \in [Streams -> BOOLEAN] /\ over \in [Streams -> BOOLEAN]
    /\ got \in [Streams -> Seq(Nat)]

\* The labels at which the cursor stands where the peer does, and those past ReadEnd.
AtTheCursor == {"begun", "loop", "caught", "want", "holding", "checked", "waiting"}
Replaying == {"loop", "caught", "want", "holding", "checked", "waiting", "sending"}

\* The peer has the frames up to some one, and the cursor is where the peer is, or one
\* ahead of it with the frame in hand.
CursorFollows(w) ==
    /\ got[w] = [i \in 1..Len(got[w]) |-> i]
    /\ Len(got[w]) <= Len(frames) /\ next[w] <= Len(frames) /\ asked[w] <= Len(frames)
    /\ pc[w] \in AtTheCursor => next[w] = Len(got[w])
    /\ pc[w] = "sending" => next[w] = Len(got[w]) + 1

\* The end of the replay is no earlier than what was asked for, and Caught is not sent
\* before it.
ReplayHonest(w) ==
    pc[w] \in Replaying =>
        /\ asked[w] <= replayEnd[w]
        /\ caught[w] \/ pc[w] = "caught" => next[w] >= replayEnd[w]

\* The frame that ended a session is in the journal, and says so to whoever comes by.
EndIsMarked(w) ==
    /\ started[w] <= Len(frames)
    /\ ended[w] # 0 =>
         /\ ended[w] \in 1..Len(frames) /\ started[w] # 0 /\ started[w] <= ended[w]
         /\ frames[ended[w]].bump /\ w \notin frames[ended[w]].eligible

\* No stream is past the end of its session, and one that has the last frame in hand
\* knows it.
StopsAtTheEnd(w) ==
    ended[w] # 0 =>
        /\ Len(got[w]) <= ended[w]
        /\ pc[w] \in AtTheCursor \union {"authorized", "sending"} => Len(got[w]) < ended[w]
        /\ pc[w] = "sending" /\ next[w] = ended[w] => over[w]

StreamInv ==
    /\ JournalTyped /\ WorkersTyped
    /\ \A w \in Streams : /\ CursorFollows(w) /\ ReplayHonest(w)
                          /\ EndIsMarked(w) /\ StopsAtTheEnd(w)

LEMMA StreamInvInit == Init => StreamInv
<1> SUFFICES ASSUME Init PROVE StreamInv
  OBVIOUS
<1>1. JournalTyped
  BY DEF Init, JournalTyped, Frames
<1>2. WorkersTyped
  BY DEF Init, WorkersTyped, Labels
<1>3. ASSUME NEW w \in Streams
      PROVE  CursorFollows(w) /\ ReplayHonest(w) /\ EndIsMarked(w) /\ StopsAtTheEnd(w)
  <2>1. /\ got[w] = <<>> /\ next[w] = 0 /\ asked[w] = 0 /\ started[w] = 0 /\ ended[w] = 0
        /\ pc[w] = "idle" /\ frames = <<>>
    BY DEF Init
  <2>2. Len(got[w]) = 0 /\ Len(frames) = 0
    BY <2>1
  <2>3. got[w] = [i \in 1..Len(got[w]) |-> i]
    BY <2>1, <2>2
  <2> QED
    BY <2>1, <2>2, <2>3 DEF CursorFollows, ReplayHonest, EndIsMarked, StopsAtTheEnd,
                            AtTheCursor, Replaying
<1> QED
  BY <1>1, <1>2, <1>3 DEF StreamInv

-------------------------------------------------------------------------------
(* Streams: the writer *)

\* A frame is published: everyone stays where they are, or looks again.
LEMMA PublishKeeps ==
    ASSUME StreamInv, NEW bump \in BOOLEAN, NEW s \in [Streams -> Nat],
           NEW e \in [Streams -> Nat], NEW d \in SUBSET Streams,
           Publish(bump, s, e, d),
           \A w \in Streams : s[w] = started[w] \/ (started[w] = 0 /\ s[w] = Here),
           \A w \in Streams : \/ e[w] = ended[w]
                              \/ ended[w] = 0 /\ started[w] # 0 /\ e[w] = Here /\ bump
    PROVE  StreamInv'
<1>0. /\ JournalTyped /\ WorkersTyped
      /\ \A w \in Streams : /\ CursorFollows(w) /\ ReplayHonest(w)
                            /\ EndIsMarked(w) /\ StopsAtTheEnd(w)
  BY DEF StreamInv
<1>1. PICK f : f = [bump |-> bump, eligible |-> Eligible(s, e, d)]
  OBVIOUS
<1>2. f \in Frames /\ f.bump = bump /\ \A w \in Streams : e[w] # 0 => w \notin f.eligible
  BY <1>1 DEF Frames, Eligible
<1>3. /\ frames' = Append(frames, f) /\ started' = s /\ ended' = e /\ dropped' = d
      /\ next' = next /\ replayEnd' = replayEnd /\ caught' = caught /\ over' = over
      /\ asked' = asked /\ got' = got
      /\ pc' = [w \in Streams |-> IF pc[w] = "waiting" THEN "want" ELSE pc[w]]
  BY <1>1 DEF Publish, NotifyAll, worker
<1>4. frames \in Seq(Frames) /\ Len(frames) \in Nat
  BY <1>0 DEF JournalTyped
<1>5. /\ frames' \in Seq(Frames) /\ Len(frames') = Len(frames) + 1
      /\ frames'[Len(frames) + 1] = f
      /\ \A i \in 1..Len(frames) : frames'[i] = frames[i]
  <2> HIDE DEF Frames
  <2> QED
    BY <1>2, <1>3, <1>4
<1>6. JournalTyped'
  BY <1>3, <1>5 DEF JournalTyped
<1>7. WorkersTyped'
  BY <1>0, <1>3 DEF WorkersTyped, Labels
<1>8. ASSUME NEW w \in Streams
      PROVE  (CursorFollows(w) /\ ReplayHonest(w) /\ EndIsMarked(w) /\ StopsAtTheEnd(w))'
  <2>1. /\ next'[w] = next[w] /\ asked'[w] = asked[w] /\ got'[w] = got[w]
        /\ replayEnd'[w] = replayEnd[w] /\ caught'[w] = caught[w] /\ over'[w] = over[w]
    BY <1>3
  <2>2. /\ next[w] \in Nat /\ asked[w] \in Nat /\ Len(got[w]) \in Nat
        /\ started[w] \in Nat /\ ended[w] \in Nat
    BY <1>0 DEF WorkersTyped, JournalTyped
  <2>3. pc'[w] = pc[w] \/ (pc[w] = "waiting" /\ pc'[w] = "want")
    BY <1>3
  <2>4. CursorFollows(w) /\ ReplayHonest(w) /\ EndIsMarked(w) /\ StopsAtTheEnd(w)
    BY <1>0
  <2>5. CursorFollows(w)'
    BY <1>4, <1>5, <2>1, <2>2, <2>3, <2>4 DEF CursorFollows, AtTheCursor
  <2>6. ReplayHonest(w)'
    BY <2>1, <2>3, <2>4 DEF ReplayHonest, Replaying
  <2>7. EndIsMarked(w)'
    <3>1. started'[w] = s[w] /\ s[w] <= Len(frames')
      BY SMTT(30), <1>3, <1>4, <1>5, <2>2, <2>4 DEF EndIsMarked, Here
    <3>2. CASE e[w] = ended[w] /\ ended[w] # 0
      <4>1. ended[w] \in 1..Len(frames) /\ started[w] <= ended[w]
        BY <2>4, <3>2 DEF EndIsMarked
      <4>2. frames'[ended[w]] = frames[ended[w]]
        BY <1>5, <4>1
      <4>3. s[w] = started[w]
        <5>1. started[w] # 0
          BY <2>4, <3>2 DEF EndIsMarked
        <5> QED
          BY <5>1
      <4> QED
        BY <1>3, <1>4, <1>5, <2>4, <3>1, <3>2, <4>1, <4>2, <4>3 DEF EndIsMarked
    <3>3. CASE e[w] = Here /\ bump /\ started[w] # 0
      <4>1. e[w] = Len(frames) + 1 /\ e[w] # 0 /\ frames'[e[w]] = f
        BY <1>4, <1>5, <3>3 DEF Here
      <4>2. f.bump /\ w \notin f.eligible
        BY <1>2, <3>3, <4>1
      <4>3. s[w] # 0
        BY <3>3
      <4> QED
        BY <1>3, <1>4, <1>5, <3>1, <4>1, <4>2, <4>3 DEF EndIsMarked
    <3>4. CASE e[w] = 0
      BY <1>3, <3>1, <3>4 DEF EndIsMarked
    <3> QED
      BY <3>2, <3>3, <3>4
  <2>8. StopsAtTheEnd(w)'
    <3>1. CASE e[w] = ended[w]
      BY <1>3, <2>1, <2>3, <2>4, <3>1 DEF StopsAtTheEnd, AtTheCursor
    <3>2. CASE e[w] = Here
      <4>1. e[w] = Len(frames) + 1 /\ Len(got[w]) < e[w] /\ next[w] < e[w]
        BY <1>4, <2>2, <2>4, <3>2 DEF CursorFollows, Here
      <4> QED
        BY <1>3, <1>4, <2>1, <2>2, <4>1 DEF StopsAtTheEnd
    <3> QED
      BY <3>1, <3>2
  <2> QED
    BY <2>5, <2>6, <2>7, <2>8
<1> QED
  BY <1>6, <1>7, <1>8 DEF StreamInv

\* The server's commits, of any kind.
LEMMA WriterKeeps ==
    ASSUME StreamInv, Writer
    PROVE  StreamInv'
<1>0. /\ started \in [Streams -> Nat] /\ ended \in [Streams -> Nat] /\ dropped \subseteq Streams
      /\ Here \in Nat
  BY DEF StreamInv, JournalTyped, Here
<1>1. CASE PublishWork
  BY <1>0, <1>1, PublishKeeps DEF PublishWork
<1>2. ASSUME NEW k \in Streams, PublishStart(k)
      PROVE  StreamInv'
  <2>1. PICK s : s = [started EXCEPT ![k] = Here]
    OBVIOUS
  <2>2. /\ s \in [Streams -> Nat]
        /\ \A w \in Streams : s[w] = started[w] \/ (started[w] = 0 /\ s[w] = Here)
    BY <1>0, <1>2, <2>1 DEF PublishStart
  <2>3. Publish(FALSE, s, ended, dropped)
    BY <1>2, <2>1 DEF PublishStart
  <2> QED
    BY <1>0, <2>2, <2>3, PublishKeeps
<1>3. ASSUME NEW k \in Streams, PublishEnd(k)
      PROVE  StreamInv'
  <2>1. PICK e : e = [ended EXCEPT ![k] = Here]
    OBVIOUS
  <2>2. /\ e \in [Streams -> Nat]
        /\ \A w \in Streams : \/ e[w] = ended[w]
                              \/ ended[w] = 0 /\ started[w] # 0 /\ e[w] = Here /\ TRUE
    BY <1>0, <1>3, <2>1 DEF PublishEnd
  <2>3. Publish(TRUE, started, e, dropped)
    BY <1>3, <2>1 DEF PublishEnd
  <2> QED
    BY <1>0, <2>2, <2>3, PublishKeeps
<1>4. ASSUME NEW k \in Streams, PublishDrop(k)
      PROVE  StreamInv'
  <2>1. dropped \union {k} \in SUBSET Streams
    BY <1>0
  <2> QED
    BY <1>0, <1>4, <2>1, PublishKeeps DEF PublishDrop
<1>5. ASSUME NEW k \in Streams, PublishRestore(k)
      PROVE  StreamInv'
  <2>1. dropped \ {k} \in SUBSET Streams
    BY <1>0
  <2> QED
    BY <1>0, <1>5, <2>1, PublishKeeps DEF PublishRestore
<1> QED
  BY <1>1, <1>2, <1>3, <1>4, <1>5 DEF Writer

-------------------------------------------------------------------------------
(* Streams: everyone else *)

\* A step that leaves the journal alone, and every stream but one.
LEMMA OneStream ==
    ASSUME StreamInv, WorkersTyped', NEW k \in Streams,
           frames' = frames, started' = started, ended' = ended, dropped' = dropped,
           \A w \in Streams \ {k} :
              /\ pc'[w] = pc[w] /\ next'[w] = next[w] /\ replayEnd'[w] = replayEnd[w]
              /\ asked'[w] = asked[w] /\ caught'[w] = caught[w] /\ over'[w] = over[w]
              /\ got'[w] = got[w],
           CursorFollows(k)', ReplayHonest(k)', StopsAtTheEnd(k)'
    PROVE  StreamInv'
<1>1. JournalTyped'
  BY DEF StreamInv, JournalTyped
<1>2. ASSUME NEW w \in Streams
      PROVE  EndIsMarked(w)'
  BY DEF StreamInv, EndIsMarked
<1>3. ASSUME NEW w \in Streams
      PROVE  (CursorFollows(w) /\ ReplayHonest(w) /\ StopsAtTheEnd(w))'
  <2>1. CASE w = k
    BY <2>1
  <2>2. CASE w # k
    <3>1. CursorFollows(w) /\ ReplayHonest(w) /\ StopsAtTheEnd(w)
      BY DEF StreamInv
    <3>2. /\ pc'[w] = pc[w] /\ next'[w] = next[w] /\ replayEnd'[w] = replayEnd[w]
          /\ asked'[w] = asked[w] /\ caught'[w] = caught[w] /\ over'[w] = over[w]
          /\ got'[w] = got[w]
      BY <2>2
    <3>3. CursorFollows(w)'
      BY <3>1, <3>2 DEF CursorFollows
    <3>4. ReplayHonest(w)'
      BY <3>1, <3>2 DEF ReplayHonest
    <3>5. StopsAtTheEnd(w)'
      BY <3>1, <3>2 DEF StopsAtTheEnd
    <3> QED
      BY <3>3, <3>4, <3>5
  <2> QED
    BY <2>1, <2>2
<1> QED
  BY <1>1, <1>2, <1>3 DEF StreamInv

\* What a step of one worker starts from.
LEMMA StreamFacts ==
    ASSUME StreamInv, NEW w \in Streams
    PROVE  /\ CursorFollows(w) /\ ReplayHonest(w) /\ EndIsMarked(w) /\ StopsAtTheEnd(w)
           /\ WorkersTyped
           /\ next[w] \in Nat /\ replayEnd[w] \in Nat /\ asked[w] \in Nat
           /\ got[w] \in Seq(Nat) /\ Len(got[w]) \in Nat
           /\ started[w] \in Nat /\ ended[w] \in Nat
           /\ frames \in Seq(Frames) /\ Len(frames) \in Nat
BY DEF StreamInv, WorkersTyped, JournalTyped

LEMMA AuthorizeKeeps ==
    ASSUME StreamInv, NEW w \in Streams, Authorize(w)
    PROVE  StreamInv'
<1>1. /\ pc' = [pc EXCEPT ![w] = "authorized"] /\ asked' = [asked EXCEPT ![w] = Len(frames)]
      /\ next' = next /\ replayEnd' = replayEnd /\ caught' = caught /\ over' = over
      /\ got' = got /\ frames' = frames /\ started' = started /\ ended' = ended
      /\ dropped' = dropped
  BY DEF Authorize, Goto, journal, sessions
<1>2. ended[w] = 0
  BY DEF Authorize, Eligible
<1>3. WorkersTyped'
  BY <1>1, StreamFacts DEF WorkersTyped, Labels
<1>4. pc'[w] = "authorized" /\ asked'[w] = Len(frames)
  BY <1>1, StreamFacts DEF WorkersTyped
<1>5. CursorFollows(w)'
  <2>1. CursorFollows(w) /\ Len(frames) \in Nat
    BY StreamFacts
  <2>2. asked'[w] <= Len(frames')
    BY <1>1, <1>4, <2>1
  <2> QED
    BY <1>1, <1>4, <2>1, <2>2 DEF CursorFollows, AtTheCursor
<1>6. ReplayHonest(w)' /\ StopsAtTheEnd(w)'
  BY <1>1, <1>2, <1>4 DEF ReplayHonest, Replaying, StopsAtTheEnd
<1>7. \A v \in Streams \ {w} : pc'[v] = pc[v] /\ asked'[v] = asked[v]
  BY <1>1, StreamFacts DEF WorkersTyped
<1> QED
  BY <1>1, <1>3, <1>5, <1>6, <1>7, OneStream

LEMMA OpenCursorKeeps ==
    ASSUME StreamInv, NEW w \in Streams, OpenCursor(w)
    PROVE  StreamInv'
<1>1. /\ pc' = [pc EXCEPT ![w] = "begun"] /\ next' = [next EXCEPT ![w] = Len(got[w])]
      /\ asked' = asked /\ replayEnd' = replayEnd /\ caught' = caught /\ over' = over
      /\ got' = got /\ frames' = frames /\ started' = started /\ ended' = ended
      /\ dropped' = dropped /\ pc[w] = "authorized"
  BY DEF OpenCursor, Goto, journal, sessions
<1>2. Len(got[w]) \in Nat
  BY StreamFacts
<1>3. WorkersTyped'
  BY <1>1, <1>2, StreamFacts DEF WorkersTyped, Labels
<1>4. pc'[w] = "begun" /\ next'[w] = Len(got[w])
  BY <1>1, StreamFacts DEF WorkersTyped
<1>5. CursorFollows(w)'
  BY <1>1, <1>4, StreamFacts DEF CursorFollows, AtTheCursor
<1>6. ReplayHonest(w)' /\ StopsAtTheEnd(w)'
  BY <1>1, <1>4, StreamFacts DEF ReplayHonest, Replaying, StopsAtTheEnd, AtTheCursor
<1>7. \A v \in Streams \ {w} : pc'[v] = pc[v] /\ next'[v] = next[v]
  BY <1>1, StreamFacts DEF WorkersTyped
<1> QED
  BY <1>1, <1>3, <1>5, <1>6, <1>7, OneStream

LEMMA ReadEndKeeps ==
    ASSUME StreamInv, NEW w \in Streams, ReadEnd(w)
    PROVE  StreamInv'
<1>1. /\ pc' = [pc EXCEPT ![w] = "loop"]
      /\ replayEnd' = [replayEnd EXCEPT ![w] = Len(frames)]
      /\ caught' = [caught EXCEPT ![w] = FALSE]
      /\ asked' = asked /\ next' = next /\ over' = over
      /\ got' = got /\ frames' = frames /\ started' = started /\ ended' = ended
      /\ dropped' = dropped /\ pc[w] = "begun"
  BY DEF ReadEnd, Goto, journal, sessions
<1>2. Len(frames) \in Nat
  BY StreamFacts
<1>3. WorkersTyped'
  BY <1>1, <1>2, StreamFacts DEF WorkersTyped, Labels
<1>4. pc'[w] = "loop" /\ replayEnd'[w] = Len(frames) /\ caught'[w] = FALSE
  BY <1>1, StreamFacts DEF WorkersTyped
<1>5. CursorFollows(w)'
  BY <1>1, <1>4, StreamFacts DEF CursorFollows, AtTheCursor
<1>6. ReplayHonest(w)' /\ StopsAtTheEnd(w)'
  BY <1>1, <1>4, StreamFacts DEF CursorFollows, ReplayHonest, StopsAtTheEnd, AtTheCursor
<1>7. \A v \in Streams \ {w} : /\ pc'[v] = pc[v] /\ replayEnd'[v] = replayEnd[v]
                               /\ caught'[v] = caught[v]
  BY <1>1, StreamFacts DEF WorkersTyped
<1> QED
  BY <1>1, <1>3, <1>5, <1>6, <1>7, OneStream

\* A step that only moves a worker, among labels that say the same of it.
LEMMA MoveKeeps ==
    ASSUME StreamInv, NEW w \in Streams, NEW l \in Labels,
           pc' = [pc EXCEPT ![w] = l],
           frames' = frames, started' = started, ended' = ended, dropped' = dropped,
           next' = next, replayEnd' = replayEnd, caught' = caught, over' = over,
           asked' = asked, got' = got,
           \/ l \in {"ending", "leaving", "closed"}
           \/ pc[w] \in AtTheCursor \ {"begun"} /\ l \in AtTheCursor \ {"begun", "caught"}
           \/ pc[w] = "loop" /\ l = "caught" /\ next[w] >= replayEnd[w]
    PROVE  StreamInv'
<1>1. WorkersTyped'
  BY StreamFacts DEF WorkersTyped
<1>2. pc'[w] = l /\ \A v \in Streams \ {w} : pc'[v] = pc[v]
  BY StreamFacts DEF WorkersTyped
<1>3. CursorFollows(w) /\ ReplayHonest(w) /\ StopsAtTheEnd(w)
  BY StreamFacts
<1>4. CursorFollows(w)'
  BY <1>2, <1>3 DEF CursorFollows, AtTheCursor
<1>5. ReplayHonest(w)'
  BY <1>2, <1>3 DEF ReplayHonest, AtTheCursor, Replaying
<1>6. StopsAtTheEnd(w)'
  BY <1>2, <1>3 DEF StopsAtTheEnd, AtTheCursor
<1> QED
  BY <1>1, <1>2, <1>4, <1>5, <1>6, OneStream

\* The replay is announced once it has ended.
LEMMA SendCaughtKeeps ==
    ASSUME StreamInv, NEW w \in Streams, SendCaught(w)
    PROVE  StreamInv'
<1>1. /\ pc' = [pc EXCEPT ![w] = "want"] /\ caught' = [caught EXCEPT ![w] = TRUE]
      /\ asked' = asked /\ next' = next /\ over' = over /\ replayEnd' = replayEnd
      /\ got' = got /\ frames' = frames /\ started' = started /\ ended' = ended
      /\ dropped' = dropped /\ pc[w] = "caught"
  BY DEF SendCaught, Goto, journal, sessions
<1>2. WorkersTyped'
  BY <1>1, StreamFacts DEF WorkersTyped, Labels
<1>3. /\ pc'[w] = "want" /\ caught'[w] = TRUE
      /\ \A v \in Streams \ {w} : pc'[v] = pc[v] /\ caught'[v] = caught[v]
  BY <1>1, StreamFacts DEF WorkersTyped
<1>4. CursorFollows(w) /\ ReplayHonest(w) /\ StopsAtTheEnd(w)
  BY StreamFacts
<1>5. CursorFollows(w)'
  BY <1>1, <1>3, <1>4 DEF CursorFollows, AtTheCursor
<1>6. ReplayHonest(w)'
  BY <1>1, <1>3, <1>4 DEF ReplayHonest, Replaying
<1>7. StopsAtTheEnd(w)'
  BY <1>1, <1>3, <1>4 DEF StopsAtTheEnd, AtTheCursor
<1> QED
  BY <1>1, <1>2, <1>3, <1>5, <1>6, <1>7, OneStream

\* The cursor takes a frame: the one that ended the session is known for the last.
LEMMA TakeKeeps ==
    ASSUME StreamInv, NEW w \in Streams, pc[w] = "holding", next[w] < Len(frames),
           over' = [over EXCEPT ![w] = LastFrame(w, frames[next[w] + 1])],
           next' = [next EXCEPT ![w] = @ + 1], pc' = [pc EXCEPT ![w] = "sending"],
           frames' = frames, started' = started, ended' = ended, dropped' = dropped,
           replayEnd' = replayEnd, caught' = caught, asked' = asked, got' = got
    PROVE  StreamInv'
<1>1. /\ CursorFollows(w) /\ ReplayHonest(w) /\ EndIsMarked(w) /\ StopsAtTheEnd(w)
      /\ next[w] \in Nat /\ replayEnd[w] \in Nat /\ Len(frames) \in Nat
      /\ Len(got[w]) \in Nat /\ started[w] \in Nat /\ ended[w] \in Nat
      /\ frames \in Seq(Frames)
  BY StreamFacts
<1>2. LastFrame(w, frames[next[w] + 1]) \in BOOLEAN
  BY DEF LastFrame
<1>3. WorkersTyped'
  BY <1>1, <1>2, StreamFacts DEF WorkersTyped, Labels
<1>4. /\ pc'[w] = "sending" /\ next'[w] = next[w] + 1
      /\ over'[w] = LastFrame(w, frames[next[w] + 1])
      /\ \A v \in Streams \ {w} : pc'[v] = pc[v] /\ next'[v] = next[v] /\ over'[v] = over[v]
  BY StreamFacts DEF WorkersTyped
<1>5. CursorFollows(w)'
  BY <1>1, <1>4 DEF CursorFollows, AtTheCursor
<1>6. ReplayHonest(w)'
  BY <1>1, <1>4 DEF ReplayHonest, Replaying
<1>7. StopsAtTheEnd(w)'
  <2>1. ASSUME ended[w] # 0, next[w] + 1 = ended[w]
        PROVE  over'[w]
    BY <1>1, <1>4, <2>1 DEF EndIsMarked, LastFrame
  <2> QED
    BY <1>1, <1>4, <2>1 DEF StopsAtTheEnd, AtTheCursor
<1> QED
  BY <1>3, <1>4, <1>5, <1>6, <1>7, OneStream

\* A frame is sent: the peer has the next one, and a stream that sent its last one ends.
LEMMA SendFrameKeeps ==
    ASSUME StreamInv, NEW w \in Streams, SendFrame(w)
    PROVE  StreamInv'
<1>1. /\ pc' = [pc EXCEPT ![w] = IF over[w] THEN "ending" ELSE "loop"]
      /\ got' = [got EXCEPT ![w] = Append(@, next[w])]
      /\ asked' = asked /\ next' = next /\ over' = over /\ replayEnd' = replayEnd
      /\ caught' = caught /\ frames' = frames /\ started' = started /\ ended' = ended
      /\ dropped' = dropped /\ pc[w] = "sending"
  BY DEF SendFrame, Goto, journal, sessions, worker
<1>2. /\ CursorFollows(w) /\ ReplayHonest(w) /\ EndIsMarked(w) /\ StopsAtTheEnd(w)
      /\ next[w] \in Nat /\ Len(frames) \in Nat /\ got[w] \in Seq(Nat)
      /\ Len(got[w]) \in Nat /\ ended[w] \in Nat
  BY StreamFacts
<1>3. Append(got[w], next[w]) \in Seq(Nat) /\ Len(Append(got[w], next[w])) = Len(got[w]) + 1
  BY <1>2
<1>4. WorkersTyped'
  BY <1>1, <1>3, StreamFacts DEF WorkersTyped, Labels
<1>5. /\ pc'[w] = (IF over[w] THEN "ending" ELSE "loop")
      /\ got'[w] = Append(got[w], next[w])
      /\ \A v \in Streams \ {w} : pc'[v] = pc[v] /\ got'[v] = got[v]
  BY <1>1, StreamFacts DEF WorkersTyped
<1>6. next[w] = Len(got[w]) + 1
  BY <1>1, <1>2 DEF CursorFollows
<1>7. got'[w] = [i \in 1..Len(got'[w]) |-> i]
  <2>1. got[w] = [i \in 1..Len(got[w]) |-> i]
    BY <1>2 DEF CursorFollows
  <2>2. \A i \in 1..Len(got[w]) + 1 : Append(got[w], next[w])[i] = i
    BY <1>2, <1>6, <2>1
  <2> QED
    BY <1>2, <1>3, <1>5, <2>2
<1>8. CursorFollows(w)'
  BY <1>1, <1>2, <1>3, <1>5, <1>6, <1>7 DEF CursorFollows, AtTheCursor
<1>9. ReplayHonest(w)'
  BY <1>1, <1>2, <1>5 DEF ReplayHonest, Replaying
<1>10. StopsAtTheEnd(w)'
  <2>1. ASSUME ended[w] # 0
        PROVE  next[w] <= ended[w] /\ (next[w] = ended[w] => over[w])
    <3>1. next[w] = ended[w] => over[w]
      BY <1>1, <1>2, <2>1 DEF StopsAtTheEnd
    <3>2. Len(got[w]) < ended[w]
      BY <1>1, <1>2, <2>1 DEF StopsAtTheEnd
    <3> QED
      BY <1>2, <1>6, <3>1, <3>2
  <2> QED
    BY <1>1, <1>2, <1>3, <1>5, <1>6, <2>1 DEF StopsAtTheEnd, AtTheCursor
<1> QED
  BY <1>1, <1>4, <1>5, <1>8, <1>9, <1>10, OneStream

\* Everyone who waits looks again, and nothing else changes for the streams.
LEMMA NotifyKeeps ==
    ASSUME StreamInv, NotifyAll,
           frames' = frames, started' = started, ended' = ended, dropped' = dropped,
           next' = next, replayEnd' = replayEnd, caught' = caught, over' = over,
           asked' = asked, got' = got
    PROVE  StreamInv'
<1>1. JournalTyped' /\ WorkersTyped'
  BY DEF StreamInv, JournalTyped, WorkersTyped, NotifyAll, Labels
<1>2. ASSUME NEW w \in Streams
      PROVE  (CursorFollows(w) /\ ReplayHonest(w) /\ EndIsMarked(w) /\ StopsAtTheEnd(w))'
  <2>1. pc'[w] = pc[w] \/ (pc[w] = "waiting" /\ pc'[w] = "want")
    BY DEF NotifyAll
  <2>2. CursorFollows(w) /\ ReplayHonest(w) /\ EndIsMarked(w) /\ StopsAtTheEnd(w)
    BY StreamFacts
  <2>3. CursorFollows(w)'
    BY <2>1, <2>2 DEF CursorFollows, AtTheCursor
  <2>4. ReplayHonest(w)'
    BY <2>1, <2>2 DEF ReplayHonest, Replaying
  <2>5. EndIsMarked(w)'
    BY <2>2 DEF EndIsMarked
  <2>6. StopsAtTheEnd(w)'
    BY <2>1, <2>2 DEF StopsAtTheEnd, AtTheCursor
  <2> QED
    BY <2>3, <2>4, <2>5, <2>6
<1> QED
  BY <1>1, <1>2 DEF StreamInv

\* Nothing changes for the streams.
LEMMA IdleKeeps ==
    ASSUME StreamInv, UNCHANGED <<frames, sessions, pc, worker, got>>
    PROVE  StreamInv'
<1>1. /\ frames' = frames /\ started' = started /\ ended' = ended /\ dropped' = dropped
      /\ next' = next /\ replayEnd' = replayEnd /\ caught' = caught /\ over' = over
      /\ asked' = asked /\ got' = got /\ pc' = pc
  BY DEF sessions, worker
<1> QED
  BY <1>1 DEF StreamInv, JournalTyped, WorkersTyped, CursorFollows, ReplayHonest,
              EndIsMarked, StopsAtTheEnd

LEMMA WorkerKeeps ==
    ASSUME StreamInv, NEW w \in Streams, Worker(w)
    PROVE  StreamInv'
<1> USE DEF Goto, journal, sessions, worker, peers
<1>1. CASE OpenCursor(w)
  BY <1>1, OpenCursorKeeps
<1>2. CASE ReadEnd(w)
  BY <1>2, ReadEndKeeps
<1>3. CASE Loop(w)
  <2>1. CASE ~caught[w] /\ next[w] >= replayEnd[w]
    BY <1>3, <2>1, MoveKeeps DEF Loop, Labels
  <2>2. CASE ~(~caught[w] /\ next[w] >= replayEnd[w])
    BY <1>3, <2>2, MoveKeeps DEF Loop, Labels, AtTheCursor
  <2> QED
    BY <2>1, <2>2
<1>4. CASE Lock(w)
  BY <1>4, MoveKeeps DEF Lock, Labels, AtTheCursor
<1>5. CASE Look(w)
  <2>1. CASE cancelled[w]
    BY <1>5, <2>1, MoveKeeps DEF Look, Labels
  <2>2. CASE ~cancelled[w] /\ next[w] < Len(frames)
    BY <1>5, <2>2, TakeKeeps DEF Look
  <2>3. CASE ~cancelled[w] /\ ~(next[w] < Len(frames)) /\ stopped
    BY <1>5, <2>3, MoveKeeps DEF Look, Labels
  <2>4. CASE ~cancelled[w] /\ ~(next[w] < Len(frames)) /\ ~stopped
    BY <1>5, <2>4, MoveKeeps DEF Look, Labels, AtTheCursor
  <2> QED
    BY <2>1, <2>2, <2>3, <2>4
<1>6. CASE Wait(w)
  BY <1>6, MoveKeeps DEF Wait, Labels, AtTheCursor
<1>7. CASE SendFails(w)
  BY <1>7, MoveKeeps DEF SendFails, Labels
<1>8. CASE EndStream(w)
  BY <1>8, MoveKeeps DEF EndStream, Labels
<1>9. CASE Cancel(w)
  BY <1>9, NotifyKeeps DEF Cancel
<1> QED
  BY <1>1, <1>2, <1>3, <1>4, <1>5, <1>6, <1>7, <1>8, <1>9 DEF Worker

\* Every step keeps the invariant.
LEMMA StreamInvStep == StreamInv /\ [Next]_vars => StreamInv'
<1> SUFFICES ASSUME StreamInv, [Next]_vars PROVE StreamInv'
  OBVIOUS
<1>1. CASE Writer
  BY <1>1, WriterKeeps
<1>2. ASSUME NEW w \in Streams, Authorize(w)
      PROVE  StreamInv'
  BY <1>2, AuthorizeKeeps
<1>3. ASSUME NEW w \in Streams, Worker(w)
      PROVE  StreamInv'
  BY <1>3, WorkerKeeps
<1>4. ASSUME NEW w \in Streams, Send(w)
      PROVE  StreamInv'
  <2>1. CASE SendCaught(w)
    BY <2>1, SendCaughtKeeps
  <2>2. CASE SendFrame(w)
    BY <2>2, SendFrameKeeps
  <2>3. CASE SendClosed(w)
    BY <2>3, MoveKeeps DEF SendClosed, Goto, journal, sessions, worker, Labels
  <2> QED
    BY <1>4, <2>1, <2>2, <2>3 DEF Send
<1>5. ASSUME NEW w \in Streams, PeerLeaves(w)
      PROVE  StreamInv'
  BY <1>5, IdleKeeps DEF PeerLeaves, journal
<1>6. CASE StopAccepting
  BY <1>6, IdleKeeps DEF StopAccepting, journal
<1>7. CASE StopJournal
  BY <1>7, NotifyKeeps DEF StopJournal, sessions, worker
<1>8. CASE CutConnections
  BY <1>8, IdleKeeps DEF CutConnections, journal
<1>9. CASE Join
  BY <1>9, IdleKeeps DEF Join, journal
<1>10. CASE UNCHANGED vars
  BY <1>10, IdleKeeps DEF vars, sessions, worker
<1> QED
  BY <1>1, <1>2, <1>3, <1>4, <1>5, <1>6, <1>7, <1>8, <1>9, <1>10 DEF Next, Stopper

\* The invariant says what the runs check of streams.
LEMMA StreamInvTells == StreamInv => StreamIsTheHistory
<1> SUFFICES ASSUME StreamInv, NEW w \in Streams
             PROVE  /\ got[w] = [i \in 1..Len(got[w]) |-> i]
                    /\ ended[w] # 0 => \A i \in DOMAIN got[w] : got[w][i] <= ended[w]
                    /\ (caught[w] /\ pc[w] \in {"want", "holding", "checked", "waiting"})
                          => Len(got[w]) >= asked[w]
  BY DEF StreamIsTheHistory, ExactlyOnce, NothingAfterTheEnd, CaughtMeansCaughtUp
<1>1. /\ CursorFollows(w) /\ ReplayHonest(w) /\ StopsAtTheEnd(w)
      /\ Len(got[w]) \in Nat /\ ended[w] \in Nat /\ next[w] \in Nat
      /\ replayEnd[w] \in Nat /\ asked[w] \in Nat
  BY StreamFacts
<1>2. got[w] = [i \in 1..Len(got[w]) |-> i]
  BY <1>1 DEF CursorFollows
<1>3. ASSUME ended[w] # 0, NEW i \in DOMAIN got[w]
      PROVE  got[w][i] <= ended[w]
  <2>1. i \in 1..Len(got[w]) /\ got[w][i] = i
    BY <1>2, <1>3
  <2>2. Len(got[w]) <= ended[w]
    BY <1>1, <1>3 DEF StopsAtTheEnd
  <2> QED
    BY <1>1, <2>1, <2>2
<1>4. ASSUME caught[w], pc[w] \in {"want", "holding", "checked", "waiting"}
      PROVE  Len(got[w]) >= asked[w]
  <2>1. next[w] = Len(got[w])
    BY <1>1, <1>4 DEF CursorFollows, AtTheCursor
  <2>2. asked[w] <= replayEnd[w] /\ next[w] >= replayEnd[w]
    BY <1>1, <1>4 DEF ReplayHonest, Replaying
  <2> QED
    BY <1>1, <2>1, <2>2
<1> QED
  BY <1>2, <1>3, <1>4

\* For any sessions and any length of the journal: however streams are cut, reopened,
\* cancelled and stopped, a peer receives every frame once and in order, nothing after the
\* frame that ended its session, and "caught up" only with all that it had asked for.
THEOREM StreamsAreTheHistory == Spec => []StreamIsTheHistory
<1>1. Spec => []StreamInv
  BY StreamInvInit, StreamInvStep, PTL DEF Spec
<1> QED
  BY <1>1, StreamInvTells, PTL

-------------------------------------------------------------------------------
(* Connections: the inductive invariant *)

Places == {"none", "serving", "stream", "file", "over", "leaving", "done"}

ConnTyped ==
    /\ link \in [Connections -> [pc : Places, bound : Sessions \cup {NoSession},
                                 challenge : BOOLEAN, proven : Sessions \cup {NoSession}]]
    /\ session \in [Sessions -> {"unknown", "live", "ended"}]

\* The connection carries the session and is not yet past ending it.
Carries(c, s) == link[c].bound = s /\ link[c].pc \notin {"leaving", "done"}

\* A session is bound to one connection, by its enrolment; a connection that has not come
\* in has none.
BoundOnce ==
    /\ \A c \in Connections : link[c].pc = "none" => link[c].bound = NoSession
    /\ \A c \in Connections : link[c].bound # NoSession => session[link[c].bound] # "unknown"
    /\ \A c, d \in Connections :
          link[c].bound # NoSession /\ link[c].bound = link[d].bound => c = d

LiveIsCarried ==
    \A s \in Sessions : session[s] = "live" /\ ~failure => \E c \in Connections : Carries(c, s)

ConnInv == ConnTyped /\ BoundOnce /\ LiveIsCarried

LEMMA ConnBegins == ConnInit => ConnInv
  BY DEF ConnInit, NoLink, Places, Classes, ConnInv, ConnTyped, BoundOnce, LiveIsCarried, Carries

\* A step of a connection's thread that keeps what it carries, whether or not it goes on.
Moves(c) ==
    /\ c \in Connections
    /\ link' = [link EXCEPT ![c] = link'[c]]
    /\ link'[c] \in [pc : Places, bound : Sessions \cup {NoSession}, challenge : BOOLEAN,
                     proven : Sessions \cup {NoSession}]
    /\ link'[c].bound = link[c].bound
    /\ link'[c].pc # "none"

LEMMA MovesKeep ==
    ASSUME ConnInv, NEW c, Moves(c), UNCHANGED <<session, failure>>,
           link'[c].pc \notin {"leaving", "done"}
              \/ link[c].pc = "leaving" \/ link[c].bound = NoSession \/ failure
    PROVE  ConnInv'
  <1> USE ConnAssumption
  <1>1. ConnTyped'
    BY DEF ConnInv, ConnTyped, Moves
  <1>2. BoundOnce'
    BY DEF ConnInv, ConnTyped, Moves, BoundOnce
  <1>3. ASSUME NEW d \in Connections, NEW s \in Sessions, Carries(d, s), ~failure
        PROVE  Carries(d, s)'
    BY <1>3 DEF ConnInv, ConnTyped, Moves, Carries, NoSession
  <1>4. LiveIsCarried'
    BY <1>3 DEF ConnInv, LiveIsCarried
  <1> QED BY <1>1, <1>2, <1>4 DEF ConnInv

\* A thread gives its session up and ends it; if the server has failed it only leaves.
LEMMA LeavesKeep ==
    ASSUME ConnInv, NEW c \in Connections,
           link' = [link EXCEPT ![c] = link'[c]], link'[c].pc # "none",
           link'[c].bound \in {link[c].bound, NoSession},
           link'[c] \in [pc : Places, bound : Sessions \cup {NoSession}, challenge : BOOLEAN,
                         proven : Sessions \cup {NoSession}],
           UNCHANGED failure,
           session' = IF link[c].bound = NoSession \/ failure THEN session
                      ELSE [session EXCEPT ![link[c].bound] = "ended"]
    PROVE  ConnInv'
  <1> USE ConnAssumption
  <1>1. ConnTyped'
    BY DEF ConnInv, ConnTyped
  <1>2. BoundOnce'
    BY DEF ConnInv, ConnTyped, BoundOnce
  <1>3. ASSUME NEW d \in Connections, NEW s \in Sessions, Carries(d, s), ~failure,
               session'[s] = "live"
        PROVE  Carries(d, s)'
    BY <1>3 DEF ConnInv, ConnTyped, Carries, NoSession
  <1>4. ASSUME NEW s \in Sessions, session'[s] = "live", ~failure PROVE session[s] = "live"
    BY <1>4 DEF ConnInv, ConnTyped
  <1>5. LiveIsCarried'
    BY <1>3, <1>4 DEF ConnInv, LiveIsCarried
  <1> QED BY <1>1, <1>2, <1>5 DEF ConnInv

\* Nothing is owed once the server has failed, and a session that ends needs nobody.
LEMMA FailingKeeps ==
    ASSUME ConnInv, UNCHANGED link, failure => failure',
           session' \in [Sessions -> {"unknown", "live", "ended"}],
           \A s \in Sessions : session'[s] = session[s] \/ session'[s] = "ended"
    PROVE  ConnInv'
  BY DEF ConnInv, ConnTyped, BoundOnce, LiveIsCarried, Carries

LEMMA ConnSteps == ConnInv /\ [ConnNext]_connVars => ConnInv'
  <1> SUFFICES ASSUME ConnInv, [ConnNext]_connVars PROVE ConnInv'
    OBVIOUS
  <1> USE ConnAssumption
  <1>0. ConnTyped
    BY DEF ConnInv
  <1>1. CASE UNCHANGED connVars
    BY <1>0, <1>1, FailingKeeps DEF connVars, ConnTyped
  <1>2. ASSUME NEW c \in Connections, NEW k \in Classes, Accept(c, k) PROVE ConnInv'
    <2>1. link[c].bound = NoSession
      BY <1>2 DEF Accept, ConnInv, BoundOnce
    <2>2. Moves(c) /\ link'[c].pc = "serving"
      BY <1>0, <1>2, <2>1 DEF Accept, Moves, NoLink, ConnTyped, Places
    <2> QED BY <1>2, <2>2, MovesKeep DEF Accept
  <1>3. ASSUME NEW c \in Connections, WatchBegin(c) PROVE ConnInv'
    <2>1. Moves(c) /\ link'[c].pc = "serving"
      BY <1>0, <1>3 DEF WatchBegin, Request, Serving, Moves, ConnTyped, Places
    <2> QED BY <1>3, <2>1, MovesKeep DEF WatchBegin
  <1>4. ASSUME NEW c \in Connections, FileAsked(c) PROVE ConnInv'
    <2>1. Moves(c) /\ link'[c].pc = "file"
      BY <1>0, <1>4 DEF FileAsked, Moves, ConnTyped, Places
    <2> QED BY <1>4, <2>1, MovesKeep DEF FileAsked
  <1>5. ASSUME NEW c \in Connections, FileSent(c) PROVE ConnInv'
    <2>1. Moves(c) /\ link'[c].pc = "serving"
      BY <1>0, <1>5 DEF FileSent, Moves, ConnTyped, Places
    <2> QED BY <1>5, <2>1, MovesKeep DEF FileSent
  <1>6. ASSUME NEW c \in Connections, Over(c) PROVE ConnInv'
    <2>1. Moves(c) /\ link'[c].pc = "over"
      BY <1>0, <1>6 DEF Over, Moves, ConnTyped, Places
    <2> QED BY <1>6, <2>1, MovesKeep DEF Over
  <1>7. ASSUME NEW c \in Connections, Close(c) PROVE ConnInv'
    <2>1. Moves(c) /\ link[c].pc = "leaving"
      BY <1>0, <1>7 DEF Close, Moves, ConnTyped, Places
    <2> QED BY <1>7, <2>1, MovesKeep DEF Close
  <1>8. ASSUME NEW c \in Connections, NEW s \in Sessions, Watch(c, s) PROVE ConnInv'
    <2>1. Moves(c) /\ link'[c].pc \in {"stream", "over"}
      BY <1>0, <1>8 DEF Watch, Moves, ConnTyped, Places
    <2> QED BY <1>8, <2>1, MovesKeep DEF Watch
  <1>9. ASSUME NEW c \in Connections, NEW s \in Sessions, Prove(c, s) PROVE ConnInv'
    <2>1. Moves(c) /\ link'[c].pc = "serving"
      BY <1>0, <1>9 DEF Prove, Request, Serving, Moves, ConnTyped, Places
    <2> QED BY <1>9, <2>1, MovesKeep DEF Prove
  <1>10. ASSUME NEW c \in Connections, End(c) PROVE ConnInv'
    <2>1. /\ link' = [link EXCEPT ![c] = link'[c]]
          /\ link'[c].pc = "over" /\ link'[c].bound = NoSession
          /\ link'[c] \in [pc : Places, bound : Sessions \cup {NoSession}, challenge : BOOLEAN,
                           proven : Sessions \cup {NoSession}]
      BY <1>0, <1>10 DEF End, ConnTyped, Places
    <2> QED BY <1>10, <2>1, LeavesKeep DEF End, Places
  <1>11. ASSUME NEW c \in Connections, Leave(c) PROVE ConnInv'
    <2>1. /\ link' = [link EXCEPT ![c] = link'[c]]
          /\ link'[c].pc = "leaving" /\ link'[c].bound = link[c].bound
          /\ link'[c] \in [pc : Places, bound : Sessions \cup {NoSession}, challenge : BOOLEAN,
                           proven : Sessions \cup {NoSession}]
      BY <1>0, <1>11 DEF Leave, ConnTyped, Places
    <2> QED BY <1>11, <2>1, LeavesKeep DEF Leave, Places
  <1>12. ASSUME NEW c \in Connections, LeaveFatal(c) PROVE ConnInv'
    <2>1. failure' /\ session' = session /\ link' = [link EXCEPT ![c].pc = "leaving"]
      BY <1>12 DEF LeaveFatal
    <2>2. link[c].pc = "over"
      BY <1>12 DEF LeaveFatal
    <2>3. ConnTyped' /\ BoundOnce'
      BY <1>0, <2>1, <2>2 DEF ConnTyped, ConnInv, BoundOnce, Places
    <2> QED BY <2>1, <2>3 DEF ConnInv, LiveIsCarried
  <1>13. ASSUME NEW c \in Connections, NEW s \in Sessions, Enroll(c, s) PROVE ConnInv'
    <2>1. /\ link[c].bound = NoSession /\ session[s] = "unknown" /\ link[c].pc = "serving"
          /\ session' = [session EXCEPT ![s] = "live"] /\ link' = [link EXCEPT ![c].bound = s]
          /\ failure' = failure
      BY <1>13 DEF Enroll, Request, Serving
    <2>2. ConnTyped'
      BY <1>0, <2>1 DEF ConnTyped
    <2>3. \A d \in Connections : link[d].bound # s
      BY <2>1 DEF ConnInv, BoundOnce, NoSession
    <2>4. BoundOnce'
      BY <1>0, <2>1, <2>3 DEF ConnTyped, ConnInv, BoundOnce
    <2>5. Carries(c, s)'
      BY <1>0, <2>1 DEF ConnTyped, Carries
    <2>6. ASSUME NEW d \in Connections, NEW t \in Sessions, Carries(d, t) PROVE Carries(d, t)'
      BY <1>0, <2>1, <2>6 DEF ConnTyped, Carries, NoSession
    <2>7. LiveIsCarried'
      BY <1>0, <2>1, <2>5, <2>6 DEF ConnTyped, ConnInv, LiveIsCarried
    <2> QED BY <2>2, <2>4, <2>7 DEF ConnInv
  <1>14. ASSUME NEW c \in Connections, Fatal(c) PROVE ConnInv'
    BY <1>0, <1>14, FailingKeeps DEF Fatal, ConnTyped
  <1>15. ASSUME NEW c \in Connections, PeerGone(c) PROVE ConnInv'
    BY <1>0, <1>15, FailingKeeps DEF PeerGone, ConnTyped
  <1>16. ASSUME NEW k \in Classes, LoopEnds(k) PROVE ConnInv'
    BY <1>0, <1>16, FailingKeeps DEF LoopEnds, ConnTyped
  <1>17. CASE Stop \/ EndConnections \/ Joined
    BY <1>0, <1>17, FailingKeeps DEF Stop, EndConnections, Joined, ConnTyped
  <1>18. ASSUME NEW s \in Sessions, SessionEnds(s) PROVE ConnInv'
    BY <1>0, <1>18, FailingKeeps DEF SessionEnds, ConnTyped
  <1> QED
    BY <1>1, <1>2, <1>3, <1>4, <1>5, <1>6, <1>7, <1>8, <1>9, <1>10, <1>11, <1>12, <1>13,
       <1>14, <1>15, <1>16, <1>17, <1>18 DEF ConnNext

\* For any connections and sessions, and however connections end (a stream that closes, a
\* spent challenge, a peer that goes, a cut by `stop`): while the server has not failed, a
\* live session has exactly one connection that will end it (`serve_connection`).
THEOREM SessionsAreCarried == ConnSpec => []NoOrphanSession
  <1>1. ConnInv => NoOrphanSession
    <2> SUFFICES ASSUME ConnInv, NEW s \in Sessions, session[s] = "live", ~failure
                 PROVE  Cardinality({c \in Connections : Carries(c, s)}) = 1
      BY DEF NoOrphanSession, Carries
    <2>1. PICK c \in Connections : Carries(c, s)
      BY DEF ConnInv, LiveIsCarried
    <2>2. \A d \in Connections : Carries(d, s) => d = c
      BY <2>1, ConnAssumption DEF ConnInv, BoundOnce, Carries, NoSession
    <2>3. {d \in Connections : Carries(d, s)} = {c}
      BY <2>1, <2>2
    <2> QED BY <2>3, FS_Singleton
  <1> QED BY <1>1, ConnBegins, ConnSteps, PTL DEF ConnSpec

-------------------------------------------------------------------------------
(* The bridge: the inductive invariant *)

TaskAt == {"none", "connecting", "accepting", "pipe", "drain", "over", "left"}

BridgeTyped ==
    /\ limits \in [total : Nat, per_peer : Nat] /\ host \in [Hops -> Hosts]
    /\ home \in [Hops -> [at : TaskAt, up : BOOLEAN, down : BOOLEAN]]
    /\ backend \in [Hops -> {"none", "serving", "closed"}]

\* A thread of the server stands behind a place at home, unless it was hung up on.
PlaceIsHeld ==
    \A s \in Hops :
        backend[s] = "serving" => home[s].at \in {"accepting", "pipe", "drain", "left"}

\* The gate's count is of the places held.
GateHolds == InLimits(Held(home, Hops))

BridgeInv == BridgeTyped /\ PlaceIsHeld /\ GateHolds

LEMMA HopsFinite ==
    ASSUME NEW S, S \subseteq Hops
    PROVE  IsFiniteSet(S) /\ Cardinality(S) \in Nat
  BY BridgeAssumption, FS_Subset, FS_CardinalityType

LEMMA FewerHops ==
    ASSUME NEW S, NEW T, S \subseteq T, T \subseteq Hops
    PROVE  Cardinality(S) <= Cardinality(T)
  BY HopsFinite, FS_Subset

LEMMA OneMoreHop ==
    ASSUME NEW S, NEW T, S \subseteq Hops, NEW s \in Hops, T \subseteq S \cup {s}
    PROVE  Cardinality(T) <= Cardinality(S) + 1
  <1>1. Cardinality(T) <= Cardinality(S \cup {s})
    BY FewerHops
  <1>2. Cardinality(S \cup {s}) <= Cardinality(S) + 1
    <2>1. CASE s \in S
      <3>1. S \cup {s} = S
        BY <2>1
      <3> QED BY <3>1, HopsFinite
    <2>2. CASE s \notin S
      BY <2>2, HopsFinite, FS_AddElement
    <2> QED BY <2>1, <2>2
  <1>3. Cardinality(T) \in Nat /\ Cardinality(S \cup {s}) \in Nat /\ Cardinality(S) \in Nat
    BY HopsFinite
  <1> QED BY <1>1, <1>2, <1>3

\* What is within the limits stays so with fewer streams.
LEMMA FewerInLimits ==
    ASSUME BridgeTyped, NEW S, NEW T, S \subseteq T, T \subseteq Hops, InLimits(T)
    PROVE  InLimits(S)
  <1>1. Cardinality(S) <= limits.total
    BY FewerHops, HopsFinite DEF InLimits, BridgeTyped
  <1>2. ASSUME NEW h \in Hosts PROVE Cardinality(S \cap Of(h)) <= limits.per_peer
    <2>1. S \cap Of(h) \subseteq T \cap Of(h) /\ S \cap Of(h) \subseteq Hops /\ T \cap Of(h) \subseteq Hops
      OBVIOUS
    <2>2. /\ Cardinality(S \cap Of(h)) <= Cardinality(T \cap Of(h))
          /\ Cardinality(S \cap Of(h)) \in Nat /\ Cardinality(T \cap Of(h)) \in Nat
      BY <2>1, FewerHops, HopsFinite
    <2>3. Cardinality(T \cap Of(h)) <= limits.per_peer /\ limits.per_peer \in Nat
      BY DEF InLimits, BridgeTyped
    <2> HIDE DEF Of
    <2> QED BY <2>2, <2>3
  <1> QED BY <1>1, <1>2 DEF InLimits

LEMMA HeldHops == Held(home, Hops) \subseteq Hops /\ Held(home', Hops) \subseteq Hops
  BY DEF Held

LEMMA BridgeBegins == BridgeInit => BridgeInv
  <1> SUFFICES ASSUME BridgeInit PROVE BridgeInv
    OBVIOUS
  <1>1. BridgeTyped /\ PlaceIsHeld
    BY BridgeAssumption DEF BridgeInit, NoTask, BridgeTyped, PlaceIsHeld, TaskAt
  <1>2. Held(home, Hops) = {}
    BY DEF BridgeInit, NoTask, Held
  <1>3. \A h \in Hosts : {} \cap Of(h) = {}
    OBVIOUS
  <1>4. Cardinality({}) = 0
    BY FS_EmptySet
  <1>5. GateHolds
    BY <1>1, <1>2, <1>3, <1>4 DEF GateHolds, InLimits, BridgeTyped
  <1> QED BY <1>1, <1>5 DEF BridgeInv

\* A step that takes no place.
LEMMA PlacesKeep ==
    ASSUME BridgeInv, UNCHANGED setup, BridgeTyped', PlaceIsHeld',
           \A s \in Hops : s \in Held(home', Hops) => s \in Held(home, Hops)
    PROVE  BridgeInv'
  <1>1. Held(home', Hops) \subseteq Held(home, Hops)
    BY HeldHops
  <1>2. InLimits(Held(home', Hops))
    BY <1>1, HeldHops, FewerInLimits DEF BridgeInv, GateHolds
  <1>3. GateHolds'
    BY <1>2 DEF GateHolds, InLimits, Of, setup
  <1> QED BY <1>3 DEF BridgeInv

\* The home takes a place after looking at the gate.
LEMMA TakesKeeps ==
    ASSUME BridgeInv, NEW s \in Hops, HomeTakes(s), HomeAdmits(s)
    PROVE  BridgeInv'
  <1>1. /\ home' = [home EXCEPT ![s] = [home[s] EXCEPT !.at = "connecting"]]
        /\ home[s].at = "none" /\ backend' = backend /\ limits' = limits /\ host' = host
    BY DEF HomeTakes, setup, BridgeInv, BridgeTyped
  <1>2. BridgeTyped' /\ PlaceIsHeld'
    BY <1>1 DEF BridgeInv, BridgeTyped, PlaceIsHeld, TaskAt
  <1>3. Held(home', Hops) \subseteq Held(home, Hops) \cup {s}
    BY <1>1 DEF Held, BridgeInv, BridgeTyped
  <1>4. Cardinality(Held(home', Hops)) <= limits.total
    <2>1. Cardinality(Held(home', Hops)) <= Cardinality(Held(home, Hops)) + 1
      BY <1>3, HeldHops, OneMoreHop
    <2>2. Cardinality(Held(home', Hops)) \in Nat /\ Cardinality(Held(home, Hops)) \in Nat
      BY HeldHops, HopsFinite
    <2> QED BY <2>1, <2>2 DEF HomeAdmits, BridgeInv, BridgeTyped
  <1>5. ASSUME NEW h \in Hosts PROVE Cardinality(Held(home', Hops) \cap Of(h)) <= limits.per_peer
    <2>1. CASE h = host[s]
      <3>1. Held(home', Hops) \cap Of(h) \subseteq (Held(home, Hops) \cap Of(h)) \cup {s}
        BY <1>3
      <3>2. Held(home, Hops) \cap Of(h) = Held(home, Of(h))
        BY DEF Held, Of
      <3>3. /\ Cardinality(Held(home', Hops) \cap Of(h)) <= Cardinality(Held(home, Hops) \cap Of(h)) + 1
            /\ Cardinality(Held(home', Hops) \cap Of(h)) \in Nat
            /\ Cardinality(Held(home, Hops) \cap Of(h)) \in Nat
        BY <3>1, HeldHops, OneMoreHop, HopsFinite
      <3>4. Cardinality(Held(home, Of(h))) < limits.per_peer /\ limits.per_peer \in Nat
        BY <2>1 DEF HomeAdmits, BridgeInv, BridgeTyped
      <3>5. Cardinality(Held(home, Hops) \cap Of(h)) < limits.per_peer
        BY <3>2, <3>4, Zenon
      <3> QED BY <3>3, <3>4, <3>5
    <2>2. CASE h # host[s]
      <3>1. Held(home', Hops) \cap Of(h) \subseteq Held(home, Hops) \cap Of(h)
        <4>1. s \notin Of(h)
          BY <2>2 DEF Of
        <4> QED BY <1>3, <4>1
      <3>2. /\ Cardinality(Held(home', Hops) \cap Of(h)) <= Cardinality(Held(home, Hops) \cap Of(h))
            /\ Cardinality(Held(home', Hops) \cap Of(h)) \in Nat
            /\ Cardinality(Held(home, Hops) \cap Of(h)) \in Nat
        BY <3>1, HeldHops, FewerHops, HopsFinite
      <3> QED BY <3>2 DEF BridgeInv, BridgeTyped, GateHolds, InLimits
    <2> QED BY <2>1, <2>2
  <1>6. GateHolds'
    BY <1>1, <1>4, <1>5 DEF GateHolds, InLimits, Of
  <1> QED BY <1>2, <1>6 DEF BridgeInv

LEMMA BridgeSteps == BridgeInv /\ [BridgeNext]_bridgeVars => BridgeInv'
  <1> SUFFICES ASSUME BridgeInv, [BridgeNext]_bridgeVars PROVE BridgeInv'
    OBVIOUS
  <1>0. BridgeTyped /\ PlaceIsHeld
    BY DEF BridgeInv
  <1>1. ASSUME UNCHANGED <<setup, home, backend>> PROVE BridgeInv'
    <2>1. BridgeTyped' /\ PlaceIsHeld'
      BY <1>0, <1>1 DEF setup, BridgeTyped, PlaceIsHeld
    <2> QED BY <1>1, <2>1, PlacesKeep DEF setup
  \* The home's task goes on, or frees its place.
  <1>2. ASSUME UNCHANGED <<setup, backend>>, NEW s \in Hops, NEW t,
               home' = [home EXCEPT ![s] = t],
               t \in [at : TaskAt \ {"none", "connecting"}, up : BOOLEAN, down : BOOLEAN],
               s \in Held(home, Hops) \/ t.at \in {"over", "left"},
               t.at = "over" => backend[s] # "serving"
        PROVE  BridgeInv'
    <2>1. BridgeTyped'
      BY <1>0, <1>2 DEF BridgeTyped, TaskAt, setup
    <2>2. PlaceIsHeld'
      BY <1>0, <1>2 DEF BridgeTyped, PlaceIsHeld, TaskAt
    <2>3. \A r \in Hops : r \in Held(home', Hops) => r \in Held(home, Hops)
      BY <1>0, <1>2 DEF BridgeTyped, Held, TaskAt
    <2> QED BY <1>2, <2>1, <2>2, <2>3, PlacesKeep
  <1>3. CASE UNCHANGED bridgeVars
    BY <1>1, <1>3 DEF bridgeVars
  <1>4. ASSUME NEW s \in Hops, HomeTakes(s) PROVE BridgeInv'
    <2>1. CASE HomeAdmits(s)
      BY <1>4, <2>1, TakesKeeps
    <2>2. CASE ~HomeAdmits(s)
      <3>1. home' = [home EXCEPT ![s] = [home[s] EXCEPT !.at = "over"]]
        BY <1>0, <1>4, <2>2 DEF HomeTakes, BridgeTyped
      <3>2. backend[s] # "serving"
        BY <1>0, <1>4 DEF HomeTakes, PlaceIsHeld
      <3> QED BY <1>0, <1>2, <1>4, <3>1, <3>2 DEF HomeTakes, BridgeTyped, TaskAt
    <2> QED BY <2>1, <2>2
  <1>5. ASSUME NEW s \in Hops, \/ Dial(s) \/ OpenFails(s) \/ ProxyUp(s) \/ ProxyDown(s)
                               \/ ProxyFails(s) \/ ProxyDone(s) \/ ProxyEnds(s)
                               \/ ClientLeaves(s) \/ Break(s)
        PROVE  BridgeInv'
    BY <1>1, <1>5 DEF Dial, OpenFails, ProxyUp, ProxyDown, ProxyFails, ProxyDone, ProxyEnds,
                      ClientLeaves, Break
  <1>6. ASSUME NEW h \in Hosts, ProxyDies(h) PROVE BridgeInv'
    BY <1>1, <1>6 DEF ProxyDies
  <1>7. ASSUME NEW s \in Hops, HomeUp(s) PROVE BridgeInv'
    <2>1. home' = [home EXCEPT ![s] = [home[s] EXCEPT !.up = TRUE]]
      BY <1>0, <1>7 DEF HomeUp, BridgeTyped
    <2> QED BY <1>0, <1>2, <1>7, <2>1 DEF HomeUp, BridgeTyped, Held, TaskAt
  <1>8. ASSUME NEW s \in Hops, HomeDown(s) PROVE BridgeInv'
    <2>1. home' = [home EXCEPT ![s] = [home[s] EXCEPT !.down = TRUE]]
      BY <1>0, <1>8 DEF HomeDown, BridgeTyped
    <2> QED BY <1>0, <1>2, <1>8, <2>1 DEF HomeDown, BridgeTyped, Held, TaskAt
  <1>9. ASSUME NEW s \in Hops, HomeFails(s) \/ HomeDone(s) PROVE BridgeInv'
    <2>1. /\ home' = [home EXCEPT ![s] = [home[s] EXCEPT !.at = "drain"]]
          /\ home[s].at = "pipe" /\ UNCHANGED <<setup, backend>>
      BY <1>0, <1>9 DEF HomeFails, HomeDone, Done, BridgeTyped
    <2> QED BY <1>0, <1>2, <1>9, <2>1 DEF BridgeTyped, Held, TaskAt
  <1>10. ASSUME NEW s \in Hops, HomeEnds(s) \/ HomeNoServer(s) PROVE BridgeInv'
    <2>1. /\ home' = [home EXCEPT ![s] = [home[s] EXCEPT !.at = "over"]]
          /\ backend[s] # "serving" /\ UNCHANGED <<setup, backend>>
      BY <1>0, <1>10 DEF HomeEnds, HomeNoServer, BridgeTyped, PlaceIsHeld
    <2> QED BY <1>0, <1>2, <2>1 DEF BridgeTyped, TaskAt
  <1>11. ASSUME NEW s \in Hops, WorkerCloses(s) PROVE BridgeInv'
    <2>1. BridgeTyped' /\ PlaceIsHeld'
      BY <1>0, <1>11 DEF WorkerCloses, BridgeTyped, PlaceIsHeld, setup
    <2> QED BY <1>0, <1>11, <2>1, PlacesKeep DEF WorkerCloses
  <1>12. ASSUME NEW s \in Hops, HomeConnects(s) PROVE BridgeInv'
    <2>1. /\ home' = [home EXCEPT ![s] = [home[s] EXCEPT !.at = "accepting"]]
          /\ home[s].at = "connecting" /\ backend' = [backend EXCEPT ![s] = "serving"]
          /\ UNCHANGED setup
      BY <1>0, <1>12 DEF HomeConnects, BridgeTyped
    <2>2. BridgeTyped' /\ PlaceIsHeld'
      BY <1>0, <2>1 DEF BridgeTyped, PlaceIsHeld, TaskAt, setup
    <2>3. \A r \in Hops : r \in Held(home', Hops) => r \in Held(home, Hops)
      BY <1>0, <2>1 DEF BridgeTyped, Held
    <2> QED BY <2>1, <2>2, <2>3, PlacesKeep
  <1>13. ASSUME NEW s \in Hops, HomeAccepts(s) PROVE BridgeInv'
    <2>1. Piping \in [at : {"pipe"}, up : BOOLEAN, down : BOOLEAN]
      BY DEF Piping
    <2>2. s \in Held(home, Hops)
      BY <1>13 DEF HomeAccepts, Held
    <2> QED BY <1>2, <1>13, <2>1, <2>2 DEF HomeAccepts, TaskAt
  <1>14. ASSUME NEW s \in Hops, NEW heard \in BOOLEAN, HomeAcceptFails(s, heard) PROVE BridgeInv'
    <2>1. home' = [home EXCEPT ![s] = [home[s] EXCEPT !.at = "left"]]
      BY <1>0, <1>14 DEF HomeAcceptFails, BridgeTyped
    <2> QED BY <1>0, <1>2, <1>14, <2>1 DEF HomeAcceptFails, BridgeTyped, TaskAt
  <1> QED
    BY <1>3, <1>4, <1>5, <1>6, <1>7, <1>8, <1>9, <1>10, <1>11, <1>12, <1>13, <1>14 DEF BridgeNext

\* For any hosts and streams and any limits: whatever way a stream ends (a goodbye, a failure,
\* an answer that comes too late, a proxy that dies), no more of the server's threads serve
\* remote hosts than Gate admits, in all and for one host, because the home's place is given
\* back only once the thread is gone (`end_backend`); the one way out where it is not, an
\* accept that fails after the thread was connected, is the exception that the property makes.
THEOREM GateBoundsBackends == BridgeSpec => []BackendWithinGate
  <1>1. BridgeInv => BackendWithinGate
    <2> SUFFICES ASSUME BridgeInv PROVE BackendWithinGate
      OBVIOUS
    <2>1. {s \in Hops : backend[s] = "serving" /\ home[s].at # "left"} \subseteq Held(home, Hops)
      BY DEF BridgeInv, PlaceIsHeld, Held
    <2> QED BY <2>1, HeldHops, FewerInLimits DEF BridgeInv, GateHolds, BackendWithinGate
  <1> QED BY <1>1, BridgeBegins, BridgeSteps, PTL DEF BridgeSpec

-------------------------------------------------------------------------------
(* The directory of a flock: the inductive invariant *)

Stages == {"idle", "key", "keywrite", "genesis", "log", "refusals", "sync", "bind", "serving"}

SetupTyped ==
    /\ stage \in [Processes -> Stages]
    /\ DOMAIN names = Files /\ DOMAIN disk = Files
    /\ ok \subseteq Processes

\* The init that made the key is the one whose files appear, each in its turn.
FilesInTurn(p) ==
    /\ stage[p] = "keywrite" => names["key"] = Torn(p)
    /\ stage[p] \in {"genesis", "log", "refusals", "sync"} => names["key"] = Whole(p)
    /\ stage[p] \in {"keywrite", "genesis"} =>
          names["genesis"] = Missing /\ names["log"] = Missing
    /\ stage[p] \in {"log", "refusals", "sync"} => names["genesis"] = Whole(p)
    /\ stage[p] \in {"refusals", "sync"} => names["log"] # Missing
    /\ stage[p] = "sync" => names["refusals"] # Missing

\* An init that has looked and finds no key yet finds nothing else either.
LookStillGood(p) ==
    stage[p] = "key" /\ names["key"] = Missing =>
        names["genesis"] = Missing /\ names["log"] = Missing

\* What an init that returned leaves, in the directory and on the disk.
Complete(n, p) ==
    /\ n["key"] = Whole(p) /\ n["genesis"] = Whole(p)
    /\ n["log"] # Missing /\ n["refusals"] # Missing

\* Who is past Server::open holds the lock, and who serves has the socket.
LockIsHeld(p) ==
    /\ stage[p] \in {"bind", "serving"} => lock = p
    /\ stage[p] = "serving" => socket = p

SetupInv ==
    /\ SetupTyped
    /\ \A p \in Processes : FilesInTurn(p) /\ LookStillGood(p) /\ LockIsHeld(p)
    /\ \A p \in ok : Complete(names, p) /\ Complete(disk, p)

LEMMA EntriesDiffer ==
    /\ \A p \in Processes : Torn(p) # Missing
    /\ \A p : Whole(p) # Missing
    /\ \A p, q : Whole(p) # Torn(q)
    /\ \A p, q : Whole(p) = Whole(q) => p = q
    /\ \A p, q : Torn(p) = Torn(q) => p = q
  BY SetupAssumption DEF Torn, Whole, Missing

LEMMA InitSetup == SetupInit => SetupInv
  BY DEF SetupInit, SetupInv, SetupTyped, Stages, FilesInTurn, LookStillGood, LockIsHeld

\* The steps of init that write: at most one command is past the making of the key.
LEMMA InitCheckKeeps ==
    ASSUME SetupInv, NEW p \in Processes, InitCheck(p)
    PROVE  SetupInv'
  BY DEF SetupInv, SetupTyped, Stages, InitCheck, Go, FilesInTurn, LookStillGood, LockIsHeld,
         Complete

LEMMA StoreKeyKeeps ==
    ASSUME SetupInv, NEW p \in Processes, StoreKey(p)
    PROVE  SetupInv'
<1> USE DEF SetupInv
<1>1. CASE names["key"] = Missing
  <2>1. /\ stage[p] = "key" /\ stage' = [stage EXCEPT ![p] = "keywrite"]
        /\ names' = [names EXCEPT !["key"] = Torn(p)]
        /\ UNCHANGED <<disk, ok, lock, socket>>
    BY <1>1 DEF StoreKey, Go
  <2>2. /\ names'["key"] = Torn(p)
        /\ \A f \in {"genesis", "log", "refusals"} : names'[f] = names[f]
    BY <2>1 DEF SetupTyped, Files
  <2>3. ok = {}
    BY <1>1, EntriesDiffer DEF Complete
  <2>4. \A q \in Processes : stage[q] \notin {"keywrite", "genesis", "log", "refusals", "sync"}
    BY <1>1, EntriesDiffer DEF FilesInTurn
  <2>5. names["genesis"] = Missing /\ names["log"] = Missing
    BY <1>1, <2>1 DEF LookStillGood
  <2>6. SetupTyped'
    BY <2>1 DEF SetupTyped, Stages, Files
  <2>7. ASSUME NEW q \in Processes
        PROVE  (FilesInTurn(q) /\ LookStillGood(q) /\ LockIsHeld(q))'
    <3>1. stage'[q] = IF q = p THEN "keywrite" ELSE stage[q]
      BY <2>1 DEF SetupTyped
    <3> QED
      BY <2>1, <2>2, <2>4, <2>5, <3>1 DEF FilesInTurn, LookStillGood, LockIsHeld
  <2> QED
    BY <2>1, <2>3, <2>6, <2>7
<1>2. CASE names["key"] # Missing
  <2>1. /\ stage' = [stage EXCEPT ![p] = "idle"] /\ UNCHANGED <<names, disk, ok, lock, socket>>
        /\ stage[p] = "key"
    BY <1>2 DEF StoreKey, Go
  <2> QED
    BY <2>1 DEF SetupTyped, Stages, FilesInTurn, LookStillGood, LockIsHeld, Complete
<1> QED
  BY <1>1, <1>2

LEMMA WriteKeyKeeps ==
    ASSUME SetupInv, NEW p \in Processes, WriteKey(p) \/ RenameGenesis(p)
    PROVE  SetupInv'
<1> USE DEF SetupInv
<1>1. PICK f \in {"key", "genesis"}, to \in {"genesis", "log"} :
        /\ stage[p] = (IF f = "key" THEN "keywrite" ELSE "genesis")
        /\ to = (IF f = "key" THEN "genesis" ELSE "log")
        /\ stage' = [stage EXCEPT ![p] = to]
        /\ names' = [names EXCEPT ![f] = Whole(p)]
        /\ UNCHANGED <<disk, ok, lock, socket>>
  BY DEF WriteKey, RenameGenesis, Go
<1>2. names'[f] = Whole(p) /\ \A g \in Files : g # f => names'[g] = names[g]
  BY <1>1 DEF SetupTyped, Files
<1>3. names["genesis"] = Missing /\ names["log"] = Missing
  BY <1>1 DEF FilesInTurn
<1>4. ok = {}
  BY <1>3, EntriesDiffer DEF Complete
<1>5. names["key"] = (IF f = "key" THEN Torn(p) ELSE Whole(p))
  BY <1>1 DEF FilesInTurn
<1>6. \A q \in Processes :
         stage[q] \in {"keywrite", "genesis", "log", "refusals", "sync"} => q = p
  BY <1>5, EntriesDiffer DEF FilesInTurn
<1>7. SetupTyped'
  BY <1>1 DEF SetupTyped, Stages, Files
<1>8. ASSUME NEW q \in Processes
      PROVE  (FilesInTurn(q) /\ LookStillGood(q) /\ LockIsHeld(q))'
  <2>1. stage'[q] = IF q = p THEN to ELSE stage[q]
    BY <1>1 DEF SetupTyped
  <2>2. CASE q = p
    BY <1>1, <1>2, <1>3, <1>5, <2>1, <2>2 DEF Files, FilesInTurn, LookStillGood, LockIsHeld
  <2>3. CASE q # p
    <3>1. names'["key"] # Missing
      BY <1>1, <1>2, <1>5, EntriesDiffer DEF Files
    <3> QED
      BY <1>1, <1>6, <2>1, <2>3, <3>1 DEF FilesInTurn, LookStillGood, LockIsHeld
  <2> QED
    BY <2>2, <2>3
<1> QED
  BY <1>1, <1>4, <1>7, <1>8

LEMMA CreateLogKeeps ==
    ASSUME SetupInv, NEW p \in Processes,
           CreateLog(p, "log", "refusals") \/ CreateLog(p, "refusals", "sync")
    PROVE  SetupInv'
<1> USE DEF SetupInv
<1>1. PICK f \in {"log", "refusals"}, to \in {"refusals", "sync"} :
        CreateLog(p, f, to) /\ to = (IF f = "log" THEN "refusals" ELSE "sync")
  OBVIOUS
<1>2. stage[p] = f /\ UNCHANGED <<disk, ok, lock, socket>>
  BY <1>1 DEF CreateLog
<1>3. CASE names[f] = Missing
  <2>1. stage' = [stage EXCEPT ![p] = to] /\ names' = [names EXCEPT ![f] = Whole(p)]
    BY <1>1, <1>3 DEF CreateLog, Go
  <2>2. /\ names'[f] = Whole(p) /\ names'[f] # Missing
        /\ \A g \in Files : g # f => names'[g] = names[g]
    BY <2>1, EntriesDiffer DEF SetupTyped, Files
  <2>3. names["key"] = Whole(p) /\ names["genesis"] = Whole(p)
        /\ (f = "refusals" => names["log"] # Missing)
    BY <1>2 DEF FilesInTurn
  <2>4. \A q \in Processes :
           stage[q] \in {"keywrite", "genesis", "log", "refusals", "sync"} => q = p
    BY <2>3, EntriesDiffer DEF FilesInTurn
  <2>5. SetupTyped'
    BY <2>1, <1>2 DEF SetupTyped, Stages, Files
  <2>6. ASSUME NEW q \in Processes
        PROVE  (FilesInTurn(q) /\ LookStillGood(q) /\ LockIsHeld(q))'
    <3>1. stage'[q] = IF q = p THEN to ELSE stage[q]
      BY <2>1 DEF SetupTyped
    <3>2. CASE q = p
      BY <1>1, <2>2, <2>3, <3>1, <3>2 DEF Files, FilesInTurn, LookStillGood, LockIsHeld
    <3>3. CASE q # p
      <4>1. names'["key"] # Missing
        BY <2>2, <2>3, EntriesDiffer DEF Files
      <4> QED
        BY <1>2, <2>4, <3>1, <3>3, <4>1 DEF FilesInTurn, LookStillGood, LockIsHeld
    <3> QED
      BY <3>2, <3>3
  <2>7. \A q \in ok : Complete(names', q)
    BY <1>2, <2>2 DEF Complete, Files
  <2> QED
    BY <1>2, <2>5, <2>6, <2>7 DEF Complete
<1>4. CASE names[f] # Missing
  <2>1. stage' = [stage EXCEPT ![p] = "idle"] /\ UNCHANGED names
    BY <1>1, <1>4 DEF CreateLog, Go
  <2> QED
    BY <1>2, <2>1 DEF SetupTyped, Stages, FilesInTurn, LookStillGood, LockIsHeld, Complete
<1> QED
  BY <1>3, <1>4

LEMMA SyncDirKeeps ==
    ASSUME SetupInv, NEW p \in Processes, SyncDir(p)
    PROVE  SetupInv'
<1> USE DEF SetupInv
<1>1. /\ stage[p] = "sync" /\ stage' = [stage EXCEPT ![p] = "idle"]
      /\ disk' = names /\ ok' = ok \cup {p} /\ UNCHANGED <<names, lock, socket>>
  BY DEF SyncDir, Go
<1>2. Complete(names, p)
  BY <1>1 DEF FilesInTurn, Complete
<1>3. \A q \in ok' : Complete(names, q)
  BY <1>1, <1>2
<1>4. SetupTyped'
  BY <1>1 DEF SetupTyped, Stages
<1>5. \A q \in Processes : (FilesInTurn(q) /\ LookStillGood(q) /\ LockIsHeld(q))'
  BY <1>1 DEF SetupTyped, FilesInTurn, LookStillGood, LockIsHeld
<1> QED
  BY <1>1, <1>3, <1>4, <1>5 DEF Complete

\* The steps of serve, and the end of a command.
LEMMA ServeKeeps ==
    ASSUME SetupInv, NEW p \in Processes, OpenServer(p) \/ Bind(p) \/ CommandEnds(p)
    PROVE  SetupInv'
<1> USE DEF SetupInv
<1>1. UNCHANGED <<names, disk, ok>>
  BY DEF OpenServer, Bind, CommandEnds
<1>2. PICK to \in {"bind", "serving", "idle"} : stage' = [stage EXCEPT ![p] = to]
  BY DEF OpenServer, Bind, CommandEnds, Go
<1>3. \A q \in Processes : stage'[q] = IF q = p THEN to ELSE stage[q]
  BY <1>2 DEF SetupTyped
<1>4. SetupTyped'
  BY <1>1, <1>2 DEF SetupTyped, Stages
<1>5. \A q \in Processes : FilesInTurn(q)' /\ LookStillGood(q)'
  BY <1>1, <1>3 DEF FilesInTurn, LookStillGood
<1>6. ASSUME NEW q \in Processes PROVE LockIsHeld(q)'
  <2>1. CASE OpenServer(p)
    BY <1>3, <1>6, <2>1, SetupAssumption DEF OpenServer, Go, LockIsHeld, SetupTyped
  <2>2. CASE Bind(p)
    BY <1>3, <1>6, <2>2 DEF Bind, Go, LockIsHeld, SetupTyped
  <2>3. CASE CommandEnds(p)
    BY <1>6, <2>3 DEF CommandEnds, Go, LockIsHeld, SetupTyped
  <2> QED
    BY <2>1, <2>2, <2>3
<1> QED
  BY <1>1, <1>4, <1>5, <1>6 DEF Complete

LEMMA PowerKeeps ==
    ASSUME SetupInv, PowerGoes \/ CleanUp
    PROVE  SetupInv'
<1> USE DEF SetupInv
<1>1. CASE PowerGoes
  <2>1. PICK kept \in SUBSET Files :
          names' = [f \in Files |-> IF f \in kept THEN names[f] ELSE disk[f]]
    BY <1>1 DEF PowerGoes
  <2>2. disk' = names' /\ stage' = [q \in Processes |-> "idle"] /\ ok' = ok
    BY <1>1 DEF PowerGoes
  <2>3. \A q \in ok : Complete(names', q)
    BY <2>1 DEF Complete, Files
  <2>4. SetupTyped'
    BY <2>1, <2>2 DEF SetupTyped, Stages
  <2>5. \A q \in Processes : (FilesInTurn(q) /\ LookStillGood(q) /\ LockIsHeld(q))'
    BY <2>2 DEF FilesInTurn, LookStillGood, LockIsHeld
  <2> QED
    BY <2>2, <2>3, <2>4, <2>5 DEF Complete
<1>2. CASE CleanUp
  BY <1>2 DEF CleanUp, SetupTyped, Stages, FilesInTurn, LookStillGood, LockIsHeld
<1> QED
  BY <1>1, <1>2

LEMMA NextSetup ==
    ASSUME SetupInv, [SetupNext]_setupVars
    PROVE  SetupInv'
<1>1. CASE UNCHANGED setupVars
  BY <1>1 DEF setupVars, SetupInv, SetupTyped, FilesInTurn, LookStillGood, LockIsHeld, Complete
<1>2. CASE SetupNext
  BY <1>2, InitCheckKeeps, StoreKeyKeeps, WriteKeyKeeps, CreateLogKeeps, SyncDirKeeps,
     ServeKeeps, PowerKeeps DEF SetupNext
<1> QED
  BY <1>1, <1>2

\* An init that returned left a directory that `serve` opens, under its own key and genesis
\* (init.rs: store_server_key, the rename and the directory's sync), and the socket leads to
\* the server that holds the log (cli serve binds after Server::open): for any number of
\* commands started at once, killed anywhere, and any number of power losses.
THEOREM InitLeavesAFlock == SetupSpec => []OkMeansOpens
<1>1. SetupInit => SetupInv
  BY InitSetup
<1>2. SetupInv /\ [SetupNext]_setupVars => SetupInv'
  BY NextSetup
<1>3. SetupInv => OkMeansOpens
  <2> SUFFICES ASSUME SetupInv PROVE OkMeansOpens
    OBVIOUS
  <2>1. SocketIsTheServers
    BY DEF SetupInv, LockIsHeld, SocketIsTheServers
  <2>2. ASSUME NEW p \in ok PROVE Opens /\ names["genesis"].by = p
    <3>1. Complete(names, p)
      BY <2>2 DEF SetupInv
    <3> QED
      BY <3>1 DEF Complete, Opens, Whole
  <2> QED
    BY <2>1, <2>2 DEF OkMeansOpens, ReturnedMeansOpens
<1> QED
  BY <1>1, <1>2, <1>3, PTL DEF SetupSpec

-------------------------------------------------------------------------------
(* An attached directory *)

AttachTyped ==
    /\ errand \in [Attachers -> {"idle", "fetched", "open", "written", "renamed", "serving"}]
    /\ DOMAIN wants = Attachers /\ DOMAIN pinTmp = Attachers

\* Who is past Attachment::open holds the lock, and what it pins is what it was asked for.
PinsUnderLock(a) ==
    /\ errand[a] \in {"open", "written", "renamed", "serving"} => attachLock = a
    /\ errand[a] = "written" => pinTmp[a] = wants[a]
    /\ errand[a] \in {"renamed", "serving"} => pin = wants[a]

AttachInv == AttachTyped /\ \A a \in Attachers : PinsUnderLock(a)

\* A step of one command.
LEMMA AttachStep ==
    ASSUME AttachInv, NEW a \in Attachers,
           \/ \E f, g \in Flocks : Fetch(a, f, g)
           \/ OpenAttachment(a) \/ AttachmentHeld(a) \/ PinThere(a) \/ PinWrite(a)
           \/ PinRename(a) \/ PinSync(a) \/ Dies(a)
    PROVE  AttachInv'
<1> USE DEF AttachInv
<1>1. CASE \E f, g \in Flocks : Fetch(a, f, g)
  BY <1>1 DEF Fetch, Goes, AttachTyped, PinsUnderLock
<1>2. CASE OpenAttachment(a)
  BY <1>2, AttachAssumption DEF OpenAttachment, Goes, AttachTyped, PinsUnderLock
<1>3. CASE AttachmentHeld(a)
  BY <1>3 DEF AttachmentHeld, Goes, AttachTyped, PinsUnderLock
<1>4. CASE PinThere(a)
  BY <1>4 DEF PinThere, Goes, AttachTyped, PinsUnderLock
<1>5. CASE PinWrite(a)
  BY <1>5 DEF PinWrite, Goes, AttachTyped, PinsUnderLock
<1>6. CASE PinRename(a)
  BY <1>6 DEF PinRename, Goes, AttachTyped, PinsUnderLock
<1>7. CASE PinSync(a)
  BY <1>7 DEF PinSync, Goes, AttachTyped, PinsUnderLock
<1>8. CASE Dies(a)
  BY <1>8 DEF Dies, Goes, AttachTyped, PinsUnderLock
<1> QED
  BY <1>1, <1>2, <1>3, <1>4, <1>5, <1>6, <1>7, <1>8

\* A directory serves the flock it is pinned to, and one command at a time does
\* (Attachment::open and pin), for any number of commands and flocks, wherever one is killed
\* or the power lost.
THEOREM AttachmentsServeThePin == AttachSpec => []ServedAsPinned
<1>1. AttachInit => AttachInv
  BY DEF AttachInit, AttachInv, AttachTyped, PinsUnderLock
<1>2. AttachInv /\ [AttachNext]_attachVars => AttachInv'
  <2> SUFFICES ASSUME AttachInv, [AttachNext]_attachVars PROVE AttachInv'
    OBVIOUS
  <2>1. CASE UNCHANGED attachVars
    BY <2>1 DEF attachVars, AttachInv, AttachTyped, PinsUnderLock
  <2>2. CASE \E kept \in BOOLEAN : HostDown(kept)
    BY <2>2 DEF HostDown, AttachInv, AttachTyped, PinsUnderLock
  <2> QED
    BY <2>1, <2>2, AttachStep DEF AttachNext
<1>3. AttachInv => ServedAsPinned
  BY DEF AttachInv, PinsUnderLock, ServedAsPinned
<1> QED
  BY <1>1, <1>2, <1>3, PTL DEF AttachSpec

-------------------------------------------------------------------------------
(* A member's session process *)

Jobs == [for : Clients \cup {0}, what : {"none", "emit", "prove"},
         pc : {"none", "renew", "head", "admit"}, since : Nat]

MemberTyped ==
    /\ request \in Jobs /\ epoch \in Nat /\ cert \in Nat

\* A request is under way only in a session that has enrolled; its certificate is of the
\* epoch it began in or a later one; and the head it signs on is the chain's.
RequestInOrder ==
    /\ up = "enrolling" => request.pc = "none"
    /\ request.since <= epoch
    /\ request.pc \in {"head", "admit"} => request.since <= cert
    /\ request.pc = "admit" => head = Len(chain)

MemberInv == MemberTyped /\ RequestInOrder /\ RefusedOnlyWhenMoved

LEMMA NoJobTyped == NoRequest \in Jobs /\ NoRequest.pc = "none" /\ NoRequest.since = 0
  BY DEF NoRequest, Jobs

\* Enrolling, and the control socket.
LEMMA ControlKeeps ==
    ASSUME MemberInv,
           \/ \E p \in BOOLEAN : EnrollSession(p)
           \/ \E c \in Clients, what \in {"emit", "prove", "whoami", "silent", "end"} :
                 Handle(c, what)
    PROVE  MemberInv'
<1> USE DEF MemberInv
<1>1. CASE \E p \in BOOLEAN : EnrollSession(p)
  <2>1. /\ up' = "serving" /\ cert' = epoch /\ UNCHANGED <<epoch, chain, head, refusals>>
        /\ \/ request' = NoRequest
           \/ request' = [for |-> 0, what |-> "emit", pc |-> "renew", since |-> epoch]
    BY <1>1 DEF EnrollSession
  <2>2. request' \in Jobs /\ request'.pc \in {"none", "renew"} /\ request'.since <= epoch
    BY <2>1, NoJobTyped DEF MemberTyped, Jobs
  <2> QED
    BY <2>1, <2>2 DEF MemberTyped, RequestInOrder, RefusedOnlyWhenMoved
<1>2. CASE \E c \in Clients, what \in {"emit", "prove", "whoami", "silent", "end"} :
             Handle(c, what)
  <2>1. PICK c \in Clients, what \in {"emit", "prove", "whoami", "silent", "end"} :
           Handle(c, what)
    BY <1>2
  <2>2. /\ up = "serving" /\ up' \in {"serving", "ending"} /\ UNCHANGED <<cert, epoch, chain, head, refusals>>
        /\ \/ request' = request
           \/ /\ what \in {"emit", "prove"}
              /\ request' = [for |-> c, what |-> what, pc |-> "renew", since |-> epoch]
    BY <2>1 DEF Handle
  <2>3. CASE request' = request
    BY <2>2, <2>3 DEF MemberTyped, RequestInOrder, RefusedOnlyWhenMoved
  <2>4. CASE request' # request
    <3>1. request' \in Jobs /\ request'.pc = "renew" /\ request'.since <= epoch
      BY <2>2, <2>4 DEF MemberTyped, Jobs
    <3> QED
      BY <2>2, <3>1 DEF MemberTyped, RequestInOrder, RefusedOnlyWhenMoved
  <2> QED
    BY <2>3, <2>4
<1> QED
  BY <1>1, <1>2

LEMMA RenewKeeps ==
    ASSUME MemberInv, Renew \/ AskHead
    PROVE  MemberInv'
<1> USE DEF MemberInv
<1>1. CASE request' = NoRequest
  <2>1. cert' \in {cert, epoch} /\ UNCHANGED <<up, epoch, refusals>>
    BY DEF Renew, AskHead
  <2> QED
    BY <1>1, <2>1, NoJobTyped DEF MemberTyped, RequestInOrder, RefusedOnlyWhenMoved
<1>2. CASE request' # NoRequest
  <2>1. CASE Renew
    <3>1. /\ request.pc = "renew" /\ cert' = epoch /\ request' = [request EXCEPT !.pc = "head"]
          /\ UNCHANGED <<up, head, epoch, chain, refusals>>
      BY <1>2, <2>1 DEF Renew, Answered
    <3>2. request' \in Jobs /\ request'.pc = "head" /\ request'.since = request.since
      BY <3>1 DEF MemberTyped, Jobs
    <3> QED
      BY <3>1, <3>2 DEF MemberTyped, RequestInOrder, RefusedOnlyWhenMoved
  <2>2. CASE AskHead
    <3>1. /\ request.pc = "head" /\ head' = Len(chain) /\ request' = [request EXCEPT !.pc = "admit"]
          /\ UNCHANGED <<up, cert, epoch, chain, refusals>>
      BY <2>2 DEF AskHead
    <3>2. request' \in Jobs /\ request'.pc = "admit" /\ request'.since = request.since
      BY <3>1 DEF MemberTyped, Jobs
    <3> QED
      BY <3>1, <3>2 DEF MemberTyped, RequestInOrder, RefusedOnlyWhenMoved
  <2> QED
    BY <2>1, <2>2
<1> QED
  BY <1>1, <1>2

LEMMA AdmitKeeps ==
    ASSUME MemberInv, AdmitRequest
    PROVE  MemberInv'
<1> USE DEF MemberInv
<1>1. request.pc = "admit" /\ request' = NoRequest /\ UNCHANGED <<up, cert, epoch>>
  BY DEF AdmitRequest, Answered
<1>2. MemberTyped' /\ RequestInOrder'
  BY <1>1, NoJobTyped DEF MemberTyped, RequestInOrder
<1>3. head = Len(chain) /\ request.since <= cert /\ cert \in Nat /\ epoch \in Nat /\ request.since \in Nat
  BY <1>1 DEF MemberTyped, RequestInOrder, Jobs
<1>4. Verdict # "fork" /\ (Verdict = "epoch" => cert < epoch)
  BY <1>3 DEF Verdict
<1>5. Verdict = "epoch" => epoch > request.since
  BY <1>3, <1>4
<1>6. PICK w : w = Verdict
  OBVIOUS
<1>7. PICK m \in BOOLEAN : m = (epoch > request.since)
  <2>1. (epoch > request.since) = TRUE \/ (epoch > request.since) = FALSE
    BY <1>3
  <2> QED
    BY <2>1
<1>8. RefusedOnlyWhenMoved'
  <2>1. refusals' \subseteq refusals \cup {[why |-> w, moved |-> m]}
    BY <1>6, <1>7 DEF AdmitRequest
  <2>2. w # "fork" /\ (w = "epoch" => m)
    BY <1>4, <1>5, <1>6, <1>7
  <2>3. ASSUME NEW r \in refusals' PROVE r.why # "fork" /\ (r.why = "epoch" => r.moved)
    <3>1. CASE r \in refusals
      BY <3>1 DEF RefusedOnlyWhenMoved
    <3>2. CASE r = [why |-> w, moved |-> m]
      <4>1. r.why = w /\ r.moved = m
        BY <3>2
      <4> QED
        BY <2>2, <4>1, Zenon
    <3> QED
      BY <2>1, <3>1, <3>2
  <2> QED
    BY <2>3 DEF RefusedOnlyWhenMoved
<1> QED
  BY <1>2, <1>8

\* However many clients emit at once, the session does not fork its own chain, and admit
\* refuses an event for its certificate only if the epoch moved while it was on its way
\* (session.rs: renew, head, sign and admit for each event): for any clients and epochs.
THEOREM SessionNeverForks == MemberSpec => []RefusedOnlyWhenMoved
<1>1. MemberInit => MemberInv
  <2> SUFFICES ASSUME MemberInit PROVE MemberInv
    OBVIOUS
  <2>1. request = NoRequest /\ epoch = 1 /\ cert = 0 /\ refusals = {}
    BY DEF MemberInit
  <2> QED
    BY <2>1, NoJobTyped DEF MemberInv, MemberTyped, RequestInOrder, RefusedOnlyWhenMoved
<1>2. MemberInv /\ [MemberNext]_memberVars => MemberInv'
  <2> SUFFICES ASSUME MemberInv, [MemberNext]_memberVars PROVE MemberInv'
    OBVIOUS
  <2> USE DEF MemberInv, MemberTyped, RequestInOrder, RefusedOnlyWhenMoved
  <2>1. CASE UNCHANGED memberVars
    BY <2>1 DEF memberVars
  <2>2. CASE \E p \in BOOLEAN : EnrollSession(p)
    BY <2>2, ControlKeeps
  <2>3. CASE Signal \/ Stops \/ Leaves
    BY <2>3 DEF Signal, Stops, Leaves
  <2>4. CASE \E c \in Clients : ClientCalls(c) \/ ClientAlone(c)
    BY <2>4 DEF ClientCalls, ClientAlone
  <2>5. CASE \E c \in Clients, what \in {"emit", "prove", "whoami", "silent", "end"} :
               Handle(c, what)
    BY <2>5, ControlKeeps
  <2>6. CASE Renew \/ AskHead
    BY <2>6, RenewKeeps
  <2>7. CASE AdmitRequest
    BY <2>7, AdmitKeeps
  <2>8. CASE ServerSilent
    <3>1. request' = NoRequest /\ UNCHANGED <<up, cert, head, epoch, chain, refusals>>
      BY <2>8 DEF ServerSilent, Answered
    <3> QED
      BY <3>1, NoJobTyped
  <2>9. CASE EpochMoves
    <3>1. epoch' = epoch + 1 /\ UNCHANGED <<up, cert, request, head, chain, refusals>>
      BY <2>9 DEF EpochMoves
    <3>2. request.since \in Nat
      BY DEF Jobs
    <3> QED
      BY <3>1, <3>2
  <2>10. CASE LetIn \/ WireLost
    BY <2>10 DEF LetIn, WireLost
  <2> QED
    BY <2>1, <2>2, <2>3, <2>4, <2>5, <2>6, <2>7, <2>8, <2>9, <2>10 DEF MemberNext
<1>3. MemberInv => RefusedOnlyWhenMoved
  BY DEF MemberInv
<1> QED
  BY <1>1, <1>2, <1>3, PTL DEF MemberSpec

-----------------------------------------------------------------------------
(* Cited files: the inductive invariant. *)

ReaderFields == {"at", "path", "dir", "file", "bytes"}

\* What the tree can be; nobody writes outside of the root.
TreeSound ==
    /\ DOMAIN tree = {"root", "dir", "outside"}
    /\ DOMAIN tree.root = {"d", "f", "up"} /\ DOMAIN tree.dir = {"d", "f", "up"}
    /\ tree.root.d \in {Dir("dir"), Link("dir"), Link("outside"), NoEntry}
    /\ tree.dir.f \in {Regular("inside"), Link("foreign"), Dir("root"), NoEntry}
    /\ DOMAIN content = {"inside", "foreign"}
    /\ content.inside \in Seq(Bytes)

\* A reader walks from the root down, and holds what it opened there.
Beneath(w) ==
    /\ DOMAIN w = ReaderFields
    /\ w.dir \in {Absent, "root", "dir"}
    /\ w.file \in {NoEntry, Regular("inside"), Dir("root")}
    /\ w.bytes \in Seq(Bytes)
    /\ w.at = "root" => w.path \in Paths
    /\ w.at = "walk" =>
          \/ w.dir = "root" /\ w.path = <<"d", "f">>
          \/ w.dir = "dir" /\ w.path = <<"f">> /\ ~openat2
    /\ w.at = "read" => w.file = Regular("inside")

\* An id is cited before anyone asks for it, and once.
CitedFirst ==
    /\ cited \in Seq(Bytes)
    /\ readers["cite"].at # "idle" => cited = NoId
    /\ cited = NoId =>
          wanted = NoAnswer /\ taken = NoAnswer /\ readers["check"].at = "idle"
    /\ wanted.is = "file" => wanted.id = cited

ReadersBeneath ==
    /\ DOMAIN readers = Readers
    /\ \A r \in Readers : Beneath(readers[r])

FilesInv == TreeSound /\ ReadersBeneath /\ CitedFirst /\ CitedFileOrNothing

-----------------------------------------------------------------------------
(* Cited files: what the steps keep. *)

LEMMA InitFiles == FilesInit => FilesInv
<1> SUFFICES ASSUME FilesInit PROVE FilesInv
  OBVIOUS
<1> USE DEF FilesInit
<1>1. PICK b \in Bytes, n \in 1..MaxFile + 1 :
        content = [inside |-> [i \in 1..n |-> b], foreign |-> <<Foreign>>]
  OBVIOUS
<1>2. [i \in 1..n |-> b] \in Seq(Bytes)
  <2>1. n \in Nat
    BY FilesAssumption
  <2> QED
    BY <2>1
<1>3. TreeSound
  BY <1>1, <1>2 DEF TreeSound, Dir, Regular, NoEntry
<1>4. Beneath(Idle)
  BY DEF Beneath, Idle, ReaderFields
<1>5. ReadersBeneath
  BY <1>4 DEF ReadersBeneath
<1>6. NoId \in Seq(Bytes) /\ "cite" \in Readers /\ "check" \in Readers /\ Idle.at = "idle"
  BY DEF NoId, Readers, Idle
<1>7. CitedFirst
  BY <1>6 DEF CitedFirst, NoAnswer, Answer, Absent
<1>8. CitedFileOrNothing
  BY DEF CitedFileOrNothing, NoAnswer, Answer, Absent
<1> QED
  BY <1>3, <1>5, <1>7, <1>8 DEF FilesInv

\* A reader that goes on holding what is beneath the root, and citing or checking
\* only when it is time to.
LEMMA ReaderMoves ==
    ASSUME FilesInv, NEW r \in Readers, NEW w, Beneath(w), Step(r, w), wanted' = wanted,
           resp'.is = "file" => Len(resp'.id) <= MaxFile,
           r = "cite" /\ w.at # "idle" => cited = NoId,
           r = "check" /\ w.at # "idle" => cited # NoId
    PROVE  FilesInv'
<1>1. TreeSound /\ ReadersBeneath /\ CitedFirst /\ CitedFileOrNothing
  BY DEF FilesInv
<1>2. UNCHANGED <<tree, content, openat2, cited, taken>> /\ readers' = [readers EXCEPT ![r] = w]
  BY DEF Step
<1>3. TreeSound'
  BY <1>1, <1>2 DEF TreeSound
<1>4. DOMAIN readers' = Readers /\ readers'[r] = w /\ \A q \in Readers : q # r => readers'[q] = readers[q]
  BY <1>1, <1>2 DEF ReadersBeneath
<1>5. ReadersBeneath'
  <2> SUFFICES ASSUME NEW q \in Readers PROVE Beneath(readers'[q])
    BY <1>2, <1>4 DEF ReadersBeneath, Beneath
  <2> QED
    BY <1>1, <1>4 DEF ReadersBeneath
<1>6. CitedFirst'
  <2>1. "cite" \in Readers /\ "check" \in Readers /\ "cite" # "check"
    BY DEF Readers
  <2>2. readers'["cite"].at # "idle" => cited = NoId
    BY <2>1, <1>1, <1>4 DEF CitedFirst
  <2>3. cited = NoId => readers'["check"].at = "idle"
    BY <2>1, <1>1, <1>4 DEF CitedFirst
  <2> QED
    BY <2>2, <2>3, <1>1, <1>2 DEF CitedFirst, NoAnswer, Answer
<1>7. CitedFileOrNothing'
  BY <1>1, <1>2 DEF CitedFileOrNothing
<1> QED
  BY <1>3, <1>5, <1>6, <1>7 DEF FilesInv

LEMMA IdleIsBeneath == Beneath(Idle) /\ Idle.at = "idle"
BY DEF Beneath, Idle, ReaderFields, NoEntry, Absent

LEMMA FailFiles ==
    ASSUME FilesInv, NEW r \in Readers, Fail(r)
    PROVE  FilesInv'
<1>1. Step(r, Idle) /\ wanted' = wanted
  BY DEF Fail
<1>2. resp'.is = "file" => Len(resp'.id) <= MaxFile
  BY DEF Fail, Answer, FilesInv, CitedFileOrNothing
<1> QED
  BY <1>1, <1>2, IdleIsBeneath, ReaderMoves

\* A reader under way goes on, and answers nothing yet.
LEMMA GoesOnFiles ==
    ASSUME FilesInv, NEW r \in Readers, readers[r].at # "idle", NEW w, Beneath(w), Step(r, w), Keep
    PROVE  FilesInv'
<1>1. wanted' = wanted /\ resp' = resp
  BY DEF Keep
<1>2. resp'.is = "file" => Len(resp'.id) <= MaxFile
  BY <1>1 DEF FilesInv, CitedFileOrNothing
<1>3. r = "cite" => cited = NoId
  BY DEF FilesInv, CitedFirst
<1>4. r = "check" => cited # NoId
  BY DEF FilesInv, CitedFirst
<1> QED
  BY <1>1, <1>2, <1>3, <1>4, ReaderMoves

LEMMA RootFiles ==
    ASSUME FilesInv, NEW r \in Readers, Root(r)
    PROVE  FilesInv'
<1>1. Beneath(readers[r]) /\ readers[r].at = "root" /\ readers[r].path \in Paths
  BY DEF FilesInv, ReadersBeneath, Beneath, Root
<1>2. CASE Parts(readers[r].path) = <<>>
  BY <1>2, FailFiles DEF Root
<1>3. CASE Parts(readers[r].path) # <<>>
  <2>1. PICK w : w = [readers[r] EXCEPT !.at = "walk", !.dir = "root", !.path = Parts(@)]
    OBVIOUS
  <2>2. Step(r, w) /\ Keep
    BY <1>3, <2>1 DEF Root
  <2>3. Parts(readers[r].path) = <<"d", "f">>
    <3>1. ".." \in {<<"..", "f">>[i] : i \in 1..Len(<<"..", "f">>)}
      <4>1. 1 \in 1..Len(<<"..", "f">>) /\ <<"..", "f">>[1] = ".."
        OBVIOUS
      <4> QED
        BY <4>1
    <3>2. readers[r].path = <<"d", "f">>
      BY <1>1, <1>3, <3>1 DEF Paths, Parts
    <3> QED
      BY <1>3, <3>2 DEF Parts
  <2>4. Beneath(w)
    BY <1>1, <2>1, <2>3 DEF Beneath, ReaderFields
  <2> QED
    BY <1>1, <2>2, <2>4, GoesOnFiles
<1> QED
  BY <1>2, <1>3

\* What opening a name without following links gives, wherever a reader is.
LEMMA OpensBeneath ==
    ASSUME TreeSound
    PROVE  /\ OpenAt("root", "d") \in {Dir("dir"), NoEntry}
           /\ OpenAt("dir", "f") \in {Regular("inside"), Dir("root"), NoEntry}
BY DEF TreeSound, OpenAt, Entry, Dir, Link, Regular, NoEntry, Absent

LEMMA OpenedFiles ==
    ASSUME FilesInv, NEW r \in Readers, readers[r].at = "walk",
           NEW e \in {Regular("inside"), Dir("root"), NoEntry}, Opened(r, e)
    PROVE  FilesInv'
<1>1. Beneath(readers[r])
  BY DEF FilesInv, ReadersBeneath
<1>2. CASE e.kind = Absent
  BY <1>2, FailFiles DEF Opened
<1>3. CASE e.kind # Absent
  <2>1. PICK w : w = [readers[r] EXCEPT !.at = "stat", !.file = e, !.path = <<>>]
    OBVIOUS
  <2>2. Step(r, w) /\ Keep
    BY <1>3, <2>1 DEF Opened
  <2>3. Beneath(w)
    BY <1>1, <2>1 DEF Beneath, ReaderFields
  <2> QED
    BY <2>2, <2>3, GoesOnFiles
<1> QED
  BY <1>2, <1>3

LEMMA OpenLinuxFiles ==
    ASSUME FilesInv, NEW r \in Readers, OpenLinux(r)
    PROVE  FilesInv'
<1>1. Beneath(readers[r]) /\ readers[r].at = "walk" /\ TreeSound
  BY DEF FilesInv, ReadersBeneath, OpenLinux
<1>2. PICK e : e = IF OpenAt("root", readers[r].path[1]).kind = "dir"
                   THEN OpenAt(OpenAt("root", readers[r].path[1]).to, readers[r].path[2])
                   ELSE NoEntry
  OBVIOUS
<1>3. Opened(r, e)
  BY <1>2 DEF OpenLinux
<1>4. readers[r].path[1] = "d" /\ readers[r].path[2] = "f"
  BY <1>1 DEF Beneath, OpenLinux
<1>5. e \in {Regular("inside"), Dir("root"), NoEntry}
  <2>1. OpenAt("root", "d") \in {Dir("dir"), NoEntry}
    BY <1>1, OpensBeneath
  <2>2. Dir("dir").to = "dir"
    BY DEF Dir
  <2>3. NoEntry.kind # "dir"
    BY DEF NoEntry, Absent
  <2> QED
    BY <2>1, <2>2, <2>3, <1>1, <1>2, <1>4, OpensBeneath
<1> QED
  BY <1>1, <1>3, <1>5, OpenedFiles

LEMMA WalkFiles ==
    ASSUME FilesInv, NEW r \in Readers, WalkStep(r)
    PROVE  FilesInv'
<1>1. Beneath(readers[r]) /\ readers[r].at = "walk" /\ TreeSound /\ ~openat2
  BY DEF FilesInv, ReadersBeneath, WalkStep
<1>2. PICK w : w = readers[r]
  OBVIOUS
<1>3. PICK e : e = OpenAt(w.dir, Head(w.path))
  OBVIOUS
<1>4. /\ Len(w.path) = 1 \/ Len(w.path) > 1
      /\ Len(w.path) = 1 /\ ~Len(w.path) > 1 => Opened(r, e)
      /\ Len(w.path) # 1 /\ e.kind # "dir" => Fail(r)
  BY <1>2, <1>3, Zenon DEF WalkStep
<1>5. CASE w.dir = "root" /\ w.path = <<"d", "f">>
  <2>1. e \in {Dir("dir"), NoEntry} /\ Len(w.path) = 2 /\ Tail(w.path) = <<"f">>
    BY <1>1, <1>3, <1>5, OpensBeneath
  <2>2. CASE e.kind = "dir"
    <3>1. e.to = "dir"
      BY <2>1, <2>2 DEF Dir, NoEntry, Absent
    <3>2. PICK v : v = [w EXCEPT !.dir = e.to, !.path = Tail(@)]
      OBVIOUS
    <3>3. Step(r, v) /\ Keep
      BY <2>1, <2>2, <3>2, <1>2, <1>3 DEF WalkStep
    <3>4. Beneath(v)
      BY <1>1, <1>2, <2>1, <3>1, <3>2 DEF Beneath, ReaderFields
    <3> QED
      BY <1>1, <3>3, <3>4, GoesOnFiles
  <2>3. CASE e.kind # "dir"
    <3>1. Fail(r)
      BY <2>1, <2>3, <1>4
    <3> QED
      BY <3>1, FailFiles
  <2> QED
    BY <2>2, <2>3
<1>6. CASE w.dir = "dir" /\ w.path = <<"f">>
  <2>1. e \in {Regular("inside"), Dir("root"), NoEntry} /\ Len(w.path) = 1
    BY <1>1, <1>3, <1>6, OpensBeneath
  <2>2. Opened(r, e)
    BY <2>1, <1>4
  <2> QED
    BY <1>1, <2>1, <2>2, OpenedFiles
<1> QED
  BY <1>1, <1>2, <1>5, <1>6 DEF Beneath

LEMMA StatFiles ==
    ASSUME FilesInv, NEW r \in Readers, StatFile(r)
    PROVE  FilesInv'
<1>1. Beneath(readers[r]) /\ readers[r].at = "stat"
  BY DEF FilesInv, ReadersBeneath, StatFile
<1>2. CASE Fail(r)
  BY <1>2, FailFiles
<1>3. CASE ~Fail(r)
  <2>1. PICK w : w = [readers[r] EXCEPT !.at = "read"]
    OBVIOUS
  <2>2. Step(r, w) /\ Keep /\ readers[r].file.kind = "file"
    BY <1>3, <2>1 DEF StatFile
  <2>3. readers[r].file = Regular("inside")
    BY <1>1, <2>2 DEF Beneath, Dir, NoEntry, Absent
  <2>4. Beneath(w)
    BY <1>1, <2>1, <2>3 DEF Beneath, ReaderFields
  <2> QED
    BY <1>1, <2>2, <2>4, GoesOnFiles
<1> QED
  BY <1>2, <1>3

LEMMA ReadFiles ==
    ASSUME FilesInv, NEW r \in Readers, ReadByte(r)
    PROVE  FilesInv'
<1>1. Beneath(readers[r]) /\ readers[r].at = "read" /\ TreeSound
  BY DEF FilesInv, ReadersBeneath, ReadByte
<1>2. readers[r].file.to = "inside" /\ readers[r].bytes \in Seq(Bytes) /\ content["inside"] \in Seq(Bytes)
  BY <1>1 DEF Beneath, Regular, TreeSound
<1>3. PICK b : b = content["inside"][Len(readers[r].bytes) + 1]
  OBVIOUS
<1>4. b \in Bytes
  <2>1. ~(Len(readers[r].bytes) >= Len(content["inside"]))
    BY <1>2 DEF ReadByte, AtEnd
  <2>2. Len(readers[r].bytes) \in Nat /\ Len(content["inside"]) \in Nat
    BY <1>2
  <2>3. Len(readers[r].bytes) + 1 \in 1..Len(content["inside"])
    BY <2>1, <2>2
  <2> QED
    BY <1>2, <1>3, <2>3
<1>5. PICK w : w = [readers[r] EXCEPT !.bytes = Append(@, b)]
  OBVIOUS
<1>6. Step(r, w) /\ Keep
  BY <1>2, <1>3, <1>5 DEF ReadByte
<1>7. Beneath(w)
  <2>1. Append(readers[r].bytes, b) \in Seq(Bytes)
    BY <1>2, <1>4
  <2>2. DOMAIN readers[r] = ReaderFields
    BY <1>1 DEF Beneath
  <2>3. /\ DOMAIN w = ReaderFields /\ w.bytes = Append(readers[r].bytes, b)
        /\ w.at = readers[r].at /\ w.path = readers[r].path /\ w.dir = readers[r].dir
        /\ w.file = readers[r].file
    BY <1>5, <2>2 DEF ReaderFields
  <2> QED
    BY <1>1, <2>1, <2>3 DEF Beneath
<1> QED
  BY <1>1, <1>6, <1>7, GoesOnFiles

LEMMA BeginsFiles ==
    ASSUME FilesInv, NEW path \in Paths, CiteBegins(path) \/ CheckBegins(path) \/ FileResp(path)
    PROVE  FilesInv'
<1>1. PICK w : w = [Idle EXCEPT !.at = "root", !.path = path]
  OBVIOUS
<1>2. Beneath(w)
  BY <1>1 DEF Beneath, Idle, ReaderFields, NoEntry, Absent
<1>3. resp.is = "file" => Len(resp.id) <= MaxFile
  BY DEF FilesInv, CitedFileOrNothing
<1>4. "cite" \in Readers /\ "check" \in Readers /\ "serve" \in Readers
  BY DEF Readers
<1>5. CASE CiteBegins(path)
  <2>1. Step("cite", w) /\ wanted' = wanted /\ resp' = resp /\ cited = NoId
    BY <1>1, <1>5 DEF CiteBegins, Keep
  <2> QED
    BY <2>1, <1>2, <1>3, <1>4, ReaderMoves
<1>6. CASE CheckBegins(path)
  <2>1. Step("check", w) /\ wanted' = wanted /\ resp' = resp /\ cited # NoId
    BY <1>1, <1>6 DEF CheckBegins, Keep
  <2> QED
    BY <2>1, <1>2, <1>3, <1>4, ReaderMoves
<1>7. CASE FileResp(path) /\ readable
  <2>1. Step("serve", w) /\ wanted' = wanted /\ resp' = resp
    BY <1>1, <1>7 DEF FileResp, Keep
  <2> QED
    BY <2>1, <1>2, <1>3, <1>4, ReaderMoves
<1>8. CASE FileResp(path) /\ ~readable
  <2>1. /\ UNCHANGED <<tree, content, openat2, readers, wanted, cited, taken>>
        /\ resp' = Answer("refused", <<>>)
    BY <1>8 DEF FileResp
  <2>2. resp'.is # "file"
    BY <2>1 DEF Answer
  <2> QED
    BY <2>1, <2>2 DEF FilesInv, TreeSound, ReadersBeneath, Beneath, CitedFirst, CitedFileOrNothing
<1> QED
  BY <1>5, <1>6, <1>7, <1>8

\* A reader is done and lets go of what it held.
LEMMA ReaderEnds ==
    ASSUME ReadersBeneath, NEW r \in Readers, readers' = [readers EXCEPT ![r] = Idle], openat2' = openat2
    PROVE  /\ ReadersBeneath' /\ readers'[r].at = "idle"
           /\ \A q \in Readers : q # r => readers'[q] = readers[q]
<1>1. DOMAIN readers' = Readers /\ readers'[r] = Idle /\ \A q \in Readers : q # r => readers'[q] = readers[q]
  BY DEF ReadersBeneath
<1>2. \A q \in Readers : Beneath(readers'[q])
  BY <1>1, IdleIsBeneath DEF ReadersBeneath
<1> QED
  BY <1>1, <1>2, IdleIsBeneath DEF ReadersBeneath, Beneath

LEMMA CiteEndsFiles ==
    ASSUME FilesInv, CiteEnds
    PROVE  FilesInv'
<1>1. TreeSound /\ ReadersBeneath /\ CitedFirst /\ CitedFileOrNothing
  BY DEF FilesInv
<1>2. "cite" \in Readers /\ "check" \in Readers /\ "cite" # "check"
  BY DEF Readers
<1>3. /\ UNCHANGED <<tree, content, openat2, wanted, resp, taken>> /\ cited' = readers["cite"].bytes
      /\ readers' = [readers EXCEPT !["cite"] = Idle] /\ readers["cite"].at = "read"
  BY DEF CiteEnds, WholeFile
<1>4. /\ ReadersBeneath' /\ readers'["cite"].at = "idle" /\ readers'["check"] = readers["check"]
  BY <1>1, <1>2, <1>3, ReaderEnds
<1>5. cited = NoId /\ wanted = NoAnswer /\ taken = NoAnswer /\ readers["check"].at = "idle"
  BY <1>1, <1>3 DEF CitedFirst
<1>6. cited' \in Seq(Bytes)
  BY <1>1, <1>2, <1>3 DEF ReadersBeneath, Beneath
<1>7. CitedFirst'
  BY <1>3, <1>4, <1>5, <1>6 DEF CitedFirst, NoAnswer, Answer, Absent
<1>8. CitedFileOrNothing'
  BY <1>1, <1>3, <1>5 DEF CitedFileOrNothing, NoAnswer, Answer, Absent
<1>9. TreeSound'
  BY <1>1, <1>3 DEF TreeSound
<1> QED
  BY <1>4, <1>7, <1>8, <1>9 DEF FilesInv

LEMMA CheckEndsFiles ==
    ASSUME FilesInv, CheckEnds
    PROVE  FilesInv'
<1>1. TreeSound /\ ReadersBeneath /\ CitedFirst /\ CitedFileOrNothing
  BY DEF FilesInv
<1>2. "cite" \in Readers /\ "check" \in Readers /\ "cite" # "check"
  BY DEF Readers
<1>3. /\ UNCHANGED <<tree, content, openat2, wanted, resp, cited>>
      /\ readers' = [readers EXCEPT !["check"] = Idle] /\ readers["check"].at = "read"
      /\ taken' = Answer(IF readers["check"].bytes = cited THEN "same" ELSE "changed",
                         readers["check"].bytes)
  BY DEF CheckEnds, WholeFile
<1>4. /\ ReadersBeneath' /\ readers'["check"].at = "idle" /\ readers'["cite"] = readers["cite"]
  BY <1>1, <1>2, <1>3, ReaderEnds
<1>5. cited # NoId
  BY <1>1, <1>3 DEF CitedFirst
<1>6. CitedFirst'
  BY <1>1, <1>3, <1>4, <1>5 DEF CitedFirst
<1>7. CitedFileOrNothing'
  BY <1>1, <1>3 DEF CitedFileOrNothing, Answer
<1>8. TreeSound'
  BY <1>1, <1>3 DEF TreeSound
<1> QED
  BY <1>4, <1>6, <1>7, <1>8 DEF FilesInv

LEMMA AnswersFiles ==
    ASSUME FilesInv, FileAnswers
    PROVE  FilesInv'
<1>1. TreeSound /\ ReadersBeneath /\ CitedFirst /\ CitedFileOrNothing
  BY DEF FilesInv
<1>2. "cite" \in Readers /\ "check" \in Readers /\ "serve" \in Readers /\ "serve" \notin {"cite", "check"}
  BY DEF Readers
<1>3. /\ UNCHANGED <<tree, content, openat2, wanted, cited, taken>>
      /\ readers' = [readers EXCEPT !["serve"] = Idle]
  BY DEF FileAnswers
<1>4. /\ ReadersBeneath' /\ readers'["check"] = readers["check"] /\ readers'["cite"] = readers["cite"]
  BY <1>1, <1>2, <1>3, ReaderEnds
<1>5. resp'.is = "file" => Len(resp'.id) <= MaxFile
  <2>1. Len(readers["serve"].bytes) <= MaxFile
    BY DEF FileAnswers, WholeFile, Limit
  <2>2. resp'.id = readers["serve"].bytes
    BY DEF FileAnswers, Answer
  <2> QED
    BY <2>1, <2>2
<1>6. CitedFirst'
  BY <1>1, <1>3, <1>4 DEF CitedFirst
<1>7. CitedFileOrNothing'
  BY <1>1, <1>3, <1>5 DEF CitedFileOrNothing
<1>8. TreeSound'
  BY <1>1, <1>3 DEF TreeSound
<1> QED
  BY <1>4, <1>6, <1>7, <1>8 DEF FilesInv

LEMMA ClientFiles ==
    ASSUME FilesInv, (\E stat \in BOOLEAN : Ask(stat)) \/ Take \/ PutAside
    PROVE  FilesInv'
<1>1. TreeSound /\ ReadersBeneath /\ CitedFirst /\ CitedFileOrNothing
  BY DEF FilesInv
<1>2. UNCHANGED <<tree, content, openat2, readers, cited>>
  BY DEF Ask, Take, PutAside
<1>3. TreeSound' /\ ReadersBeneath'
  BY <1>1, <1>2 DEF TreeSound, ReadersBeneath, Beneath
<1>4. CASE \E stat \in BOOLEAN : Ask(stat)
  <2>1. cited # NoId /\ UNCHANGED <<resp, taken>>
    BY <1>4 DEF Ask
  <2>2. wanted'.is = "file" => wanted'.id = cited
    BY <1>4 DEF Ask, Answer
  <2>3. CitedFirst'
    BY <1>1, <1>2, <2>1, <2>2 DEF CitedFirst
  <2>4. CitedFileOrNothing'
    BY <1>1, <1>2, <2>1 DEF CitedFileOrNothing
  <2> QED
    BY <1>3, <2>3, <2>4 DEF FilesInv
<1>5. CASE Take
  <2>1. wanted # NoAnswer /\ taken' = Taken(resp) /\ wanted' = NoAnswer /\ resp' = NoAnswer
    BY <1>5 DEF Take
  <2>2. cited # NoId
    BY <1>1, <2>1 DEF CitedFirst
  <2>3. CitedFirst'
    BY <1>1, <1>2, <2>1, <2>2 DEF CitedFirst, NoAnswer, Answer, Absent
  <2>4. CitedFileOrNothing'
    <3>1. resp'.is # "file"
      BY <2>1 DEF NoAnswer, Answer, Absent
    <3>2. /\ taken'.is \in {"bytes", "same"} => taken'.id = cited
          /\ taken'.is = "changed" => taken'.id # cited
      BY <1>1, <2>1 DEF Taken, Answer, CitedFirst
    <3> QED
      BY <3>1, <3>2, <1>2 DEF CitedFileOrNothing
  <2> QED
    BY <1>3, <2>3, <2>4 DEF FilesInv
<1>6. CASE PutAside
  <2>1. taken' = NoAnswer /\ UNCHANGED <<wanted, resp>>
    BY <1>6 DEF PutAside
  <2>2. CitedFirst'
    BY <1>1, <1>2, <2>1 DEF CitedFirst, NoAnswer, Answer
  <2>3. CitedFileOrNothing'
    BY <1>1, <1>2, <2>1 DEF CitedFileOrNothing, NoAnswer, Answer, Absent
  <2> QED
    BY <1>3, <2>2, <2>3 DEF FilesInv
<1> QED
  BY <1>4, <1>5, <1>6

LEMMA SwapFiles ==
    ASSUME TreeSound, Swap
    PROVE  TreeSound'
<1>1. content' = content
  BY DEF Swap
<1>2. CASE \E e \in {Dir("dir"), Link("dir"), Link("outside"), NoEntry} : tree' = [tree EXCEPT !["root"]["d"] = e]
  <2>1. PICK e \in {Dir("dir"), Link("dir"), Link("outside"), NoEntry} : tree' = [tree EXCEPT !["root"]["d"] = e]
    BY <1>2
  <2>2. /\ DOMAIN tree' = DOMAIN tree /\ tree'.dir = tree.dir
        /\ DOMAIN tree'.root = DOMAIN tree.root /\ tree'.root.d = e
    BY <2>1 DEF TreeSound
  <2> QED
    BY <2>2, <1>1 DEF TreeSound
<1>3. CASE \E e \in {Regular("inside"), Link("foreign"), Dir("root"), NoEntry} : tree' = [tree EXCEPT !["dir"]["f"] = e]
  <2>1. PICK e \in {Regular("inside"), Link("foreign"), Dir("root"), NoEntry} : tree' = [tree EXCEPT !["dir"]["f"] = e]
    BY <1>3
  <2>2. /\ DOMAIN tree' = DOMAIN tree /\ tree'.root = tree.root
        /\ DOMAIN tree'.dir = DOMAIN tree.dir /\ tree'.dir.f = e
    BY <2>1 DEF TreeSound
  <2> QED
    BY <2>2, <1>1 DEF TreeSound
<1> QED
  BY <1>2, <1>3 DEF Swap

LEMMA WriteFiles ==
    ASSUME TreeSound, Write
    PROVE  TreeSound'
<1>1. tree' = tree
  BY DEF Write
<1>2. PICK was \in Seq(Bytes) : was = content["inside"] /\ DOMAIN content = {"inside", "foreign"}
  BY DEF TreeSound
<1>3. ASSUME NEW new \in Seq(Bytes), content' = [content EXCEPT !["inside"] = new] PROVE TreeSound'
  BY <1>1, <1>2, <1>3 DEF TreeSound
<1>4. ASSUME NEW b \in Bytes, content' = [content EXCEPT !["inside"] = Append(@, b)] PROVE TreeSound'
  <2>1. Append(was, b) \in Seq(Bytes)
    OBVIOUS
  <2> QED
    BY <1>2, <1>3, <1>4, <2>1
<1>5. ASSUME Len(was) > 1, content' = [content EXCEPT !["inside"] = Tail(@)] PROVE TreeSound'
  <2>1. was # <<>>
    BY <1>5
  <2>2. Tail(was) \in Seq(Bytes)
    BY <2>1
  <2> QED
    BY <1>2, <1>3, <1>5, <2>2
<1>6. ASSUME NEW b \in Bytes, NEW i \in DOMAIN was, content' = [content EXCEPT !["inside"][i] = b] PROVE TreeSound'
  <2>1. [was EXCEPT ![i] = b] \in Seq(Bytes)
    OBVIOUS
  <2>2. content' = [content EXCEPT !["inside"] = [was EXCEPT ![i] = b]]
    BY <1>2, <1>6
  <2> QED
    BY <1>3, <2>1, <2>2
<1> QED
  BY <1>2, <1>4, <1>5, <1>6 DEF Write

LEMMA OwnerFiles ==
    ASSUME FilesInv, Swap \/ Write \/ NoLonger \/ Lie
    PROVE  FilesInv'
<1>1. TreeSound /\ ReadersBeneath /\ CitedFirst /\ CitedFileOrNothing
  BY DEF FilesInv
<1>2. UNCHANGED <<openat2, readers, wanted, cited, taken>>
  BY DEF Swap, Write, NoLonger, Lie, Change
<1>3. TreeSound'
  <2>1. CASE NoLonger \/ Lie
    BY <1>1, <2>1 DEF NoLonger, Lie, TreeSound
  <2> QED
    BY <1>1, <2>1, SwapFiles, WriteFiles
<1>4. ReadersBeneath' /\ CitedFirst'
  BY <1>1, <1>2 DEF ReadersBeneath, Beneath, CitedFirst
<1>5. resp'.is = "file" => Len(resp'.id) <= MaxFile
  <2>1. CASE Lie
    BY <2>1 DEF Lie, Answer
  <2>2. CASE resp' = resp
    BY <2>2, <1>1 DEF CitedFileOrNothing
  <2> QED
    BY <2>1, <2>2 DEF Swap, Write, NoLonger
<1>6. CitedFileOrNothing'
  BY <1>1, <1>2, <1>5 DEF CitedFileOrNothing
<1> QED
  BY <1>3, <1>4, <1>6 DEF FilesInv

LEMMA NextFiles == FilesInv /\ [FilesNext]_filesVars => FilesInv'
<1> SUFFICES ASSUME FilesInv, [FilesNext]_filesVars PROVE FilesInv'
  OBVIOUS
<1>1. CASE UNCHANGED filesVars
  BY <1>1 DEF filesVars, FilesInv, TreeSound, ReadersBeneath, Beneath, CitedFirst, CitedFileOrNothing
<1>2. ASSUME NEW r \in Readers,
             Root(r) \/ OpenLinux(r) \/ WalkStep(r) \/ StatFile(r) \/ ReadByte(r) \/ TooLarge(r)
      PROVE  FilesInv'
  BY <1>2, RootFiles, OpenLinuxFiles, WalkFiles, StatFiles, ReadFiles, FailFiles DEF TooLarge
<1> QED
  BY <1>1, <1>2, BeginsFiles, CiteEndsFiles, CheckEndsFiles, AnswersFiles, ClientFiles, OwnerFiles
     DEF FilesNext

\* No reader holds anything outside of the root, however directories are swapped
\* for links under it, by one resolution or component by component (Beneath), for
\* any bytes, sizes and number of changes.
THEOREM ReadersStayBeneath == FilesSpec => []OnlyBeneathTheRoot
<1>1. FilesInv => OnlyBeneathTheRoot
  <2> SUFFICES ASSUME FilesInv PROVE OnlyBeneathTheRoot
    OBVIOUS
  <2>1. ASSUME NEW r \in Readers
        PROVE  readers[r].dir # "outside" /\ readers[r].file.to \notin {"outside", "foreign"}
    BY DEF FilesInv, ReadersBeneath, Beneath, Absent, NoEntry, Regular, Dir
  <2>2. Foreign \notin {cited[i] : i \in DOMAIN cited}
    <3>1. cited \in Seq(Bytes)
      BY DEF FilesInv, CitedFirst
    <3>2. \A i \in DOMAIN cited : cited[i] \in Bytes
      BY <3>1
    <3> QED
      BY <3>2, FilesAssumption
  <2> QED
    BY <2>1, <2>2 DEF OnlyBeneathTheRoot
<1> QED
  BY <1>1, InitFiles, NextFiles, PTL DEF FilesSpec

\* What is handed over as the cited file is it, whatever became of the path, the
\* file and the server's word, and no answer outgrows a message (read_under,
\* Files::read).
THEOREM CitedIsHandedOver == FilesSpec => []CitedFileOrNothing
<1>1. FilesInv => CitedFileOrNothing
  BY DEF FilesInv
<1> QED
  BY <1>1, InitFiles, NextFiles, PTL DEF FilesSpec

\* Both at once: who reads a tree for a cite, a check or a request stays beneath the
\* root, and who asks for a cited file gets that file or none.
THEOREM FilesStayGuarded == FilesSpec => []FilesAreGuarded
  BY ReadersStayBeneath, CitedIsHandedOver, PTL DEF FilesAreGuarded

-----------------------------------------------------------------------------
(* A one-shot message: the inductive invariant. *)

HasSent == {"stopped", "ok", "failed"}

ShotTyped ==
    /\ DOMAIN sender = Senders /\ DOMAIN task = Senders
    /\ toward \in [Senders -> Seq({"hello", "envelope"})]
    /\ back \in [Senders -> Seq({"hello", "reject"})]
    /\ \A r \in printed : r[1] \in Senders

\* What a stranger is told, and how far it and the task of its connection come.
StrangerIsOut(s) ==
    /\ sender[s] \notin {"envelope", "stopped", "ok"}
    /\ task[s] \notin {"live", "envelope"}
    /\ \A i \in DOMAIN back[s] : back[s][i] = "reject"

\* An envelope on the stream is one that its sender is done with.
WasSent(s) == (\E i \in DOMAIN toward[s] : toward[s][i] = "envelope") => sender[s] \in HasSent

ShotInv ==
    /\ ShotTyped
    /\ \A s \in Senders : WasSent(s) /\ (s \in Strangers => StrangerIsOut(s))
    /\ PrintedStands

-----------------------------------------------------------------------------
(* A one-shot message: what the steps keep. *)

LEMMA InitShot == OneShotInit => ShotInv
<1> SUFFICES ASSUME OneShotInit PROVE ShotInv
  OBVIOUS
<1>1. \A s \in Senders : sender[s] = "idle" /\ task[s] = "none" /\ toward[s] = <<>> /\ back[s] = <<>>
  BY DEF OneShotInit
<1>2. ShotTyped
  <2>0. <<>> \in Seq({"hello", "envelope"}) /\ <<>> \in Seq({"hello", "reject"})
    OBVIOUS
  <2>1. PICK none : none = <<>> /\ none \in Seq({"hello", "envelope"}) /\ none \in Seq({"hello", "reject"})
    BY <2>0, Zenon
  <2> QED
    BY <2>1 DEF OneShotInit, ShotTyped
<1>3. \A s \in Senders : WasSent(s) /\ StrangerIsOut(s)
  BY <1>1 DEF WasSent, StrangerIsOut
<1>4. PrintedStands
  BY <1>1 DEF OneShotInit, PrintedStands
<1> QED
  BY <1>2, <1>3, <1>4 DEF ShotInv

\* A sender goes no way back from what it has sent, and a step of one sender or of
\* its task is not one of another's.
LEMMA OneAtATime ==
    ASSUME ShotInv, NEW s \in Senders, ShotTyped',
           WasSent(s)', s \in Strangers => StrangerIsOut(s)',
           \A q \in Senders \ {s} : /\ sender'[q] = sender[q] /\ task'[q] = task[q]
                                    /\ toward'[q] = toward[q] /\ back'[q] = back[q],
           sender[s] \in HasSent => sender'[s] \in HasSent,
           \A r \in printed' : r \in printed \/ (r[2] /\ r[1] = s /\ s \notin Strangers /\ sender'[s] \in HasSent)
    PROVE  ShotInv'
<1>1. ShotTyped /\ PrintedStands /\ \A q \in Senders : WasSent(q) /\ (q \in Strangers => StrangerIsOut(q))
  BY DEF ShotInv
<1>2. ASSUME NEW q \in Senders PROVE WasSent(q)' /\ (q \in Strangers => StrangerIsOut(q)')
  <2>1. CASE q = s
    BY <2>1
  <2>2. CASE q # s
    <3>1. UNCHANGED <<sender[q], task[q], toward[q], back[q]>>
      BY <2>2
    <3> QED
      BY <3>1, <1>1 DEF WasSent, StrangerIsOut
  <2> QED
    BY <2>1, <2>2
<1>3. ASSUME NEW r \in printed' PROVE r[2] /\ r[1] \notin Strangers /\ sender'[r[1]] \in HasSent
  <2>1. CASE r \in printed
    <3>1. r[1] \in Senders /\ r[2] /\ r[1] \notin Strangers /\ sender[r[1]] \in HasSent
      BY <2>1, <1>1 DEF PrintedStands, ShotTyped, HasSent
    <3> QED
      BY <3>1
  <2>2. CASE r \notin printed
    BY <2>2
  <2> QED
    BY <2>1, <2>2
<1>4. PrintedStands'
  BY <1>2, <1>3 DEF PrintedStands, HasSent, StrangerIsOut
<1> QED
  BY <1>2, <1>4 DEF ShotInv

\* Steps of a task and of a sender that put nothing on the stream and take nothing
\* but the first frame off it.
LEMMA TaskShot ==
    ASSUME ShotInv, NEW s \in Senders, TaskStep(s)
    PROVE  ShotInv'
<1>1. ShotTyped /\ PrintedStands /\ WasSent(s) /\ (s \in Strangers => StrangerIsOut(s))
  BY DEF ShotInv
<1>2. sender' = sender
  BY DEF TaskStep, AcceptPeer, AcceptBi, ReadHello, Rejected, HandshakeTimeout, LiveChecked,
         ReadEnvelope, EnvelopeError, Task
<1>3. DOMAIN task' = Senders /\ \A q \in Senders \ {s} : task'[q] = task[q]
  BY <1>1 DEF ShotTyped, TaskStep, AcceptPeer, AcceptBi, ReadHello, Rejected, HandshakeTimeout,
         LiveChecked, ReadEnvelope, EnvelopeError, Task
<1>4. CASE /\ UNCHANGED <<toward, back, printed>> /\ task'[s] \notin {"live", "envelope"}
  BY <1>1, <1>2, <1>3, <1>4, OneAtATime DEF ShotTyped, WasSent, StrangerIsOut
<1>5. CASE \/ AcceptPeer(s) \/ AcceptBi(s) \/ Rejected(s) \/ EnvelopeError(s)
  BY <1>1, <1>4, <1>5 DEF AcceptPeer, AcceptBi, Rejected, EnvelopeError, Task, ShotTyped
<1>6. ASSUME back' = back, printed' = printed, toward' = [toward EXCEPT ![s] = <<>>],
             task'[s] \notin {"live", "envelope"}
      PROVE  ShotInv'
  <2>0. <<>> \in Seq({"hello", "envelope"}) /\ DOMAIN <<>> = {}
    OBVIOUS
  <2>1. PICK none : none = <<>> /\ none \in Seq({"hello", "envelope"}) /\ DOMAIN none = {}
    BY <2>0, Zenon
  <2>2. ShotTyped' /\ toward'[s] = none /\ \A q \in Senders \ {s} : toward'[q] = toward[q]
    BY <2>1, <1>1, <1>2, <1>3, <1>6 DEF ShotTyped
  <2>3. WasSent(s)' /\ (s \in Strangers => StrangerIsOut(s)')
    BY <2>1, <2>2, <1>1, <1>2, <1>6 DEF WasSent, StrangerIsOut
  <2> QED
    BY <2>2, <2>3, <1>2, <1>3, <1>6, OneAtATime
<1>7. CASE HandshakeTimeout(s)
  BY <1>1, <1>6, <1>7 DEF HandshakeTimeout, ShotTyped
<1>8. CASE LiveChecked(s)
  <2>1. CASE Trusted(s)
    <3>1. s \notin Strangers /\ UNCHANGED <<toward, back, printed>>
      BY <2>1, <1>8 DEF Trusted, LiveChecked
    <3> QED
      BY <3>1, <1>1, <1>2, <1>3, OneAtATime DEF ShotTyped, WasSent
  <2>2. CASE ~Trusted(s)
    BY <2>2, <1>1, <1>6, <1>8 DEF LiveChecked, Task, ShotTyped
  <2> QED
    BY <2>1, <2>2
<1>9. ASSUME toward[s] # <<>>, toward' = [toward EXCEPT ![s] = Tail(@)]
      PROVE  /\ toward' \in [Senders -> Seq({"hello", "envelope"})] /\ WasSent(s)'
             /\ \A q \in Senders \ {s} : toward'[q] = toward[q]
  <2>1. PICK was \in Seq({"hello", "envelope"}) : was = toward[s] /\ was # <<>>
    BY <1>1, <1>9 DEF ShotTyped
  <2>2. PICK left \in Seq({"hello", "envelope"}) : left = Tail(was)
    <3>1. Tail(was) \in Seq({"hello", "envelope"})
      BY <2>1
    <3> QED
      BY <3>1
  <2>3. \A i \in DOMAIN left : i + 1 \in DOMAIN was /\ left[i] = was[i + 1]
    BY <2>1, <2>2
  <2>4. toward'[s] = left
    BY <2>1, <2>2, <1>1, <1>9 DEF ShotTyped
  <2> QED
    BY <2>1, <2>2, <2>3, <2>4, <1>1, <1>2, <1>9 DEF ShotTyped, WasSent
<1>10. CASE ReadHello(s)
  <2>1. /\ toward[s] # <<>> /\ toward' = [toward EXCEPT ![s] = Tail(@)] /\ printed' = printed
    BY <1>10 DEF ReadHello
  <2>2. PICK f \in {"hello", "reject"} :
          back' = [back EXCEPT ![s] = Append(@, f)] /\ (s \in Strangers => f = "reject" /\ task'[s] = "reject")
    BY <1>1, <1>10 DEF ReadHello, Trusted, Task, ShotTyped
  <2>3. PICK was \in Seq({"hello", "reject"}) : was = back[s]
    BY <1>1 DEF ShotTyped
  <2>4. PICK new \in Seq({"hello", "reject"}) :
          /\ new = Append(was, f)
          /\ \A i \in DOMAIN new : (i \in DOMAIN was /\ new[i] = was[i]) \/ new[i] = f
    <3>1. Append(was, f) \in Seq({"hello", "reject"})
      OBVIOUS
    <3>2. \A i \in DOMAIN Append(was, f) :
             (i \in DOMAIN was /\ Append(was, f)[i] = was[i]) \/ Append(was, f)[i] = f
      OBVIOUS
    <3> QED
      BY <3>1, <3>2
  <2>5. back'[s] = new /\ back' \in [Senders -> Seq({"hello", "reject"})] /\ \A q \in Senders \ {s} : back'[q] = back[q]
    BY <2>2, <2>3, <2>4, <1>1 DEF ShotTyped
  <2>6. s \in Strangers => StrangerIsOut(s)'
    BY <2>2, <2>3, <2>4, <2>5, <1>1, <1>2 DEF StrangerIsOut
  <2>7. ShotTyped'
    BY <2>1, <2>5, <1>1, <1>2, <1>3, <1>9 DEF ShotTyped
  <2> QED
    BY <2>1, <2>5, <2>6, <2>7, <1>2, <1>3, <1>9, OneAtATime
<1>11. CASE ReadEnvelope(s)
  <2>1. /\ toward[s] # <<>> /\ toward' = [toward EXCEPT ![s] = Tail(@)] /\ back' = back
        /\ Head(toward[s]) = "envelope" /\ task'[s] = "next"
    BY <1>1, <1>11 DEF ReadEnvelope, Task, ShotTyped
  <2>2. sender[s] \in HasSent
    <3>1. 1 \in DOMAIN toward[s] /\ toward[s][1] = "envelope"
      BY <2>1, <1>1 DEF ShotTyped
    <3> QED
      BY <3>1, <1>1 DEF WasSent
  <2>3. \A r \in printed' : r \in printed \/ (r[2] /\ r[1] = s /\ s \notin Strangers)
    <3>1. CASE Trusted(s)
      <4>1. s \notin Strangers /\ (s \notin revoked) = TRUE
        BY <3>1 DEF Trusted
      <4>2. printed' = printed \union {<<s, TRUE>>}
        BY <3>1, <4>1, <1>11 DEF ReadEnvelope
      <4>3. <<s, TRUE>>[1] = s /\ <<s, TRUE>>[2]
        OBVIOUS
      <4> QED
        BY <4>1, <4>2, <4>3
    <3>2. CASE ~Trusted(s)
      BY <3>2, <1>11 DEF ReadEnvelope
    <3> QED
      BY <3>1, <3>2
  <2>4. ShotTyped'
    BY <2>1, <2>3, <1>1, <1>2, <1>3, <1>9 DEF ShotTyped
  <2>5. s \in Strangers => StrangerIsOut(s)'
    BY <2>1, <1>1, <1>2 DEF StrangerIsOut
  <2> QED
    BY <2>1, <2>2, <2>3, <2>4, <2>5, <1>2, <1>3, <1>9, OneAtATime
<1> QED
  BY <1>5, <1>7, <1>8, <1>10, <1>11 DEF TaskStep

LEMMA SenderShot ==
    ASSUME ShotInv, NEW s \in Senders, SenderStep(s)
    PROVE  ShotInv'
<1>1. ShotTyped /\ PrintedStands /\ WasSent(s) /\ (s \in Strangers => StrangerIsOut(s))
  BY DEF ShotInv
<1>2. /\ task' = task /\ printed' = printed /\ DOMAIN sender' = Senders
      /\ \A q \in Senders \ {s} : sender'[q] = sender[q]
  BY <1>1 DEF ShotTyped, SenderStep, Route, SendHello, ReadAnswer, SendEnvelope, Stopped, SendGivesUp, At
<1>3. ASSUME UNCHANGED <<toward, back>>, sender[s] \in HasSent => sender'[s] \in HasSent,
             s \in Strangers => sender'[s] \notin {"envelope", "stopped", "ok"}
      PROVE  ShotInv'
  BY <1>1, <1>2, <1>3, OneAtATime DEF ShotTyped, WasSent, StrangerIsOut
<1>4. CASE \E found \in BOOLEAN : Route(s, found)
  BY <1>1, <1>3, <1>4 DEF Route, At, HasSent, ShotTyped
<1>5. CASE Stopped(s) \/ SendGivesUp(s)
  BY <1>1, <1>3, <1>5 DEF Stopped, SendGivesUp, At, HasSent, ShotTyped, StrangerIsOut
<1>6. ASSUME NEW f \in {"hello", "envelope"},
             \/ toward' = toward
             \/ toward' = [toward EXCEPT ![s] = Append(@, f)],
             f = "envelope" => sender'[s] \in HasSent,
             sender[s] \notin HasSent, back' = back,
             s \in Strangers => sender'[s] \notin {"envelope", "stopped", "ok"}
      PROVE  ShotInv'
  <2>1. PICK was \in Seq({"hello", "envelope"}) : was = toward[s]
    BY <1>1 DEF ShotTyped
  <2>2. PICK new \in Seq({"hello", "envelope"}) :
          /\ new = Append(was, f)
          /\ \A i \in DOMAIN new : (i \in DOMAIN was /\ new[i] = was[i]) \/ new[i] = f
    <3>1. Append(was, f) \in Seq({"hello", "envelope"})
      OBVIOUS
    <3>2. \A i \in DOMAIN Append(was, f) :
             (i \in DOMAIN was /\ Append(was, f)[i] = was[i]) \/ Append(was, f)[i] = f
      OBVIOUS
    <3> QED
      BY <3>1, <3>2
  <2>3. /\ toward' \in [Senders -> Seq({"hello", "envelope"})] /\ toward'[s] \in {was, new}
        /\ \A q \in Senders \ {s} : toward'[q] = toward[q]
    BY <2>1, <2>2, <1>1, <1>6 DEF ShotTyped
  <2>4. \A i \in DOMAIN was : was[i] # "envelope"
    BY <2>1, <1>1, <1>6 DEF WasSent
  <2>5. WasSent(s)'
    BY <2>1, <2>2, <2>3, <2>4, <1>6 DEF WasSent
  <2>6. ShotTyped' /\ (s \in Strangers => StrangerIsOut(s)')
    BY <2>3, <1>1, <1>2, <1>6 DEF ShotTyped, StrangerIsOut
  <2> QED
    BY <2>3, <2>5, <2>6, <1>2, <1>6, OneAtATime
<1>7. CASE SendHello(s)
  BY <1>1, <1>6, <1>7 DEF SendHello, At, HasSent, ShotTyped
<1>8. CASE SendEnvelope(s)
  <2>1. /\ sender[s] = "envelope" /\ sender'[s] = "stopped" /\ back' = back /\ s \notin Strangers
        /\ toward' = [toward EXCEPT ![s] = IF LetGo(s) THEN @ ELSE Append(@, "envelope")]
    BY <1>1, <1>8 DEF SendEnvelope, At, ShotTyped, StrangerIsOut
  <2>2. toward' = toward \/ toward' = [toward EXCEPT ![s] = Append(@, "envelope")]
    BY <2>1, <1>1 DEF ShotTyped
  <2> QED
    BY <2>1, <2>2, <1>6 DEF HasSent
<1>9. CASE ReadAnswer(s)
  <2>1. PICK was \in Seq({"hello", "reject"}) : was = back[s] /\ was # <<>>
    BY <1>1, <1>9 DEF ReadAnswer, ShotTyped
  <2>2. PICK left \in Seq({"hello", "reject"}) :
          left = Tail(was) /\ \A i \in DOMAIN left : i + 1 \in DOMAIN was /\ left[i] = was[i + 1]
    <3>1. Tail(was) \in Seq({"hello", "reject"})
      BY <2>1
    <3>2. \A i \in DOMAIN Tail(was) : i + 1 \in DOMAIN was /\ Tail(was)[i] = was[i + 1]
      BY <2>1
    <3> QED
      BY <3>1, <3>2
  <2>3. /\ back'[s] = left /\ back' \in [Senders -> Seq({"hello", "reject"})] /\ toward' = toward
        /\ \A q \in Senders \ {s} : back'[q] = back[q]
    BY <2>1, <2>2, <1>1, <1>9 DEF ReadAnswer, ShotTyped
  <2>4. sender[s] = "answer" /\ (s \in Strangers => sender'[s] = "failed")
    <3>1. Head(was) = was[1] /\ 1 \in DOMAIN was
      BY <2>1
    <3>2. s \in Strangers => Head(was) = "reject"
      BY <2>1, <3>1, <1>1 DEF StrangerIsOut
    <3> QED
      BY <2>1, <3>2, <1>1, <1>9 DEF ReadAnswer, At, ShotTyped
  <2>5. WasSent(s)'
    BY <2>3, <2>4, <1>1 DEF WasSent, HasSent
  <2>6. s \in Strangers => StrangerIsOut(s)'
    BY <2>1, <2>2, <2>3, <2>4, <1>1, <1>2 DEF StrangerIsOut
  <2>7. ShotTyped'
    BY <2>3, <1>1, <1>2 DEF ShotTyped
  <2> QED
    BY <2>3, <2>4, <2>5, <2>6, <2>7, <1>2, OneAtATime DEF HasSent
<1> QED
  BY <1>4, <1>5, <1>7, <1>8, <1>9 DEF SenderStep

LEMMA NextShot == ShotInv /\ [OneShotNext]_oneShotVars => ShotInv'
<1> SUFFICES ASSUME ShotInv, [OneShotNext]_oneShotVars PROVE ShotInv'
  OBVIOUS
<1>1. ASSUME UNCHANGED <<sender, task, toward, back, printed>> PROVE ShotInv'
  BY <1>1 DEF ShotInv, ShotTyped, WasSent, StrangerIsOut, PrintedStands
<1>2. CASE UNCHANGED oneShotVars
  BY <1>1, <1>2 DEF oneShotVars
<1>3. CASE (\E works \in BOOLEAN : BindAttempt(works)) \/ ListenEnds \/ \E a \in Senders \union {Listener} : Revoke(a)
  BY <1>1, <1>3 DEF BindAttempt, ListenEnds, Revoke
<1>4. ASSUME NEW s \in Senders, GoSilent(s) \/ Breaks(s) PROVE ShotInv'
  BY <1>1, <1>4 DEF GoSilent, Breaks
<1> QED
  BY <1>2, <1>3, <1>4, TaskShot, SenderShot DEF OneShotNext

\* Whatever is printed was sent, by a peer that stood when it was taken, and no
\* send of another user's reports success (recv_envelope, do_handshake, send), for
\* any senders at once, silent or not.
THEOREM PrintedIsTrusted == OneShotSpec => []PrintedStands
<1>1. ShotInv => PrintedStands
  BY DEF ShotInv
<1> QED
  BY <1>1, InitShot, NextShot, PTL DEF OneShotSpec

=============================================================================
